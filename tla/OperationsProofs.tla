--------------------------- MODULE OperationsProofs ---------------------------
(* Proofs about what surrounds the service: transactions and their             *)
(* connections, a process and its database, and the tools that say             *)
(* "verified".  Any set of connections, callers and stamp scripts, any number  *)
(* of failovers, rows, exports and generations, any window and any age.        *)
EXTENDS MCOperations, WellFoundedInduction, TLAPS

(* ------------------------------ transactions ------------------------------ *)

\* The connections in use play no part in what a caller is told.
TransactionType ==
  /\ tx = [phase |-> tx.phase, connection |-> tx.connection,
           server |-> tx.server, answer |-> tx.answer]
  /\ tx.phase \in {"none", "INITIALIZED", "IN_FLIGHT", "COMMITTING"}
  /\ tx.server \in {"none", "open", "deciding", "committed", "aborted"}
  /\ tx.answer \in {"none", "ok", "interrupted", "failed", "unconfirmed"}

\* Until the client commits, the server has nothing to decide.
UndecidedBefore == tx.phase \in {"INITIALIZED", "IN_FLIGHT"} => tx.server = "open"

TransactionInv == TransactionType /\ UndecidedBefore /\ CommitIsNeverDenied

\* Every error becomes one of three answers, and while a commit is out one only.
LEMMA AnswersToErrors ==
  ASSUME NEW phase, NEW e
  PROVE  /\ Thrown(phase, e) \in {"interrupted", "failed", "unconfirmed"}
         /\ phase = "COMMITTING" => Thrown(phase, e) = "unconfirmed"
  BY DEF Thrown

\* The invariant of a transaction is inductive.
THEOREM TransactionInvariant == TransactionSpec => []TransactionInv
<1>1. TransactionInit => TransactionInv
  BY DEF TransactionInit, NoTransaction, TransactionInv, TransactionType, UndecidedBefore,
         CommitIsNeverDenied
<1>2. TransactionInv /\ [TransactionNext]_txVars => TransactionInv'
  <2> SUFFICES ASSUME TransactionInv, [TransactionNext]_txVars PROVE TransactionInv'
    OBVIOUS
  <2> USE DEF TransactionInv, TransactionType, UndecidedBefore, CommitIsNeverDenied
  <2>1. CASE UNCHANGED tx
    BY <2>1
  <2>2. CASE BeginTransaction
    BY <2>2 DEF BeginTransaction
  <2>3. CASE RunAction
    BY <2>3 DEF RunAction
  <2>4. CASE ActionReturns
    BY <2>4 DEF ActionReturns
  <2>5. CASE CommitArrives
    BY <2>5 DEF CommitArrives
  <2>6. CASE ServerDecides
    BY <2>6 DEF ServerDecides
  <2>7. CASE CommitConfirmed
    BY <2>7 DEF CommitConfirmed, Ends
  <2>8. CASE StatementFails
    <3>1. PICK e \in QueryErrors : tx' = [Ends(Thrown(tx.phase, e)) EXCEPT !.server = "aborted"]
      BY <2>8 DEF StatementFails
    <3> QED BY <3>1, AnswersToErrors DEF Ends
  <2>9. CASE ConnectionLost
    <3>1. PICK e \in LostErrors :
            /\ tx.phase \in {"INITIALIZED", "IN_FLIGHT", "COMMITTING"}
            /\ tx' = [Ends(Thrown(tx.phase, e)) EXCEPT !.server = IF @ = "open" THEN "aborted" ELSE @]
      BY <2>9 DEF ConnectionLost
    <3> DEFINE answer == Thrown(tx.phase, e)
    <3>2. tx' = [phase |-> "none", connection |-> {}, answer |-> answer,
                 server |-> IF tx.server = "open" THEN "aborted" ELSE tx.server]
      BY <3>1 DEF Ends
    <3>3. /\ answer \in {"interrupted", "failed", "unconfirmed"}
          /\ tx.phase = "COMMITTING" => answer = "unconfirmed"
      BY AnswersToErrors
    <3> HIDE DEF answer
    <3> QED BY <3>1, <3>2, <3>3
  <2> QED
    BY <2>1, <2>2, <2>3, <2>4, <2>5, <2>6, <2>7, <2>8, <2>9
    DEF TransactionNext, txVars, Failover, IdleConnectionLost, StartProbe, DeadlinePasses,
        QueryAnswers, QueryLost
<1> QED BY <1>1, <1>2, PTL DEF TransactionSpec

\* A commit is never denied and never made up, whenever the connection was lost
\* (executeSafeTransaction): for any connections, failovers and errors.
THEOREM CommitsAreNotDenied == TransactionSpec => []CommitIsNeverDenied
BY TransactionInvariant, PTL DEF TransactionInv

(* ------------------------------- environments ----------------------------- *)

Run == [pc : {"start", "insert", "end"}, requested : Environments \cup {"none"},
        answer : {"none", "STAMPED", "ALREADY_STAMPED", "STAMP_CONFLICT", "STAMP_FAILURE"}]

DatabaseType ==
  /\ database = [migrated |-> database.migrated, stamp |-> database.stamp,
                 writers |-> database.writers, strayed |-> database.strayed]
  /\ database.stamp \in Environments \cup {"none"}

ProcessType ==
  process = [phase |-> process.phase, environment |-> process.environment,
             database |-> process.database, channel |-> process.channel,
             bypass |-> process.bypass, asked |-> process.asked, bound |-> process.bound,
             mustBeBound |-> process.mustBeBound, verification |-> process.verification]

\* Who writes to the database is of the environment it is stamped for.
WritersAreOfTheStamp == database.writers \subseteq {database.stamp} \ {"none"}

\* A script that is about to insert, or has stamped, was asked for an environment.
StampersAreAsked ==
  \A s \in Stampers :
    /\ stamping[s].pc = "insert" => stamping[s].requested # "none"
    /\ stamping[s].answer \in {"STAMPED", "ALREADY_STAMPED"} =>
         /\ stamping[s].requested # "none"
         /\ database.stamp = stamping[s].requested
         /\ stamping[s].pc = "end"

OneStamps ==
  \A s, t \in Stampers :
    stamping[s].answer = "STAMPED" /\ stamping[t].answer = "STAMPED" => s = t

\* What a process has verified stays true: it outlives neither a change of the
\* stamp, since there is none, nor the environment of the process.
VerifiedIsPaired ==
  /\ process.verification = "ok" =>
       process.environment = database.stamp /\ database.stamp # "none"
  /\ process.phase # "serving" => process.verification = "none"

AccessInv ==
  DatabaseType /\ stamping \in [Stampers -> Run] /\ ProcessType /\ WritersAreOfTheStamp /\ StampersAreAsked /\ OneStamps /\ VerifiedIsPaired

\* What an answer makes of the runs of the script.
LEMMA AnsweredRuns ==
  ASSUME stamping \in [Stampers -> Run], NEW s \in Stampers,
         NEW answer \in {"STAMPED", "ALREADY_STAMPED", "STAMP_CONFLICT", "STAMP_FAILURE"}
  PROVE  /\ Answered(s, answer) \in [Stampers -> Run]
         /\ \A t \in Stampers \ {s} : Answered(s, answer)[t] = stamping[t]
         /\ Answered(s, answer)[s] =
              [pc |-> "end", requested |-> stamping[s].requested, answer |-> answer]
  <1> DEFINE f == [stamping EXCEPT ![s].pc = "end"]
  <1>1. f \in [Stampers -> Run] /\ f[s] = [stamping[s] EXCEPT !.pc = "end"]
    BY DEF Run
  <1>2. \A t \in Stampers \ {s} : f[t] = stamping[t]
    OBVIOUS
  <1>3. Answered(s, answer) = [f EXCEPT ![s].answer = answer]
    BY DEF Answered
  <1>4. f[s] = [pc |-> "end", requested |-> stamping[s].requested, answer |-> stamping[s].answer]
    BY <1>1 DEF Run
  <1> HIDE DEF f
  <1>5. Answered(s, answer)[s] = [f[s] EXCEPT !.answer = answer]
    BY <1>1, <1>3
  <1>6. Answered(s, answer)[s] =
          [pc |-> "end", requested |-> stamping[s].requested, answer |-> answer]
    BY <1>4, <1>5
  <1>7. \A t \in Stampers \ {s} : Answered(s, answer)[t] = stamping[t]
    BY <1>1, <1>2, <1>3
  <1>8. Answered(s, answer) \in [Stampers -> Run]
    <2>1. Answered(s, answer)[s] \in Run
      BY <1>1, <1>4, <1>6 DEF Run
    <2>2. Answered(s, answer) = [f EXCEPT ![s] = Answered(s, answer)[s]]
      BY <1>1, <1>3
    <2> QED BY <1>1, <2>1, <2>2
  <1> QED BY <1>6, <1>7, <1>8

\* Only a process of the stamped environment passes the verification.
LEMMA PairingVerified ==
  ASSUME NEW runtime, NEW stamp, VerifyEnvironmentPairing(runtime, stamp) = "ok"
  PROVE  runtime = stamp /\ stamp # "none"
  <1>1. stamp # "none"
    BY DEF VerifyEnvironmentPairing
  <1>2. stamp \in Environments
    BY <1>1 DEF VerifyEnvironmentPairing
  <1>3. runtime = stamp
    BY <1>1, <1>2 DEF VerifyEnvironmentPairing
  <1> QED BY <1>1, <1>3

\* What matters of a step of the script: the stamp is put there once, by a run
\* that was asked for it, and a run that says so has seen it.
LEMMA OneRunMoves ==
  ASSUME AccessInv, NEW s \in Stampers,
         UNCHANGED process,
         DatabaseType', stamping' \in [Stampers -> Run],
         database'.writers = database.writers,
         \/ database'.stamp = database.stamp
         \/ database.stamp = "none" /\ stamping[s].pc = "insert",
         \A t \in Stampers \ {s} : stamping'[t] = stamping[t],
         stamping'[s].pc = "insert" => stamping'[s].requested # "none",
         stamping'[s].answer \in {"STAMPED", "ALREADY_STAMPED"} =>
           /\ stamping'[s].requested # "none"
           /\ database'.stamp = stamping'[s].requested
           /\ stamping'[s].pc = "end",
         stamping'[s].answer = "STAMPED" => database.stamp = "none"
  PROVE  AccessInv'
<1> USE DEF AccessInv
<1>1. WritersAreOfTheStamp'
  BY DEF WritersAreOfTheStamp
<1>2. StampersAreAsked'
  BY DEF StampersAreAsked
<1>3. OneStamps'
  BY DEF OneStamps, StampersAreAsked
<1>4. VerifiedIsPaired' /\ ProcessType'
  BY DEF VerifiedIsPaired, ProcessType
<1> QED BY <1>1, <1>2, <1>3, <1>4

\* A run that ends with an answer, and the stamp it leaves.
LEMMA RunEnds ==
  ASSUME AccessInv, NEW s \in Stampers,
         NEW answer \in {"STAMPED", "ALREADY_STAMPED", "STAMP_CONFLICT", "STAMP_FAILURE"},
         stamping' = Answered(s, answer),
         process' = process, DatabaseType', database'.writers = database.writers,
         \/ database'.stamp = database.stamp
         \/ database.stamp = "none" /\ stamping[s].pc = "insert",
         answer # "ALREADY_STAMPED",
         answer = "STAMPED" => /\ database.stamp = "none"
                               /\ stamping[s].requested # "none"
                               /\ database'.stamp = stamping[s].requested
  PROVE  AccessInv'
<1>1. stamping \in [Stampers -> Run]
  BY DEF AccessInv
<1>2. /\ stamping' \in [Stampers -> Run]
      /\ \A t \in Stampers \ {s} : stamping'[t] = stamping[t]
      /\ stamping'[s] = [pc |-> "end", requested |-> stamping[s].requested, answer |-> answer]
  BY <1>1, AnsweredRuns
<1>3. /\ stamping'[s].pc = "end" /\ stamping'[s].requested = stamping[s].requested
      /\ stamping'[s].answer = answer
  BY <1>2
<1> QED BY <1>2, <1>3, OneRunMoves

\* Every step of the stamp script keeps the invariant: it reads and then inserts,
\* and each can answer or fail.
LEMMA StampStep ==
  ASSUME AccessInv, NEW s \in Stampers,
         ReadExistingStamp(s) \/ InsertStamp(s) \/ StampFails(s)
  PROVE  AccessInv'
<1>1. /\ DatabaseType /\ stamping \in [Stampers -> Run]
      /\ stamping[s].pc # "end" => stamping[s].answer \notin {"STAMPED", "ALREADY_STAMPED"}
      /\ stamping[s].pc = "insert" => stamping[s].requested # "none"
  BY DEF AccessInv, StampersAreAsked
<1>2. CASE ReadExistingStamp(s)
  <2>1. PICK requested \in Environments :
          /\ stamping[s].pc = "start"
          /\ stamping' =
               CASE ~database.migrated -> Answered(s, "STAMP_FAILURE")
                 [] database.migrated /\ database.stamp = "none" ->
                      [stamping EXCEPT ![s].pc = "insert", ![s].requested = requested]
                 [] OTHER ->
                      [Answered(s, IF database.stamp = requested THEN "ALREADY_STAMPED"
                                                                 ELSE "STAMP_CONFLICT")
                         EXCEPT ![s].requested = requested]
    BY <1>2 DEF ReadExistingStamp
  <2>2. UNCHANGED <<database, process>> /\ DatabaseType'
    BY <1>1, <1>2 DEF ReadExistingStamp, DatabaseType
  <2>3. requested # "none"
    BY DEF Environments
  <2>4. CASE ~database.migrated
    <3>1. stamping' = Answered(s, "STAMP_FAILURE")
      BY <2>1, <2>4
    <3> QED BY <2>2, <3>1, RunEnds
  <2>5. CASE database.migrated /\ database.stamp = "none"
    <3> DEFINE f == [stamping EXCEPT ![s].pc = "insert"]
    <3>1. f \in [Stampers -> Run] /\ f[s] = [stamping[s] EXCEPT !.pc = "insert"]
      BY <1>1 DEF Run
    <3>2. \A t \in Stampers \ {s} : f[t] = stamping[t]
      BY <1>1
    <3>3. stamping' = [f EXCEPT ![s].requested = requested]
      BY <2>1, <2>5
    <3>4. f[s].answer = stamping[s].answer /\ f[s].pc = "insert"
      BY <1>1, <3>1 DEF Run
    <3> HIDE DEF f
    <3>5. /\ stamping' \in [Stampers -> Run]
          /\ \A t \in Stampers \ {s} : stamping'[t] = stamping[t]
          /\ stamping'[s] = [f[s] EXCEPT !.requested = requested]
      <4>1. PICK r : r = [f[s] EXCEPT !.requested = requested]
        OBVIOUS
      <4>2. r \in Run
        <5>1. f[s] \in Run /\ requested \in Environments
          BY <2>1, <3>1
        <5> QED BY <4>1, <5>1 DEF Run
      <4>3. stamping' = [f EXCEPT ![s] = r]
        BY <3>1, <3>3, <4>1
      <4> QED BY <3>1, <3>2, <4>1, <4>2, <4>3
    <3>6. /\ stamping'[s].pc = "insert" /\ stamping'[s].requested = requested
          /\ stamping'[s].answer = stamping[s].answer
      BY <3>1, <3>4, <3>5 DEF Run
    <3> QED BY <1>1, <2>1, <2>2, <2>3, <3>5, <3>6, OneRunMoves
  <2>6. CASE database.migrated /\ database.stamp # "none"
    <3> DEFINE answer == IF database.stamp = requested THEN "ALREADY_STAMPED" ELSE "STAMP_CONFLICT"
               f == Answered(s, answer)
    <3>1. stamping' = [f EXCEPT ![s].requested = requested]
      BY <2>1, <2>6
    <3>2. /\ answer \in {"ALREADY_STAMPED", "STAMP_CONFLICT"}
          /\ answer = "ALREADY_STAMPED" => database.stamp = requested
      OBVIOUS
    <3> HIDE DEF answer
    <3>3. /\ f \in [Stampers -> Run]
          /\ \A t \in Stampers \ {s} : f[t] = stamping[t]
          /\ f[s] = [pc |-> "end", requested |-> stamping[s].requested, answer |-> answer]
      <4>1. answer \in {"STAMPED", "ALREADY_STAMPED", "STAMP_CONFLICT", "STAMP_FAILURE"}
        BY <3>2
      <4> QED BY <1>1, <4>1, AnsweredRuns
    <3> HIDE DEF f
    <3>4. /\ stamping' \in [Stampers -> Run]
          /\ \A t \in Stampers \ {s} : stamping'[t] = stamping[t]
          /\ stamping'[s] = [f[s] EXCEPT !.requested = requested]
      BY <3>1, <3>3 DEF Run
    <3>5. stamping'[s] = [pc |-> "end", requested |-> requested, answer |-> answer]
      BY <3>3, <3>4
    <3>6. /\ stamping'[s].pc = "end" /\ stamping'[s].requested = requested
          /\ stamping'[s].answer = answer
      BY <3>5
    <3> QED BY <2>2, <2>3, <3>2, <3>4, <3>6, OneRunMoves
  <2> QED BY <2>4, <2>5, <2>6
<1>3. CASE InsertStamp(s)
  <2>1. CASE database.stamp = "none"
    <3>1. stamping' = Answered(s, "STAMPED") /\ stamping[s].pc = "insert" /\ UNCHANGED process
      BY <1>3, <2>1 DEF InsertStamp
    <3>2. database' = [migrated |-> database.migrated, stamp |-> stamping[s].requested,
                       writers |-> database.writers, strayed |-> database.strayed]
      BY <1>1, <1>3, <2>1 DEF InsertStamp, DatabaseType
    <3>3. DatabaseType'
      BY <1>1, <3>2 DEF DatabaseType, Run
    <3> QED BY <1>1, <2>1, <3>1, <3>2, <3>3, RunEnds
  <2>2. CASE database.stamp # "none"
    <3>1. stamping' = Answered(s, "STAMP_FAILURE") /\ UNCHANGED <<database, process>>
      BY <1>3, <2>2 DEF InsertStamp
    <3>2. DatabaseType'
      BY <1>1, <3>1 DEF DatabaseType
    <3> QED BY <3>1, <3>2, RunEnds
  <2> QED BY <2>1, <2>2
<1>4. CASE StampFails(s)
  <2>1. stamping' = Answered(s, "STAMP_FAILURE") /\ UNCHANGED process
    BY <1>4 DEF StampFails
  <2>2. CASE UNCHANGED database
    <3>1. DatabaseType'
      BY <1>1, <2>2 DEF DatabaseType
    <3> QED BY <2>1, <2>2, <3>1, RunEnds
  <2>3. CASE /\ stamping[s].pc = "insert" /\ database.stamp = "none"
             /\ database' = [database EXCEPT !.stamp = stamping[s].requested]
    <3>1. database' = [migrated |-> database.migrated, stamp |-> stamping[s].requested,
                       writers |-> database.writers, strayed |-> database.strayed]
      BY <1>1, <2>3 DEF DatabaseType
    <3>2. DatabaseType'
      BY <1>1, <3>1 DEF DatabaseType, Run
    <3> QED BY <1>1, <2>1, <2>3, <3>1, <3>2, RunEnds
  <2> QED BY <1>4, <2>2, <2>3 DEF StampFails
<1> QED BY <1>2, <1>3, <1>4

\* Whatever the fingerprint says, the process begins anew or goes on.
LEMMA FingerprintStep ==
  ASSUME CheckFingerprint
  PROVE  \E bound, must : \/ process' = NotStarted
                          \/ process' = [process EXCEPT !.phase = "open", !.bound = bound,
                                                        !.mustBeBound = must]
<1>1. PICK expected \in {"matching", "another", "missing"},
           raw \in {"fail", "degrade", "warn", "unset"} :
        process' =
          IF VerifyFingerprint(expected, FingerprintPolicy(raw, process.environment),
                               process.environment) = "ok"
          THEN [process EXCEPT !.phase = "open", !.bound = expected = "matching",
                               !.mustBeBound = FingerprintPolicy(raw, process.environment) = "fail"]
          ELSE NotStarted
  BY ZenonT(60) DEF CheckFingerprint
<1>2. PICK bound : bound = (expected = "matching")
  OBVIOUS
<1>3. PICK must : must = (FingerprintPolicy(raw, process.environment) = "fail")
  OBVIOUS
<1>4. \/ process' = NotStarted
      \/ process' = [process EXCEPT !.phase = "open", !.bound = bound, !.mustBeBound = must]
  BY <1>1, <1>2, <1>3, ZenonT(60)
<1> QED BY <1>4, ZenonT(60)

\* Every step of a process but its verification either begins anew or keeps what
\* was verified.
LEMMA ProcessStep ==
  ASSUME AccessInv,
         Configure \/ CheckFingerprint \/ OpenDatabase \/ Restart \/ \E c \in Callers : Ensure(c)
  PROVE  AccessInv'
<1> USE DEF AccessInv, DatabaseType, ProcessType, Run, WritersAreOfTheStamp, StampersAreAsked, OneStamps,
            VerifiedIsPaired, NotStarted
<1>1. CASE Configure
  <2>1. PICK kind \in {"server", "script"}, config \in RuntimeConfigs :
          process' = [NotStarted EXCEPT !.phase = IF kind = "server" THEN "fingerprint" ELSE "open",
                                        !.environment = config.environment,
                                        !.database = config.database]
    BY <1>1 DEF Configure
  <2>2. UNCHANGED <<database, stamping>>
    BY <1>1 DEF Configure
  <2> QED BY <2>1, <2>2
<1>2. CASE CheckFingerprint
  <2>1. process.phase = "fingerprint" /\ UNCHANGED <<database, stamping>>
    BY <1>2 DEF CheckFingerprint
  <2>2. PICK bound, must : \/ process' = NotStarted
                           \/ process' = [process EXCEPT !.phase = "open", !.bound = bound,
                                                         !.mustBeBound = must]
    BY <1>2, FingerprintStep
  <2>3. CASE process' = NotStarted
    BY <2>1, <2>3
  <2>4. CASE process' = [process EXCEPT !.phase = "open", !.bound = bound, !.mustBeBound = must]
    BY <2>1, <2>4
  <2> QED BY <2>2, <2>3, <2>4
<1>3. CASE OpenDatabase
  <2>1. process.phase = "open" /\ UNCHANGED <<database, stamping>>
    BY <1>3 DEF OpenDatabase
  <2>2. PICK tls \in TlsOutcomes[process.environment] :
          process' = IF process.database /\ tls.verdict = "ok"
                     THEN [process EXCEPT !.phase = "serving", !.channel = tls.channel,
                                          !.bypass = tls.bypass, !.asked = tls.asked]
                     ELSE NotStarted
    BY <1>3 DEF OpenDatabase
  <2>3. CASE process.database /\ tls.verdict = "ok"
    BY <2>1, <2>2, <2>3
  <2>4. CASE ~(process.database /\ tls.verdict = "ok")
    BY <2>1, <2>2, <2>4
  <2> QED BY <2>3, <2>4
<1>4. CASE Restart
  BY <1>4 DEF Restart
<1>5. CASE \E c \in Callers : Ensure(c)
  <2>1. /\ process.phase = "serving" /\ UNCHANGED <<database, stamping>>
        /\ process' = [process EXCEPT !.verification = IF @ = "none" THEN "pending" ELSE @]
    BY <1>5 DEF Ensure
  <2> QED BY <2>1
<1> QED BY <1>1, <1>2, <1>3, <1>4, <1>5

\* The invariant of the access to the database is inductive.
THEOREM AccessInvariant == AccessSpec => []AccessInv
<1>1. AccessInit => AccessInv
  BY DEF AccessInit, AccessInv, DatabaseType, ProcessType, Run, WritersAreOfTheStamp, StampersAreAsked, OneStamps,
         VerifiedIsPaired, NotStarted
<1>2. AccessInv /\ [AccessNext]_accessVars => AccessInv'
  <2> SUFFICES ASSUME AccessInv, [AccessNext]_accessVars PROVE AccessInv'
    OBVIOUS
  <2>1. CASE UNCHANGED accessVars
    BY <2>1 DEF accessVars, AccessInv, DatabaseType, ProcessType, Run, WritersAreOfTheStamp, StampersAreAsked,
                OneStamps, VerifiedIsPaired
  <2>2. CASE Migrate
    BY <2>2 DEF Migrate, AccessInv, DatabaseType, ProcessType, Run, WritersAreOfTheStamp, StampersAreAsked,
                OneStamps, VerifiedIsPaired
  <2>3. CASE \E s \in Stampers : ReadExistingStamp(s) \/ InsertStamp(s) \/ StampFails(s)
    BY <2>3, StampStep
  <2>4. CASE Configure \/ CheckFingerprint \/ OpenDatabase \/ Restart \/ \E c \in Callers : Ensure(c)
    BY <2>4, ProcessStep
  <2>5. CASE VerifyStamp
    <3>1. PICK verdict \in {VerifyEnvironmentPairing(process.environment, database.stamp),
                            "QUERY_FAILED", "DATABASE_STAMP_MISSING"} :
            process' = [process EXCEPT !.verification = verdict]
      BY <2>5 DEF VerifyStamp
    <3>2. process.phase = "serving" /\ UNCHANGED <<database, stamping>>
      BY <2>5 DEF VerifyStamp
    <3>3. verdict = "ok" => process.environment = database.stamp /\ database.stamp # "none"
      BY PairingVerified
    <3> QED
      BY <3>1, <3>2, <3>3 DEF AccessInv, DatabaseType, ProcessType, Run, WritersAreOfTheStamp, StampersAreAsked,
                              OneStamps, VerifiedIsPaired
  <2>6. CASE \E c \in Callers : Write(c)
    <3>1. /\ process.verification = "ok" /\ UNCHANGED <<stamping, process>>
          /\ database' = [database EXCEPT !.writers = @ \cup {process.environment}]
      BY <2>6 DEF Write
    <3> QED
      BY <3>1 DEF AccessInv, DatabaseType, ProcessType, Run, WritersAreOfTheStamp, StampersAreAsked, OneStamps,
                  VerifiedIsPaired
  <2>7. CASE \E c \in Callers : Refuse(c)
    BY <2>7 DEF Refuse, AccessInv, DatabaseType, ProcessType, Run, WritersAreOfTheStamp, StampersAreAsked,
                OneStamps, VerifiedIsPaired
  <2>8. CASE WriteSuppression
    <3>1. /\ UNCHANGED <<stamping, process>>
          /\ \E strayed : database' = [database EXCEPT !.strayed = strayed]
      BY <2>8 DEF WriteSuppression
    <3> QED
      BY <3>1 DEF AccessInv, DatabaseType, ProcessType, Run, WritersAreOfTheStamp, StampersAreAsked, OneStamps,
                  VerifiedIsPaired
  <2> QED BY <2>1, <2>2, <2>3, <2>4, <2>5, <2>6, <2>7, <2>8 DEF AccessNext
<1> QED BY <1>1, <1>2, PTL DEF AccessSpec

\* Rate snapshots, scores and registry rows of different environments never meet
\* (ensureDatabaseEnvironment and the stamp script): for any processes, callers
\* and overlapping stamp scripts, whoever writes suppressions in between.
THEOREM EnvironmentsAreIsolated == AccessSpec => []EnvironmentIsolation
<1>1. AccessInv => EnvironmentIsolation
  BY DEF AccessInv, WritersAreOfTheStamp, StampersAreAsked, OneStamps, EnvironmentIsolation
<1> QED BY <1>1, AccessInvariant, PTL

(* ------------------------------ database TLS ------------------------------ *)

\* A declaration names a mode, and is no certificate when the mode is a weak one.
LEMMA Declarations ==
  ASSUME NEW d \in UrlDeclarations
  PROVE  /\ d[1] \in SslUrlParameters
         /\ d[2] \in {"DISABLED", "NO_VERIFY", "UNSET", "REQUIRE", "VERIFY_FULL"}
         /\ d[2] # "VERIFY_FULL" => d # Certificates
BY DEF UrlDeclarations, SslUrlParameters, Certificates, ModeStrength

\* Of several declarations that contradict each other the weakest decides.
LEMMA WeakestDecides ==
  ASSUME NEW declared \in SUBSET UrlDeclarations, NEW mode \in {"DISABLED", "NO_VERIFY"},
         \E d \in declared : d[2] = mode,
         mode # "DISABLED" => ~\E d \in declared : d[2] = "DISABLED"
  PROVE  WeakestMode(declared) = mode
<1> DEFINE modes == {d[2] : d \in declared}
<1>1. \A d \in declared :
        d[2] \in {"DISABLED", "NO_VERIFY", "UNSET", "REQUIRE", "VERIFY_FULL"}
  BY Declarations
<1>2. mode \in modes /\ \A d \in declared : ModeStrength[mode] =< ModeStrength[d[2]]
  BY <1>1 DEF ModeStrength
<1>3. WeakestMode(declared) = CHOOSE m \in modes :
                                \A d \in declared : ModeStrength[m] =< ModeStrength[d[2]]
  BY DEF WeakestMode
<1>4. /\ WeakestMode(declared) \in modes
      /\ \A d \in declared : ModeStrength[WeakestMode(declared)] =< ModeStrength[d[2]]
  BY <1>2, <1>3
<1> DEFINE m == WeakestMode(declared)
<1>5. m \in {"DISABLED", "NO_VERIFY", "UNSET", "REQUIRE", "VERIFY_FULL"}
  BY <1>1, <1>4
<1>6. ModeStrength[m] =< ModeStrength[mode]
  BY <1>4
<1>7. m \in modes
  BY <1>4
<1> HIDE DEF m
<1>8. m = mode
  BY <1>5, <1>6, <1>7 DEF ModeStrength
<1> QED BY <1>8 DEF m

\* A URL that declares plaintext is read as plaintext whatever else it declares,
\* and one that declares no verification as no better than that.
LEMMA WeakDeclarationsCount ==
  ASSUME NEW declared \in SUBSET UrlDeclarations, NEW pgMode
  PROVE  /\ (\E d \in declared : d[2] = "DISABLED") => EffectiveMode(declared, pgMode) = "DISABLED"
         /\ (\E d \in declared : d[2] = "NO_VERIFY") =>
              EffectiveMode(declared, pgMode) \in {"DISABLED", "NO_VERIFY"}
<1>1. ASSUME NEW mode \in {"DISABLED", "NO_VERIFY"},
             \E d \in declared : d[2] = mode,
             mode # "DISABLED" => ~\E d \in declared : d[2] = "DISABLED"
      PROVE  EffectiveMode(declared, pgMode) = mode
  <2> DEFINE modes == declared \ {Certificates}
  <2>1. modes \in SUBSET UrlDeclarations /\ \E d \in modes : d[2] = mode
    BY <1>1, Declarations
  <2>2. mode # "DISABLED" => ~\E d \in modes : d[2] = "DISABLED"
    BY <1>1
  <2>3. WeakestMode(modes) = mode
    BY <2>1, <2>2, WeakestDecides
  <2>4. ClassifyUrlTlsParameters(declared) = mode
    BY <2>1, <2>3 DEF ClassifyUrlTlsParameters
  <2> QED BY <2>4 DEF EffectiveMode
<1>2. CASE \E d \in declared : d[2] = "DISABLED"
  BY <1>1, <1>2
<1>3. CASE ~\E d \in declared : d[2] = "DISABLED"
  BY <1>1, <1>3
<1> QED BY <1>2, <1>3

\* What production accepts of all the settings there are.
LEMMA ProductionOutcome ==
  ASSUME NEW tls \in TlsOutcomes["production"], tls.verdict = "ok"
  PROVE  /\ tls.channel = "VERIFY_FULL" \/ (tls.bypass /\ tls.channel = "NO_VERIFY")
         /\ "DISABLED" \notin tls.asked
         /\ "NO_VERIFY" \in tls.asked => tls.bypass
<1> DEFINE PgModes == DOMAIN ModeStrength \cup {"none"}
           Authorities == {"none", "read", "lost"}
<1>1. PICK declared \in SUBSET UrlDeclarations, pgMode \in PgModes, bypassSet \in BOOLEAN,
           ca \in Authorities :
        tls = TlsOutcome("production", declared, pgMode, bypassSet, ca)
  <2> DEFINE OfTwo(d, e, pgMode, bypass, ca) == TlsOutcome("production", {d, e}, pgMode, bypass, ca)
             Declared == {OfTwo(d, e, pgMode, bypass, ca) :
                            d, e \in UrlDeclarations, pgMode \in PgModes, bypass \in BOOLEAN,
                            ca \in Authorities}
             Undeclared == {TlsOutcome("production", {}, pgMode, bypass, ca) :
                              pgMode \in PgModes, bypass \in BOOLEAN, ca \in Authorities}
  <2>1. TlsOutcomes["production"] = Declared \cup Undeclared
    BY DEF TlsOutcomes, Environments
  <2> HIDE DEF PgModes, Authorities
  <2>2. CASE tls \in Declared
    <3> HIDE DEF OfTwo
    <3>1. PICK d, e \in UrlDeclarations, pgMode \in PgModes, bypass \in BOOLEAN,
               ca \in Authorities : tls = OfTwo(d, e, pgMode, bypass, ca)
      BY <2>2, SMT
    <3>2. {d, e} \in SUBSET UrlDeclarations
      OBVIOUS
    <3> QED BY <3>1, <3>2 DEF OfTwo
  <2>3. CASE tls \in Undeclared
    <3>1. PICK pgMode \in PgModes, bypass \in BOOLEAN, ca \in Authorities :
            tls = TlsOutcome("production", {}, pgMode, bypass, ca)
      BY <2>3, SMT
    <3>2. {} \in SUBSET UrlDeclarations
      OBVIOUS
    <3> QED BY <3>1, <3>2
  <2> HIDE DEF Declared, Undeclared
  <2> QED BY <2>1, <2>2, <2>3
<1> DEFINE mode == EffectiveMode(declared, pgMode)
           resolved == ResolveDatabaseTlsPolicy(mode, TRUE, bypassSet)
<1>2. tls.bypass <=> bypassSet
  BY <1>1 DEF TlsOutcome
<1>3. tls.verdict = "ok" => resolved \in DOMAIN ModeStrength
  BY <1>1 DEF TlsOutcome, ResolveDatabaseTlsPolicy
<1>4. /\ mode # "DISABLED"
      /\ mode = "NO_VERIFY" => bypassSet
      /\ resolved = "VERIFY_FULL" \/ (bypassSet /\ resolved = "NO_VERIFY")
  BY <1>3 DEF ResolveDatabaseTlsPolicy, ModeStrength
<1>5. StripTlsParameters(declared) = {}
  BY Declarations DEF StripTlsParameters
<1>6. tls.channel = resolved
  BY <1>1, <1>3, <1>5 DEF TlsOutcome, DriverChannel
<1>7. tls.asked = {d[2] : d \in declared} \cap {"DISABLED", "NO_VERIFY"}
  BY <1>1 DEF TlsOutcome
<1> HIDE DEF mode, resolved
<1> QED BY <1>2, <1>4, <1>6, <1>7, WeakDeclarationsCount DEF mode

\* A production server whose policy refuses another fingerprint has the one that
\* was released.
BoundIfProduction ==
  process.environment = "production" /\ process.mustBeBound => process.bound

ProductionInv == ProcessType /\ BoundIfProduction /\ ProductionIsAuthenticated

\* A fingerprint that is missing or another's is let pass by no production server
\* that must be bound.
LEMMA FingerprintBinds ==
  ASSUME NEW expected \in {"matching", "another", "missing"}, NEW policy,
         VerifyFingerprint(expected, policy, "production") = "ok", policy = "fail"
  PROVE  expected = "matching"
BY DEF VerifyFingerprint

\* Every step of a production process keeps it authenticated.
LEMMA ProductionStep ==
  ASSUME ProductionInv, [AccessNext]_accessVars
  PROVE  ProductionInv'
<1> USE DEF ProductionInv, ProcessType, BoundIfProduction, ProductionIsAuthenticated, NotStarted
<1>1. CASE UNCHANGED process
  BY <1>1
<1>2. CASE process' = NotStarted
  BY <1>2
<1>3. CASE Configure
  BY <1>3 DEF Configure
<1>4. CASE CheckFingerprint
  <2>1. PICK expected \in {"matching", "another", "missing"},
             raw \in {"fail", "degrade", "warn", "unset"} :
          process' =
            IF VerifyFingerprint(expected, FingerprintPolicy(raw, process.environment),
                                 process.environment) = "ok"
            THEN [process EXCEPT !.phase = "open", !.bound = expected = "matching",
                                 !.mustBeBound = FingerprintPolicy(raw, process.environment) = "fail"]
            ELSE NotStarted
    BY <1>4, ZenonT(60) DEF CheckFingerprint
  <2> DEFINE policy == FingerprintPolicy(raw, process.environment)
             bound == expected = "matching"
             must == policy = "fail"
  <2>2. CASE VerifyFingerprint(expected, policy, process.environment) = "ok"
    <3>1. process' = [process EXCEPT !.phase = "open", !.bound = bound, !.mustBeBound = must]
      BY <2>1, <2>2, Zenon
    <3>2. process.environment = "production" /\ must => bound
      BY <2>2, FingerprintBinds
    <3> HIDE DEF policy, bound, must
    <3>3. process' = [phase |-> "open", environment |-> process.environment,
                      database |-> process.database, channel |-> process.channel,
                      bypass |-> process.bypass, asked |-> process.asked, bound |-> bound,
                      mustBeBound |-> must, verification |-> process.verification]
      BY <3>1
    <3> QED BY <3>2, <3>3
  <2>3. CASE VerifyFingerprint(expected, policy, process.environment) # "ok"
    <3>1. process' = NotStarted
      BY <2>1, <2>3, Zenon
    <3> QED BY <1>2, <3>1
  <2> QED BY <2>2, <2>3
<1>5. CASE OpenDatabase
  <2>1. PICK tls \in TlsOutcomes[process.environment] :
          process' = IF process.database /\ tls.verdict = "ok"
                     THEN [process EXCEPT !.phase = "serving", !.channel = tls.channel,
                                          !.bypass = tls.bypass, !.asked = tls.asked]
                     ELSE NotStarted
    BY <1>5 DEF OpenDatabase
  <2>2. CASE process.database /\ tls.verdict = "ok"
    <3>1. process' = [phase |-> "serving", environment |-> process.environment,
                      database |-> process.database, channel |-> tls.channel,
                      bypass |-> tls.bypass, asked |-> tls.asked, bound |-> process.bound,
                      mustBeBound |-> process.mustBeBound, verification |-> process.verification]
      BY <2>1, <2>2
    <3>2. process.environment = "production" =>
            /\ tls.channel = "VERIFY_FULL" \/ (tls.bypass /\ tls.channel = "NO_VERIFY")
            /\ "DISABLED" \notin tls.asked
            /\ "NO_VERIFY" \in tls.asked => tls.bypass
      BY <2>2, ProductionOutcome
    <3> QED BY <3>1, <3>2
  <2>3. CASE ~(process.database /\ tls.verdict = "ok")
    BY <1>2, <2>1, <2>3
  <2> QED BY <2>2, <2>3
<1>6. CASE \E c \in Callers : Ensure(c)
  <2>1. process' = [process EXCEPT !.verification = IF @ = "none" THEN "pending" ELSE @]
    BY <1>6 DEF Ensure
  <2> QED BY <2>1
<1>7. CASE VerifyStamp
  <2>1. PICK verdict : process' = [process EXCEPT !.verification = verdict]
    BY <1>7 DEF VerifyStamp
  <2> QED BY <2>1
<1>8. CASE Restart
  BY <1>2, <1>8 DEF Restart
<1> QED BY <1>1, <1>3, <1>4, <1>5, <1>6, <1>7, <1>8
        DEF AccessNext, accessVars, Migrate, ReadExistingStamp, InsertStamp, StampFails, Write,
            WriteSuppression, Refuse

\* A production process that serves speaks verified TLS (tlsPolicy.ts,
\* runtimeConfigFingerprint.ts), whatever its settings contradict each other in,
\* however often it restarts and whoever waits for its verification.
THEOREM ProductionSpeaksVerifiedTls == AccessSpec => []ProductionIsAuthenticated
<1>1. AccessInit => ProductionInv
  BY DEF AccessInit, NotStarted, ProductionInv, ProcessType, BoundIfProduction,
         ProductionIsAuthenticated
<1>2. ProductionInv /\ [AccessNext]_accessVars => ProductionInv'
  BY ProductionStep
<1>3. ProductionInv => ProductionIsAuthenticated
  BY DEF ProductionInv
<1> QED BY <1>1, <1>2, <1>3, PTL DEF AccessSpec

(* --------------------------------- checks ---------------------------------- *)

\* There is a first one among the checks an input fails.
LEMMA FirstFound ==
  ASSUME NEW checks, NEW defects, NEW n \in Nat, DOMAIN checks = 1 .. n, Found(checks, defects) # {}
  PROVE  Min(Found(checks, defects)) \in Found(checks, defects)
<1>1. PICK S : S = Found(checks, defects)
  OBVIOUS
<1>2. S \subseteq Nat /\ S # {}
  BY <1>1 DEF Found
<1>3. PICK i \in S : \A j \in S : ~ (<<j, i>> \in OpToRel(<, Nat))
  BY <1>2, NatLessThanWellFounded, WFMin
<1>4. \A j \in S : ~ (j < i)
  BY <1>2, <1>3 DEF OpToRel
<1>5. \A j \in S : i <= j
  BY <1>2, <1>4
<1> QED BY <1>1, <1>5 DEF Min

(* --------------------------------- guards ---------------------------------- *)

GuardsInv ==
  /\ clock \in Nat
  /\ keys = [current |-> keys.current, previous |-> keys.previous,
             overlapUntil |-> keys.overlapUntil, rotatedAt |-> keys.rotatedAt]
  /\ keys.current \in Int /\ keys.current >= NoKey
  /\ keys.rotatedAt \in Nat /\ keys.rotatedAt <= clock
  /\ keys.current >= 0 => /\ keys.previous = keys.current - 1
                          /\ keys.overlapUntil = keys.rotatedAt + OverlapWindow
  /\ backup.status \in {"MISSING", "PRESENT_SUCCESSFUL", "PRESENT_FAILED"}
  /\ backup.at \in Int /\ backup.at <= clock
  /\ backup.status # "MISSING" =>
       /\ backup.key \in Nat /\ backup.key <= keys.current
       /\ backup.key < keys.current => backup.at <= keys.rotatedAt

\* Each step of an operator and the clock keeps what is known of the guards.
LEMMA GuardsStep ==
  ASSUME GuardsInv, GuardsNext
  PROVE  GuardsInv'
<1>1. CASE TakeBackup
  <2>1. PICK status \in {"PRESENT_SUCCESSFUL", "PRESENT_FAILED"}, ours \in {"ours", "other"},
             at \in {clock, Undated} :
          backup' = [key |-> keys.current, at |-> at, status |-> status, database |-> ours]
    BY <1>1 DEF TakeBackup
  <2>2. at \in Int /\ at <= clock
    BY <2>1 DEF GuardsInv, Undated
  <2>3. keys.current # NoKey /\ UNCHANGED <<clock, keys>>
    BY <1>1 DEF TakeBackup
  <2> QED BY <2>1, <2>2, <2>3 DEF GuardsInv, NoKey
<1>2. CASE RotateKey
  <2>1. keys' = [current |-> keys.current + 1, previous |-> keys.current,
                 overlapUntil |-> clock + OverlapWindow, rotatedAt |-> clock]
        /\ UNCHANGED <<clock, backup>>
    BY <1>2 DEF RotateKey
  <2> QED BY <2>1, GuardsAssumption DEF GuardsInv, NoKey
<1>3. CASE GuardsTick
  BY <1>3 DEF GuardsTick, GuardsInv
<1> QED BY <1>1, <1>2, <1>3 DEF GuardsNext

\* Nothing has happened at first.
LEMMA GuardsStart == ASSUME GuardsInit PROVE GuardsInv
BY DEF GuardsInit, GuardsInv, NoKey, NoBackup, Undated

\* What is known of the keys says which backups open.
LEMMA GuardsHold == ASSUME GuardsInv PROVE BackupsStayRestorable
<1>1. ASSUME backup.status # "MISSING"
      PROVE  Opens(backup.key)
               <=> \/ backup.key = keys.current
                   \/ backup.key = keys.current - 1 /\ clock - keys.rotatedAt < OverlapWindow
  <2>1. backup.key # NoKey /\ backup.key \in Nat /\ backup.key <= keys.current /\ keys.current # NoKey
    BY <1>1 DEF GuardsInv, NoKey
  <2>2. CASE backup.key = keys.current
    <3>1. ResolveRestoreKey(backup.key, clock) = "primary"
      BY <2>1, <2>2 DEF ResolveRestoreKey, GuardsInv
    <3> QED BY <2>2, <3>1 DEF Opens
  <2>3. CASE backup.key = keys.current - 1
    <3>1. OverlapIsActive(clock) <=> clock - keys.rotatedAt < OverlapWindow
      BY <2>1, GuardsAssumption DEF GuardsInv, OverlapIsActive
    <3>2. ResolveRestoreKey(backup.key, clock) = IF OverlapIsActive(clock) THEN "overlap" ELSE "KEY_RETIRED"
      BY <2>1, <2>3 DEF ResolveRestoreKey, GuardsInv
    <3> QED BY <2>1, <2>3, <3>1, <3>2 DEF GuardsInv, Opens
  <2>4. CASE backup.key # keys.current /\ backup.key # keys.current - 1
    <3>1. ResolveRestoreKey(backup.key, clock) = "KEY_UNKNOWN"
      BY <2>1, <2>4 DEF ResolveRestoreKey, GuardsInv
    <3> QED BY <2>4, <3>1 DEF Opens
  <2> QED BY <2>2, <2>3, <2>4
<1>2. ASSUME EvidenceVerdict("HIGH", backup, "ours", clock, EvidenceMaxAge) = "ok"
      PROVE  Opens(backup.key) \/ backup.key < keys.current - 1
  <2>1. backup.status # "MISSING" /\ clock - backup.at <= EvidenceMaxAge
    <3>1. EvidenceVerdict("HIGH", backup, "ours", clock, EvidenceMaxAge) =
            IF backup.status = "MISSING" THEN "EVIDENCE_MISSING"
            ELSE IF backup.status = "PRESENT_FAILED" THEN "EVIDENCE_FAILED"
            ELSE IF backup.at = Undated THEN "EVIDENCE_MISSING"
            ELSE IF EvidenceMaxAge < 0 \/ clock - backup.at > EvidenceMaxAge THEN "EVIDENCE_STALE"
            ELSE IF backup.database # "ours" THEN "EVIDENCE_TARGET_MISMATCH" ELSE "ok"
      BY DEF EvidenceVerdict
    <3>2. backup.status # "MISSING" /\ ~(clock - backup.at > EvidenceMaxAge)
      BY <1>2, <3>1
    <3>3. clock - backup.at \in Int
      BY DEF GuardsInv
    <3> QED BY <3>2, <3>3, GuardsAssumption
  <2>2. backup.key = keys.current - 1 => clock - keys.rotatedAt < OverlapWindow
    BY <2>1, GuardsAssumption DEF GuardsInv
  <2> QED BY <1>1, <2>1, <2>2 DEF GuardsInv
<1> QED BY <1>1, <1>2 DEF BackupsStayRestorable

(* ------------------------------- the rotation ------------------------------ *)

Mistakes == {"none", "blank_primary", "duplicate", "no_deadline", "malformed_deadline"}

\* The secret before the primary is revoked from the deadline on, and all before
\* it; the scheduler has the primary, the one before it, or one that is revoked.
CronInv ==
  /\ hour \in Nat
  /\ deployed = [primary |-> deployed.primary, previous |-> deployed.previous, until |-> deployed.until]
  /\ deployed.primary \in Secrets
  /\ deployed.previous # Unset => deployed.previous = deployed.primary - 1 /\ deployed.previous \in Secrets
  /\ deployed.until \in Nat \cup {Unset}
  /\ deployed.previous # Unset => deployed.until \in Nat
                                  /\ (deployed.previous \in revoked <=> deployed.until <= hour)
  /\ mistake \in Mistakes /\ (mistake # "none" => deployed.previous # Unset)
  /\ \A s \in revoked : s \in Secrets /\ s < deployed.primary
  /\ scheduler \in {deployed.primary} \cup ({deployed.previous} \ {Unset}) \cup revoked
  /\ lastRun.call.secret \notin lastRun.revoked
  /\ lastRun.call.stamp # Unstamped => lastRun.at <= lastRun.call.stamp + AllowedSkew
  /\ call.stamp \in Int

\* A secret is let in that is the primary, or the one before it until the
\* deadline, and none while the variables contradict one another.
LEMMA Admitted ==
  ASSUME CronInv
  PROVE  /\ mistake = "none" =>
              \A s : Authenticates(s) <=>
                       \/ s = deployed.primary
                       \/ deployed.previous # Unset /\ s = deployed.previous /\ deployed.until > hour
         /\ mistake # "none" => \A s : ~Authenticates(s)
<1>1. CASE mistake = "none"
  <2>1. Environment = deployed
    BY <1>1 DEF Environment
  <2>2. RotationIsConfigured(deployed)
    BY DEF CronInv, RotationIsConfigured, Unset, Malformed, Secrets
  <2> QED BY <1>1, <2>1, <2>2 DEF Authenticates, OverlapActive
<1>2. CASE mistake # "none"
  <2> SUFFICES ~RotationIsConfigured(Environment)
    BY <1>2 DEF Authenticates
  <2>1. deployed.previous # Unset /\ mistake \in Mistakes
    BY <1>2 DEF CronInv
  <2>2. CASE mistake = "blank_primary"
    BY <2>2 DEF Environment, RotationIsConfigured, CronInv
  <2>3. CASE mistake = "duplicate"
    BY <2>3 DEF Environment, RotationIsConfigured, CronInv
  <2>4. CASE mistake = "no_deadline"
    BY <2>1, <2>4 DEF Environment, RotationIsConfigured, CronInv
  <2>5. CASE mistake = "malformed_deadline"
    BY <2>5 DEF Environment, RotationIsConfigured, CronInv
  <2> QED BY <1>2, <2>1, <2>2, <2>3, <2>4, <2>5 DEF Mistakes
<1> QED BY <1>1, <1>2

\* What is known of the rotation bounds it.
LEMMA CronHolds == ASSUME CronInv PROVE RotationIsBounded
<1>1. mistake = "none" => Authenticates(scheduler) \/ scheduler \in revoked
  BY Admitted DEF CronInv, Secrets
<1>2. \A s \in revoked : ~Authenticates(s)
  <2> SUFFICES ASSUME NEW s \in revoked PROVE ~Authenticates(s)
    OBVIOUS
  <2>1. s # deployed.primary
    BY DEF CronInv, Secrets
  <2>2. deployed.previous # Unset /\ s = deployed.previous => ~(deployed.until > hour)
    BY DEF CronInv
  <2> QED BY <2>1, <2>2, Admitted
<1> QED BY <1>1, <1>2, Admitted DEF CronInv, RotationIsBounded

\* Each step of the operators, the scheduler and the clock keeps what is known.
LEMMA CronStep == ASSUME CronInv, CronNext PROVE CronInv'
<1>1. CASE CronTick
  <2>1. /\ hour' = hour + 1 /\ hour \in Nat
        /\ UNCHANGED <<deployed, mistake, scheduler, call, lastRun>>
    BY <1>1 DEF CronTick, CronInv
  <2>2. revoked' = revoked \cup IF deployed.previous # Unset /\ deployed.until <= hour + 1
                                THEN {deployed.previous} ELSE {}
    BY <1>1 DEF CronTick, Expired
  <2>3. \A s \in revoked' : s \in Secrets /\ s < deployed.primary
    BY <2>2 DEF CronInv, Secrets
  <2>4. deployed.previous # Unset => (deployed.previous \in revoked' <=> deployed.until <= hour + 1)
    BY <2>1, <2>2 DEF CronInv
  <2>5. revoked \subseteq revoked'
    BY <2>2
  <2> QED BY <2>1, <2>3, <2>4, <2>5 DEF CronInv
<1>2. CASE DeployRotation
  <2>1. PICK d : d = deployed /\ d.primary \in Secrets /\ d.primary + 1 \in Secrets
                 /\ deployed' = [primary |-> d.primary + 1, previous |-> d.primary, until |-> hour + RotationWindow]
    BY <1>2 DEF DeployRotation, CronInv
  <2>2. \A s \in revoked : s < d.primary
    BY <2>1 DEF CronInv
  <2>3. revoked' = revoked \cup IF RotationWindow = 0 THEN {d.primary} ELSE {}
    BY <1>2, <2>1 DEF DeployRotation
  <2>4. d.primary \in revoked' <=> hour + RotationWindow <= hour
    BY <2>1, <2>2, <2>3, CronAssumption DEF CronInv, Secrets
  <2>5. \A s \in revoked' : s \in Secrets /\ s < d.primary + 1
    BY <2>1, <2>2, <2>3, CronAssumption DEF CronInv, Secrets
  <2>6. /\ scheduler' = d.primary /\ mistake' \in Mistakes
        /\ UNCHANGED <<hour, call, lastRun>>
    BY <1>2, <2>1 DEF DeployRotation, Mistakes
  <2>7. hour + RotationWindow \in Nat /\ d.primary + 1 - 1 = d.primary /\ d.primary # Unset
    BY <2>1, CronAssumption DEF CronInv, Secrets, Unset
  <2>8. /\ deployed'.primary = d.primary + 1 /\ deployed'.previous = d.primary
        /\ deployed'.until = hour + RotationWindow
    BY <2>1
  <2>9. d.primary \in Secrets /\ d.primary + 1 \in Secrets /\ deployed'.previous = deployed'.primary - 1
    BY <2>1, <2>8, CronAssumption DEF Secrets
  <2>10. deployed' = [primary |-> deployed'.primary, previous |-> deployed'.previous, until |-> deployed'.until]
    BY <2>1
  <2>11. deployed'.previous \in revoked' <=> deployed'.until <= hour
    BY <2>4, <2>8
  <2>12. \A s \in revoked' : s \in Secrets /\ s < deployed'.primary
    BY <2>5, <2>8
  <2>13. scheduler' \in {deployed'.primary} \cup ({deployed'.previous} \ {Unset}) \cup revoked'
    BY <2>6, <2>7, <2>8
  <2> QED BY <2>6, <2>7, <2>8, <2>9, <2>10, <2>11, <2>12, <2>13 DEF CronInv
<1>3. CASE CutOver
  BY <1>3 DEF CutOver, CronInv
<1>4. CASE RemovePrevious
  <2>1. PICK until \in {Unset, deployed.until} :
          deployed' = [primary |-> deployed.primary, previous |-> Unset, until |-> until]
    BY <1>4 DEF RemovePrevious, CronInv
  <2>2. /\ deployed.previous # Unset /\ scheduler = deployed.primary /\ mistake' = "none"
        /\ revoked' = revoked \cup {deployed.previous}
        /\ UNCHANGED <<hour, scheduler, call, lastRun>>
    BY <1>4 DEF RemovePrevious
  <2>3. \A s \in revoked' : s \in Secrets /\ s < deployed.primary
    BY <2>2, CronAssumption DEF CronInv, Secrets
  <2> QED BY <2>1, <2>2, <2>3 DEF CronInv, Mistakes
<1>5. CASE ReplaceCompromised
  <2>1. /\ deployed' = [primary |-> deployed.primary + 1, previous |-> Unset, until |-> Unset]
        /\ deployed.primary + 1 \in Secrets /\ mistake' = "none"
        /\ revoked' = revoked \cup ({deployed.primary, deployed.previous} \ {Unset})
        /\ UNCHANGED <<hour, scheduler, call, lastRun>>
    BY <1>5 DEF ReplaceCompromised
  <2>2. deployed.primary \in Secrets /\ deployed.primary # Unset /\ deployed.primary \in Nat
    BY CronAssumption DEF CronInv, Secrets, Unset
  <2>3. \A s \in revoked' : s \in Secrets /\ s < deployed.primary + 1
    BY <2>1, <2>2, CronAssumption DEF CronInv, Secrets
  <2>4. scheduler \in revoked'
    BY <2>1, <2>2 DEF CronInv
  <2> QED BY <2>1, <2>3, <2>4 DEF CronInv, Mistakes
<1>6. CASE CorrectMistake
  BY <1>6 DEF CorrectMistake, CronInv, Mistakes
<1>7. CASE SendCall
  BY <1>7 DEF SendCall, CronInv, Unstamped
<1>8. CASE CallArrives
  <2>1. call.secret \notin revoked
    BY <1>8, CronHolds DEF CallArrives, RotationIsBounded
  <2>2. call.stamp # Unstamped => hour <= call.stamp + AllowedSkew
    BY <1>8, CronAssumption DEF CallArrives, WithinWindow, CronInv
  <2> QED BY <1>8, <2>1, <2>2 DEF CallArrives, CronInv
<1> QED BY <1>1, <1>2, <1>3, <1>4, <1>5, <1>6, <1>7, <1>8 DEF CronNext

\* One secret, and no call.
LEMMA CronStarts == ASSUME CronInit PROVE CronInv
BY CronAssumption DEF CronInit, CronInv, Mistakes, Secrets, Unset, NoCall, Unstamped

(* ------------------------------- the installs ------------------------------ *)

InstallInv ==
  /\ install = [pc |-> install.pc, reviewed |-> install.reviewed, runs |-> install.runs, keep |-> install.keep,
                checks |-> install.checks, drift |-> install.drift, verdict |-> install.verdict]
  /\ \E S : install.runs \in Seq(S)
  /\ install.pc = "reported" =>
       /\ Len(install.runs) = 2
       /\ install.verdict = IF FailedChecks(install.reviewed, install.runs) = {}
                            THEN "reproducible" ELSE "not-reproducible"
       /\ install.keep \/ sandboxes = {}

\* Two graphs without differences are one in what is compared.
LEMMA NoDifferences ==
  ASSUME NEW f, NEW g
  PROVE  /\ Differences(f, g) = {} <=> DOMAIN f = DOMAIN g /\ \A p \in DOMAIN f : f[p] = g[p]
BY DEF Differences

\* What two installs are compared by.
LEMMA NoGraphDifferences ==
  ASSUME NEW r, NEW q
  PROVE  CompareNormalizedGraphs(r, q) = {} <=>
           /\ r.header = q.header /\ DOMAIN r.graph = DOMAIN q.graph
           /\ \A p \in DOMAIN r.graph : r.graph[p] = q.graph[p]
BY NoDifferences DEF CompareNormalizedGraphs

\* What a scan is compared by.
LEMMA NoScanDifferences ==
  ASSUME NEW f, NEW g
  PROVE  CompareInstalledScans(f, g) = {} <=>
           DOMAIN f = DOMAIN g
             /\ \A p \in DOMAIN f : f[p].version = g[p].version /\ f[p].script = g[p].script
<1>1. PICK df, dg : /\ df = [p \in DOMAIN f |-> <<f[p].version, f[p].script>>]
                    /\ dg = [p \in DOMAIN g |-> <<g[p].version, g[p].script>>]
  OBVIOUS
<1>2. CompareInstalledScans(f, g) = Differences(df, dg)
  BY <1>1 DEF CompareInstalledScans
<1>3. DOMAIN df = DOMAIN f /\ DOMAIN dg = DOMAIN g
  BY <1>1
<1>4. \A p \in DOMAIN f \cap DOMAIN g :
        df[p] = dg[p] <=> f[p].version = g[p].version /\ f[p].script = g[p].script
  BY <1>1
<1> QED BY <1>2, <1>3, <1>4, NoDifferences

\* What an install is audited by against the lockfile.
LEMMA NoAuditDifferences ==
  ASSUME NEW reviewed, NEW g
  PROVE  AuditInstalledGraph(reviewed, g) = {} <=>
           DOMAIN Wanted(reviewed) = DOMAIN g
             /\ \A p \in DOMAIN g : /\ Wanted(reviewed)[p].version = g[p].version
                                    /\ Wanted(reviewed)[p].rest = g[p].rest
                                    /\ Wanted(reviewed)[p].script = g[p].script
<1>1. PICK f : f = Wanted(reviewed)
  OBVIOUS
<1>2. PICK df, dg : /\ df = [p \in DOMAIN f |-> <<f[p].version, f[p].rest, f[p].script>>]
                    /\ dg = [p \in DOMAIN g |-> <<g[p].version, g[p].rest, g[p].script>>]
  OBVIOUS
<1>3. AuditInstalledGraph(reviewed, g) = Differences(df, dg)
  BY <1>1, <1>2 DEF AuditInstalledGraph, Wanted
<1>4. DOMAIN df = DOMAIN f /\ DOMAIN dg = DOMAIN g
  BY <1>2
<1>5. \A p \in DOMAIN f \cap DOMAIN g :
        df[p] = dg[p] <=> f[p].version = g[p].version /\ f[p].rest = g[p].rest /\ f[p].script = g[p].script
  BY <1>2
<1> QED BY <1>1, <1>3, <1>4, <1>5, NoDifferences

\* What no failed check says of two installs.
LEMMA NoFailedChecks ==
  ASSUME NEW reviewed, NEW runs, NEW r1, NEW r2, runs = <<r1, r2>>
  PROVE  FailedChecks(reviewed, runs) = {} <=>
           /\ r1.exit = 0 /\ r2.exit = 0 /\ ~r1.mutated /\ ~r2.mutated
           /\ CompareNormalizedGraphs(r1, r2) = {} /\ CompareInstalledScans(r1.disk, r2.disk) = {}
           /\ r1.artifacts = r2.artifacts /\ r1.toolchain = r2.toolchain /\ r1.toolchain # "unknown"
           /\ AuditInstalledGraph(reviewed, r1.graph) = {} /\ AuditPhysicalScan(r1.disk, r1.graph) = {}
<1> DEFINE failing(check, wrong) == IF wrong THEN {check} ELSE {}
           against(other) ==
             failing("normalized-dependency-graph", CompareNormalizedGraphs(runs[1], other) # {})
               \cup failing("node-modules-layout", CompareInstalledScans(runs[1].disk, other.disk) # {})
               \cup failing("generated-artifacts", runs[1].artifacts # other.artifacts)
               \cup failing("toolchain", runs[1].toolchain # other.toolchain)
           audit == failing("installed-graph-matches-reviewed-lockfile",
                            AuditInstalledGraph(reviewed, runs[1].graph) # {})
           scan == failing("disk-layout-matches-hidden-lockfile", AuditPhysicalScan(runs[1].disk, runs[1].graph) # {})
           changed == failing("lockfile-not-mutated-by-install", \E run \in Range(runs) : run.mutated)
           recorded == failing("toolchain-recorded", runs[1].toolchain = "unknown")
<1>1. FailedChecks(reviewed, runs) =
        IF \E run \in Range(runs) : run.exit # 0 THEN {"isolated-installs-succeed"}
        ELSE (UNION {against(run) : run \in Range(Tail(runs))}) \cup audit \cup scan \cup changed \cup recorded
  BY DEF FailedChecks
<1>2. Range(runs) = {r1, r2} /\ Range(Tail(runs)) = {r2} /\ runs[1] = r1
  BY DEF Range
<1>3. UNION {against(run) : run \in Range(Tail(runs))} = against(r2)
  <2> HIDE DEF against
  <2> QED BY <1>2
<1>4. against(r2) = {} <=>
        /\ CompareNormalizedGraphs(r1, r2) = {} /\ CompareInstalledScans(r1.disk, r2.disk) = {}
        /\ r1.artifacts = r2.artifacts /\ r1.toolchain = r2.toolchain
  BY <1>2
<1>5. /\ audit = {} <=> AuditInstalledGraph(reviewed, r1.graph) = {}
      /\ scan = {} <=> AuditPhysicalScan(r1.disk, r1.graph) = {}
      /\ changed = {} <=> ~r1.mutated /\ ~r2.mutated
      /\ recorded = {} <=> r1.toolchain # "unknown"
  BY <1>2
<1>6. (\E run \in Range(runs) : run.exit # 0) <=> ~(r1.exit = 0 /\ r2.exit = 0)
  BY <1>2
<1> HIDE DEF against, audit, scan, changed, recorded
<1> QED BY <1>1, <1>3, <1>4, <1>5, <1>6

\* Each step of the verification keeps what is known.
LEMMA InstallStep == ASSUME InstallInv, InstallNext PROVE InstallInv'
<1>1. PICK i : i = install
  OBVIOUS
<1>2. PICK S : i.runs \in Seq(S)
  BY <1>1 DEF InstallInv
<1>3. i = [pc |-> i.pc, reviewed |-> i.reviewed, runs |-> i.runs, keep |-> i.keep,
           checks |-> i.checks, drift |-> i.drift, verdict |-> i.verdict]
  BY <1>1 DEF InstallInv
<1>4. CASE Stage
  <2>1. \E pc \in {"install", "failed"} : \E reviewed, keep :
          install' = [pc |-> pc, reviewed |-> reviewed, runs |-> i.runs, keep |-> keep,
                      checks |-> i.checks, drift |-> i.drift, verdict |-> i.verdict]
    BY <1>1, <1>3, <1>4 DEF Stage
  <2> QED BY <1>2, <2>1 DEF InstallInv
<1>5. CASE RunIsolatedInstall
  <2>1. i.pc = "install"
        /\ \E result : install' = [i EXCEPT !.runs = Append(@, result)]
    BY <1>1, <1>5 DEF RunIsolatedInstall
  <2>2. PICK result : install' = [i EXCEPT !.runs = Append(@, result)]
    BY <2>1
  <2>3. install' = [pc |-> i.pc, reviewed |-> i.reviewed, runs |-> Append(i.runs, result), keep |-> i.keep,
                    checks |-> i.checks, drift |-> i.drift, verdict |-> i.verdict]
    BY <1>3, <2>2
  <2>4. Append(i.runs, result) \in Seq(S \cup {result})
    BY <1>2
  <2> QED BY <2>1, <2>3, <2>4 DEF InstallInv
<1>6. CASE RunUnreadable
  <2>1. install' = [pc |-> "failed", reviewed |-> i.reviewed, runs |-> i.runs, keep |-> i.keep,
                    checks |-> i.checks, drift |-> i.drift, verdict |-> i.verdict]
    BY <1>1, <1>3, <1>6 DEF RunUnreadable
  <2> QED BY <1>2, <2>1 DEF InstallInv
<1>7. CASE Report
  <2>1. PICK checks, drift : checks = FailedChecks(i.reviewed, i.runs)
                             /\ drift = ScopeFlagDrift(i.reviewed, i.runs[1].graph)
    OBVIOUS
  <2>2. PICK verdict : verdict = IF checks = {} THEN "reproducible" ELSE "not-reproducible"
    OBVIOUS
  <2>3. /\ install' = [pc |-> "reported", reviewed |-> i.reviewed, runs |-> i.runs, keep |-> i.keep,
                       checks |-> checks, drift |-> drift, verdict |-> verdict]
        /\ Len(i.runs) = 2 /\ sandboxes' = IF i.keep THEN sandboxes ELSE {}
    BY <1>1, <1>3, <1>7, <2>1, <2>2 DEF Report, Runs
  <2> QED BY <1>2, <2>1, <2>2, <2>3 DEF InstallInv
<1> QED BY <1>4, <1>5, <1>6, <1>7 DEF InstallNext

\* Nothing is installed at first.
LEMMA InstallStarts == ASSUME InstallInit PROVE InstallInv
<1>1. install = [pc |-> "stage", reviewed |-> "none", runs |-> <<>>, keep |-> FALSE,
                 checks |-> {}, drift |-> {}, verdict |-> "none"]
  BY DEF InstallInit
<1>2. <<>> \in Seq({})
  OBVIOUS
<1> QED BY <1>1, <1>2 DEF InstallInv

\* What is called reproducible is so, and what is so is called that.
LEMMA InstallHolds == ASSUME InstallInv PROVE InstallIsReproduced
<1> SUFFICES ASSUME install.pc = "reported"
             PROVE  InstallIsReproduced
  BY DEF InstallIsReproduced
<1>1. PICK reviewed, wanted, runs :
        reviewed = install.reviewed /\ wanted = Wanted(install.reviewed) /\ runs = install.runs
  OBVIOUS
<1>2. PICK r1, r2 : runs = <<r1, r2>> /\ install.runs[1] = r1
  <2>1. PICK S : runs \in Seq(S)
    BY <1>1 DEF InstallInv
  <2>2. runs = <<runs[1], runs[2]>>
    BY <1>1, <2>1 DEF InstallInv
  <2> QED BY <1>1, <2>2
<1>3. Range(install.runs) = {r1, r2}
  <2>1. Range(<<r1, r2>>) = {r1, r2}
    BY DEF Range
  <2> QED BY <1>1, <1>2, <2>1
<1>4. install.verdict = "reproducible" <=> FailedChecks(reviewed, <<r1, r2>>) = {}
  BY <1>1, <1>2 DEF InstallInv
<1>5. ASSUME FailedChecks(reviewed, <<r1, r2>>) = {}, NEW run \in {r1, r2}
      PROVE  /\ run.exit = 0 /\ ~run.mutated /\ run.artifacts = r1.artifacts /\ run.header = r1.header
             /\ run.toolchain = r1.toolchain /\ run.toolchain # "unknown"
             /\ CompareInstalledScans(wanted, run.disk) = {}
             /\ \A p \in DOMAIN run.graph : run.graph[p].rest = wanted[p].rest
  <2>1. /\ r1.exit = 0 /\ r2.exit = 0 /\ ~r1.mutated /\ ~r2.mutated /\ r1.artifacts = r2.artifacts
        /\ r1.toolchain = r2.toolchain /\ r1.toolchain # "unknown"
        /\ CompareNormalizedGraphs(r1, r2) = {} /\ CompareInstalledScans(r1.disk, r2.disk) = {}
        /\ AuditInstalledGraph(reviewed, r1.graph) = {} /\ AuditPhysicalScan(r1.disk, r1.graph) = {}
    BY <1>5, NoFailedChecks
  <2>2. /\ DOMAIN wanted = DOMAIN r1.graph
        /\ \A p \in DOMAIN r1.graph : wanted[p].version = r1.graph[p].version
                                      /\ wanted[p].rest = r1.graph[p].rest /\ wanted[p].script = r1.graph[p].script
    BY <1>1, <2>1, NoAuditDifferences
  <2>3. /\ DOMAIN r1.graph = DOMAIN r1.disk
        /\ \A p \in DOMAIN r1.graph : r1.graph[p].version = r1.disk[p].version /\ r1.graph[p].script = r1.disk[p].script
    BY <2>1, NoScanDifferences DEF AuditPhysicalScan
  <2>4. /\ DOMAIN r1.disk = DOMAIN r2.disk
        /\ \A p \in DOMAIN r1.disk : r1.disk[p].version = r2.disk[p].version /\ r1.disk[p].script = r2.disk[p].script
    BY <2>1, NoScanDifferences
  <2>5. /\ r1.header = r2.header
        /\ DOMAIN r1.graph = DOMAIN r2.graph /\ \A p \in DOMAIN r1.graph : r1.graph[p] = r2.graph[p]
    BY <2>1, NoGraphDifferences
  <2>6. CompareInstalledScans(wanted, r1.disk) = {}
    BY <2>2, <2>3, NoScanDifferences
  <2>7. CompareInstalledScans(wanted, r2.disk) = {}
    BY <2>2, <2>3, <2>4, NoScanDifferences
  <2>8. \A p \in DOMAIN run.graph : run.graph[p].rest = wanted[p].rest
    BY <2>2, <2>5
  <2> QED BY <2>1, <2>5, <2>6, <2>7, <2>8
<1>6. ASSUME r1 = Faithful(reviewed), r2 = Faithful(reviewed)
      PROVE  FailedChecks(reviewed, <<r1, r2>>) = {}
  <2>1. \A r \in {r1, r2} : r.exit = 0 /\ r.graph = wanted /\ r.disk = wanted /\ r.artifacts = "generated"
                            /\ r.mutated = FALSE /\ r.toolchain = "node"
                            /\ r.header = "reviewed"
    BY <1>1, <1>6 DEF Faithful
  <2>2. CompareInstalledScans(wanted, wanted) = {} /\ CompareNormalizedGraphs(r1, r2) = {}
    BY <2>1, NoScanDifferences, NoGraphDifferences
  <2>3. AuditInstalledGraph(reviewed, wanted) = {}
    BY <1>1, NoAuditDifferences
  <2> QED BY <2>1, <2>2, <2>3, NoFailedChecks DEF AuditPhysicalScan
<1>7. install.keep \/ sandboxes = {}
  BY DEF InstallInv
<1> QED BY <1>1, <1>2, <1>3, <1>4, <1>5, <1>6, <1>7 DEF InstallIsReproduced

(* -------------------------------- the release ------------------------------ *)

\* A file of a generation, and what has become of it since.
SbomOfRelease(f) ==
  /\ f = [present |-> TRUE, body |-> f.body, defect |-> f.defect]
  /\ f.defect \in SbomDefects \cup {"none"}
  /\ \E lock : \E at \in 0 .. MaxGenerations : f.body = Sbom(lock, at)
ProvenanceOfRelease(f) ==
  /\ f = [present |-> TRUE, lock |-> f.lock, sbomDigest |-> f.sbomDigest, facts |-> f.facts,
          defect |-> f.defect]
  /\ f.defect \in ProvenanceDefects \cup {"none"}
  /\ \E lock \in {"l1", "l2"}, at \in 0 .. MaxGenerations :
       /\ f.lock \in {lock, "edited", "none"}
       /\ f.sbomDigest \in {Sbom(lock, at), EditedDigest}
       /\ f.facts \in {at, Edited}

ReleaseInv ==
  /\ checkout = [lock |-> checkout.lock, generation |-> checkout.generation, generating |-> checkout.generating]
  /\ checkout.lock \in {"l1", "l2"} /\ checkout.generation \in 0 .. MaxGenerations
  /\ checkout.generating = NoFile \/ ProvenanceOfRelease(checkout.generating)
  /\ artifacts = [sbom |-> artifacts.sbom, provenance |-> artifacts.provenance]
  /\ artifacts.sbom = NoFile \/ SbomOfRelease(artifacts.sbom)
  /\ artifacts.provenance = NoFile \/ ProvenanceOfRelease(artifacts.provenance)

\* What a generation writes is a release's.
LEMMA Generated ==
  ASSUME NEW lock \in {"l1", "l2"}, NEW at \in 0 .. MaxGenerations
  PROVE  SbomOfRelease(Manifest(lock, at).sbom) /\ ProvenanceOfRelease(Manifest(lock, at).provenance)
<1>1. PICK digest : digest = Sbom(lock, at)
  OBVIOUS
<1>2. /\ Manifest(lock, at).sbom = [present |-> TRUE, body |-> digest, defect |-> "none"]
      /\ Manifest(lock, at).provenance =
           [present |-> TRUE, lock |-> lock, sbomDigest |-> digest, facts |-> at, defect |-> "none"]
  BY <1>1 DEF Manifest
<1>3. SbomOfRelease([present |-> TRUE, body |-> digest, defect |-> "none"])
  BY <1>1 DEF SbomOfRelease
<1>4. ProvenanceOfRelease([present |-> TRUE, lock |-> lock, sbomDigest |-> digest, facts |-> at,
                           defect |-> "none"])
  BY <1>1 DEF ProvenanceOfRelease
<1> QED BY <1>2, <1>3, <1>4

\* An SBOM that is damaged is still what became of a release's.
LEMMA DamagedSbom ==
  ASSUME NEW f, NEW d \in SbomDefects, NEW g, g = [f EXCEPT !.defect = d], SbomOfRelease(f)
  PROVE  SbomOfRelease(g)
<1>1. PICK body, defect : f = [present |-> TRUE, body |-> body, defect |-> defect]
  BY Zenon DEF SbomOfRelease
<1>2. g = [present |-> TRUE, body |-> body, defect |-> d] /\ f.body = body
  BY <1>1
<1> QED BY <1>2 DEF SbomOfRelease

\* And a provenance.
LEMMA DamagedProvenance ==
  ASSUME NEW f, ProvenanceOfRelease(f), NEW g \in Damaged(f)
  PROVE  ProvenanceOfRelease(g)
<1>1. PICK digest, facts, was, l :
        f = [present |-> TRUE, lock |-> l, sbomDigest |-> digest, facts |-> facts, defect |-> was]
  BY Zenon DEF ProvenanceOfRelease
<1>2. PICK lock \in {"l1", "l2"}, at \in 0 .. MaxGenerations :
        /\ f.lock \in {lock, "edited", "none"}
        /\ f.sbomDigest \in {Sbom(lock, at), EditedDigest}
        /\ f.facts \in {at, Edited}
  BY Zenon DEF ProvenanceOfRelease
<1>3. PICK written, edited : written = Sbom(lock, at) /\ edited = EditedDigest
  OBVIOUS
<1>4. was \in ProvenanceDefects \cup {"none"}
  BY <1>1 DEF ProvenanceOfRelease
<1>5. /\ l \in {lock, "edited", "none"} /\ digest \in {written, edited} /\ facts \in {at, Edited}
  BY <1>1, <1>2, <1>3
<1>6. \/ \E d \in ProvenanceDefects : g = [f EXCEPT !.defect = d]
      \/ g = [f EXCEPT !.defect = "no_lockfile", !.lock = "none"]
      \/ g = [f EXCEPT !.lock = "edited"]
      \/ g = [f EXCEPT !.sbomDigest = edited]
      \/ g = [f EXCEPT !.facts = Edited]
  BY <1>3 DEF Damaged
<1>7. PICK digest2, facts2, is, l2 :
        /\ g = [present |-> TRUE, lock |-> l2, sbomDigest |-> digest2, facts |-> facts2, defect |-> is]
        /\ l2 \in {l, "edited", "none"} /\ digest2 \in {digest, edited} /\ facts2 \in {facts, Edited}
        /\ is \in ProvenanceDefects \cup {"none"}
  <2>1. CASE \E d \in ProvenanceDefects : g = [f EXCEPT !.defect = d]
    BY <1>1, <2>1
  <2>2. CASE g = [f EXCEPT !.defect = "no_lockfile", !.lock = "none"]
    BY <1>1, <2>2 DEF ProvenanceDefects
  <2>3. CASE g = [f EXCEPT !.lock = "edited"]
    BY <1>1, <1>4, <2>3
  <2>4. CASE g = [f EXCEPT !.sbomDigest = edited]
    BY <1>1, <1>4, <2>4
  <2>5. CASE g = [f EXCEPT !.facts = Edited]
    BY <1>1, <1>4, <2>5
  <2> QED BY <1>6, <2>1, <2>2, <2>3, <2>4, <2>5
<1>8. l2 \in {lock, "edited", "none"} /\ digest2 \in {written, edited} /\ facts2 \in {at, Edited}
  BY <1>5, <1>7
<1> QED BY <1>3, <1>7, <1>8 DEF ProvenanceOfRelease

\* Each step of a generation, a checkout and a disk keeps what is known.
LEMMA ReleaseStep == ASSUME ReleaseInv, ReleaseNext PROVE ReleaseInv'
<1>1. PICK c, a : c = checkout /\ a = artifacts
  OBVIOUS
<1>2. /\ c = [lock |-> c.lock, generation |-> c.generation, generating |-> c.generating]
      /\ a = [sbom |-> a.sbom, provenance |-> a.provenance]
      /\ c.lock \in {"l1", "l2"} /\ c.generation \in 0 .. MaxGenerations
      /\ c.generating = NoFile \/ ProvenanceOfRelease(c.generating)
      /\ a.sbom = NoFile \/ SbomOfRelease(a.sbom)
      /\ a.provenance = NoFile \/ ProvenanceOfRelease(a.provenance)
  BY <1>1 DEF ReleaseInv
<1>3. CASE WriteSbom
  <2>1. PICK m : m = Manifest(c.lock, c.generation)
    OBVIOUS
  <2>2. /\ c.generation < MaxGenerations
        /\ artifacts' = [sbom |-> m.sbom, provenance |-> a.provenance]
        /\ checkout' = [lock |-> c.lock, generation |-> c.generation + 1, generating |-> m.provenance]
    BY <1>1, <1>2, <1>3, <2>1 DEF WriteSbom
  <2>3. SbomOfRelease(m.sbom) /\ ProvenanceOfRelease(m.provenance)
    BY <1>2, <2>1, Generated
  <2>4. c.generation + 1 \in 0 .. MaxGenerations
    BY <1>2, <2>2, ReleaseAssumption
  <2> QED BY <1>2, <2>2, <2>3, <2>4 DEF ReleaseInv
<1>4. CASE WriteProvenance
  <2>1. /\ artifacts' = [sbom |-> a.sbom, provenance |-> c.generating]
        /\ checkout' = [lock |-> c.lock, generation |-> c.generation, generating |-> NoFile]
    BY <1>1, <1>2, <1>4 DEF WriteProvenance
  <2> QED BY <1>2, <2>1 DEF ReleaseInv
<1>5. CASE GenerateDies
  <2>1. checkout' = [lock |-> c.lock, generation |-> c.generation, generating |-> NoFile] /\ artifacts' = a
    BY <1>1, <1>2, <1>5 DEF GenerateDies
  <2> QED BY <1>2, <2>1 DEF ReleaseInv
<1>6. CASE LockfileChanges
  <2>1. /\ artifacts' = a
        /\ \E lock \in {"l1", "l2"} : checkout' = [lock |-> lock, generation |-> c.generation, generating |-> c.generating]
    BY <1>1, <1>2, <1>6 DEF LockfileChanges
  <2> QED BY <1>2, <2>1 DEF ReleaseInv
<1>7. CASE FileIsDamaged
  <2>1. CASE \E d \in SbomDefects : a.sbom.present /\ artifacts' = [a EXCEPT !.sbom.defect = d]
    <3>1. PICK d \in SbomDefects : a.sbom.present /\ artifacts' = [a EXCEPT !.sbom.defect = d]
      BY <2>1
    <3>2. PICK f : f = [a.sbom EXCEPT !.defect = d]
      OBVIOUS
    <3>3. artifacts' = [sbom |-> f, provenance |-> a.provenance]
      BY <1>2, <3>1, <3>2
    <3>4. SbomOfRelease(f)
      BY <1>2, <3>1, <3>2, DamagedSbom DEF NoFile
    <3> QED BY <1>1, <1>2, <1>7, <3>3, <3>4 DEF ReleaseInv, FileIsDamaged
  <2>2. CASE \E p \in Damaged(a.provenance) :
                a.provenance.present /\ artifacts' = [a EXCEPT !.provenance = p]
    <3>1. PICK p \in Damaged(a.provenance) :
            a.provenance.present /\ artifacts' = [a EXCEPT !.provenance = p]
      BY <2>2
    <3>2. artifacts' = [sbom |-> a.sbom, provenance |-> p]
      BY <1>2, <3>1
    <3>3. ProvenanceOfRelease(a.provenance)
      BY <1>2, <3>1 DEF NoFile
    <3>4. ProvenanceOfRelease(p)
      BY <3>1, <3>3, DamagedProvenance
    <3> QED BY <1>1, <1>2, <1>7, <3>2, <3>4 DEF ReleaseInv, FileIsDamaged
  <2> QED BY <1>1, <1>7, <2>1, <2>2 DEF FileIsDamaged
<1> QED BY <1>3, <1>4, <1>5, <1>6, <1>7 DEF ReleaseNext

\* Nothing is generated at first.
LEMMA ReleaseStarts == ASSUME ReleaseInit PROVE ReleaseInv
BY ReleaseAssumption DEF ReleaseInit, ReleaseInv

\* A provenance whose facts were edited.
LEMMA EditedFacts ==
  ASSUME NEW q, NEW l, NEW d, NEW f, NEW is, NEW e,
         q = [present |-> TRUE, lock |-> l, sbomDigest |-> d, facts |-> f, defect |-> is]
  PROVE  [q EXCEPT !.facts = e] =
           [present |-> TRUE, lock |-> l, sbomDigest |-> d, facts |-> e, defect |-> is]
<1>1. PICK g : g = [q EXCEPT !.facts = e]
  OBVIOUS
<1>2. g = [present |-> TRUE, lock |-> l, sbomDigest |-> d, facts |-> e, defect |-> is]
  BY <1>1
<1> QED BY <1>1, <1>2, Zenon

\* What verifies is of one generation.
LEMMA ReleaseHolds == ASSUME ReleaseInv PROVE ReleaseIsOfOneGeneration
<1> SUFFICES ASSUME ReleaseFailures(artifacts, checkout.lock) = {}
             PROVE  \E at \in 0 .. MaxGenerations :
                      /\ artifacts.sbom = Manifest(checkout.lock, at).sbom
                      /\ artifacts.provenance \in
                           {Manifest(checkout.lock, at).provenance,
                            [Manifest(checkout.lock, at).provenance EXCEPT !.facts = Edited]}
  BY DEF ReleaseIsOfOneGeneration
<1>1. PICK a, s, p, lock : a = artifacts /\ s = a.sbom /\ p = a.provenance /\ lock = checkout.lock
  OBVIOUS
<1>2. /\ s.present /\ p.present
      /\ s.defect \notin SbomDefects \ {"edited"} /\ p.defect \notin ProvenanceDefects
      /\ p.lock = lock /\ p.sbomDigest = DigestOf(s)
  BY <1>1 DEF ReleaseFailures
<1>3. SbomOfRelease(s) /\ ProvenanceOfRelease(p) /\ lock \in {"l1", "l2"}
  BY <1>1, <1>2 DEF ReleaseInv, NoFile
<1>4. s.defect \in {"none", "edited"} /\ p.defect = "none"
  BY <1>2, <1>3 DEF SbomOfRelease, ProvenanceOfRelease
<1>5. PICK at \in 0 .. MaxGenerations : p.sbomDigest \in {Sbom(lock, at), EditedDigest} /\ p.facts \in {at, Edited}
  BY <1>2, <1>3 DEF ProvenanceOfRelease
<1>6. PICK digest : digest = Sbom(lock, at)
  OBVIOUS
<1>7. s.body.at \in 0 .. MaxGenerations
  BY <1>3 DEF SbomOfRelease, Sbom
<1>8. p.sbomDigest.at \in {at, -1}
  BY <1>5 DEF Sbom, EditedDigest, Edited
<1>9. s.defect = "none"
  <2>1. s.defect = "edited" => DigestOf(s).at = -2
    BY DEF DigestOf
  <2> QED BY <1>2, <1>4, <1>5, <1>8, <2>1
<1>10. s.body = digest /\ p.sbomDigest = digest
  <2>1. p.sbomDigest = s.body
    BY <1>2, <1>9 DEF DigestOf
  <2>2. p.sbomDigest # EditedDigest
    BY <1>7, <2>1 DEF EditedDigest, Edited
  <2> QED BY <1>5, <1>6, <2>1, <2>2
<1>11. s = [present |-> TRUE, body |-> digest, defect |-> "none"]
  BY <1>3, <1>9, <1>10 DEF SbomOfRelease
<1>12. p = [present |-> TRUE, lock |-> lock, sbomDigest |-> digest, facts |-> p.facts, defect |-> "none"]
  BY <1>2, <1>3, <1>4, <1>10 DEF ProvenanceOfRelease
<1>13. PICK m : m = Manifest(lock, at)
  OBVIOUS
<1>14. /\ m.sbom = [present |-> TRUE, body |-> digest, defect |-> "none"]
       /\ m.provenance = [present |-> TRUE, lock |-> lock, sbomDigest |-> digest, facts |-> at,
                          defect |-> "none"]
  BY <1>6, <1>13 DEF Manifest
<1>15. p \in {m.provenance, [m.provenance EXCEPT !.facts = Edited]}
  <2>1. [m.provenance EXCEPT !.facts = Edited] =
          [present |-> TRUE, lock |-> lock, sbomDigest |-> digest, facts |-> Edited, defect |-> "none"]
    <3>1. PICK q : q = m.provenance
      OBVIOUS
    <3>2. q = [present |-> TRUE, lock |-> lock, sbomDigest |-> digest, facts |-> at, defect |-> "none"]
      BY <1>14, <3>1
    <3>3. PICK f : f = Edited
      OBVIOUS
    <3>4. [q EXCEPT !.facts = f] =
            [present |-> TRUE, lock |-> lock, sbomDigest |-> digest, facts |-> f, defect |-> "none"]
      BY <3>2, EditedFacts
    <3> QED BY <3>1, <3>3, <3>4, Zenon
  <2>2. CASE p.facts = at
    BY <1>12, <1>14, <2>2
  <2>3. CASE p.facts = Edited
    BY <1>12, <2>1, <2>3
  <2> QED BY <1>5, <2>2, <2>3
<1>16. artifacts.sbom = m.sbom /\ artifacts.provenance \in {m.provenance, [m.provenance EXCEPT !.facts = Edited]}
  BY <1>1, <1>11, <1>14, <1>15
<1>17. m = Manifest(checkout.lock, at)
  BY <1>1, <1>13
<1> QED BY <1>16, <1>17

(* --------------------------------- the drill ------------------------------- *)

Resources(d) == {Network(d), Container(d)}

\* What a start leaves: both when it succeeds; when it fails, is not said to be
\* unclean and could start its commands, what it does not know of.
LEMMA StartLeaves ==
  ASSUME NEW d, NEW r \in StartResults(d)
  PROVE  /\ r.unstarted \in BOOLEAN
         /\ r.error = "none" => r.left \subseteq Resources(d)
         /\ r.error # "none" /\ r.error # "CLEANUP_FAILED" /\ ~r.unstarted => r.left \subseteq r.untold
<1> DEFINE Fails(x) ==
      /\ x.unstarted \in BOOLEAN /\ x.error # "none"
      /\ x.error # "CLEANUP_FAILED" /\ ~x.unstarted => x.left \subseteq x.untold
<1>1. ASSUME NEW created, created \in {{Network(d)}, Resources(d)}, NEW e, e # "none", NEW u \in Undone(d, created, e)
      PROVE  /\ u = [left |-> u.left, error |-> u.error, unstarted |-> u.unstarted, untold |-> {}]
             /\ u.unstarted \in BOOLEAN /\ u.error # "none"
             /\ u.error # "CLEANUP_FAILED" /\ ~u.unstarted => u.left = {}
  <2>1. PICK c \in CommandResults, n \in CommandResults :
          /\ Container(d) \notin created => c = "exit0"
          /\ u = [left |-> created \ (Removed(Container(d), c)
                               \cup (IF c = "unstarted" THEN {} ELSE Removed(Network(d), n))),
                  error |-> CASE "unstarted" \in {c, n} -> "DOCKER_UNAVAILABLE"
                     [] "unstarted" \notin {c, n} /\ "failed" \in {c, n} -> "CLEANUP_FAILED"
                     [] OTHER -> e,
                  unstarted |-> "unstarted" \in {c, n},
                  untold |-> {}]
    BY <1>1 DEF Undone, CommandResults
  <2>2. created \subseteq Resources(d)
    BY <1>1 DEF Resources
  <2>3. CASE "unstarted" \in {c, n}
    BY <2>1, <2>3
  <2>4. CASE "unstarted" \notin {c, n} /\ "failed" \in {c, n}
    BY <2>1, <2>4
  <2>5. CASE "unstarted" \notin {c, n} /\ "failed" \notin {c, n}
    <3>1. c = "exit0" /\ n = "exit0"
      BY <2>5 DEF CommandResults
    <3>2. u.left = {} /\ u.error = e
      BY <2>1, <2>2, <2>5, <3>1 DEF Removed, Resources
    <3> QED BY <1>1, <2>1, <2>5, <3>2
  <2> QED BY <2>3, <2>4, <2>5
<1>2. ASSUME NEW created, created \in {{Network(d)}, Resources(d)}, NEW e, e # "none", NEW u \in Undone(d, created, e)
      PROVE  Fails(u)
  BY <1>1, <1>2
<1>3. ASSUME NEW u \in Undone(d, {Network(d)}, "CONTAINER_START_FAILED")
      PROVE  Fails([u EXCEPT !.left = @ \cup {Container(d)}, !.untold = {Container(d)}])
  <2>1. /\ u = [left |-> u.left, error |-> u.error, unstarted |-> u.unstarted, untold |-> {}]
        /\ u.unstarted \in BOOLEAN /\ u.error # "none"
        /\ u.error # "CLEANUP_FAILED" /\ ~u.unstarted => u.left = {}
    BY <1>1, <1>3
  <2>2. PICK left, error, unstarted : u = [left |-> left, error |-> error, unstarted |-> unstarted, untold |-> {}]
    BY <2>1, Zenon
  <2>3. PICK x : x = [u EXCEPT !.left = @ \cup {Container(d)}, !.untold = {Container(d)}]
    OBVIOUS
  <2>4. x = [left |-> left \cup {Container(d)}, error |-> error, unstarted |-> unstarted, untold |-> {Container(d)}]
    BY <2>2, <2>3
  <2>5. Fails(x)
    BY <2>1, <2>2, <2>4
  <2> QED BY <2>3, <2>5
<1>4. CASE r = [left |-> {Network(d), Container(d)}, error |-> "none", unstarted |-> FALSE, untold |-> {}]
  BY <1>4 DEF Resources
<1>5. CASE r = [left |-> {}, error |-> "DOCKER_UNAVAILABLE", unstarted |-> FALSE, untold |-> {}]
  BY <1>5
<1>6. CASE \E e \in {"DOCKER_UNAVAILABLE", "CONTAINER_START_FAILED"} : r \in Undone(d, {Network(d)}, e)
  BY <1>2, <1>6
<1>7. CASE \E u \in Undone(d, {Network(d)}, "CONTAINER_START_FAILED") :
             r = [u EXCEPT !.left = @ \cup {Container(d)}, !.untold = {Container(d)}]
  BY <1>3, <1>7
<1>8. CASE \E e \in {"DOCKER_UNAVAILABLE", "CONTAINER_START_FAILED", "DATABASE_NOT_READY"} :
             r \in Undone(d, {Network(d), Container(d)}, e)
  BY <1>2, <1>8 DEF Resources
<1> QED
  <2> HIDE DEF Fails
  <2> QED BY <1>4, <1>5, <1>6, <1>7, <1>8 DEF StartResults

\* What a stop leaves: nothing when it says that it cleaned.
LEMMA StopLeaves ==
  ASSUME NEW d, NEW r \in StopResults(d)
  PROVE  /\ r.left \subseteq Resources(d)
         /\ r.ended \in {"thrown", "cleaned", "not_cleaned"}
         /\ r.ended = "cleaned" => r.left = {}
<1> DEFINE after(c, n) ==
        [left |-> {Container(d), Network(d)}
                    \ (Removed(Container(d), c)
                         \cup (IF c = "unstarted" THEN {} ELSE Removed(Network(d), n))),
         ended |-> IF "unstarted" \in {c, n} THEN "thrown"
                   ELSE IF {c, n} = {"exit0"} THEN "cleaned" ELSE "not_cleaned"]
<1> DEFINE noted(u, ends) == IF u.ended = "cleaned" /\ ~ends THEN [u EXCEPT !.ended = "not_cleaned"] ELSE u
<1>0. StopResults(d) = {noted(after(c, n), ends) : c, n \in CommandResults, ends \in BOOLEAN}
  BY DEF StopResults
<1>1. PICK c \in CommandResults, n \in CommandResults, ends \in BOOLEAN : r = noted(after(c, n), ends)
  <2> HIDE DEF noted, after
  <2> QED BY <1>0
<1>2. PICK u : u = after(c, n)
  OBVIOUS
<1>3. /\ u = [left |-> u.left, ended |-> u.ended]
      /\ u.left \subseteq Resources(d)
      /\ u.ended \in {"thrown", "cleaned", "not_cleaned"}
      /\ u.ended = "cleaned" => u.left = {}
  BY <1>2 DEF Resources, Removed
<1>4. PICK left, ended : u = [left |-> left, ended |-> ended]
  BY <1>3, Zenon
<1>5. r = IF u.ended = "cleaned" /\ ~ends THEN [u EXCEPT !.ended = "not_cleaned"] ELSE u
  BY <1>1, <1>2, Zenon
<1> HIDE DEF noted, after
<1>6. CASE u.ended = "cleaned" /\ ~ends
  <2>1. r = [left |-> left, ended |-> "not_cleaned"]
    BY <1>4, <1>5, <1>6
  <2> QED BY <1>3, <1>4, <2>1
<1>7. CASE ~(u.ended = "cleaned" /\ ~ends)
  <2>1. r = u
    BY <1>5, <1>7
  <2> QED BY <1>3, <2>1
<1> QED BY <1>6, <1>7

DrillFields == {"pc", "target", "preflight", "selfTest", "verdict", "error", "targetCleaned", "sourceCleaned",
                "source", "temp", "failure", "restored", "met", "unstarted", "untold", "report"}

AtTarget == {"verify_target", "stop_target"}
AtCorrupted == {"verify_corrupted", "stop_corrupted"}
BeforeCommands == {"preflight", "start"}
Restored == {"corrupted", "verify_corrupted", "report"}
Ending == {"finally", "print", "ended"}

\* The networks and containers the script knows to be there.
Mine ==
  (IF drill.source THEN Resources("source") ELSE {})
    \cup (IF drill.pc \in AtTarget THEN Resources("target") ELSE {})
    \cup (IF drill.pc \in AtCorrupted THEN Resources("corrupted") ELSE {})

\* Until something goes wrong, nothing else is there.
DrillWorks ==
  drill.pc \notin Ending =>
    /\ docker \subseteq Mine
    /\ drill.verdict = "ok"
    /\ drill.pc \notin {"stop_target", "stop_corrupted"} => drill.failure = "none"
    /\ drill.pc \in BeforeCommands => ~drill.source
    /\ drill.pc \in Restored => drill.restored = {"target"}
    /\ drill.pc \notin Restored \cup {"stop_target", "stop_corrupted"} => drill.restored = {}
    /\ drill.pc = "stop_target" /\ drill.failure = "none" => drill.restored = {"target"}
    /\ drill.pc = "stop_corrupted" /\ drill.failure = "RESTORE_FAILED" => drill.restored = {"target"}

\* What the end of the script may rely on.
DrillEnds ==
  /\ drill.pc = "finally" /\ drill.error = "none" =>
       drill.restored = {"target"} /\ drill.met /\ docker \subseteq Mine
  /\ drill.pc = "finally" /\ drill.targetCleaned /\ ~drill.unstarted => docker \subseteq drill.untold \cup Mine
  /\ drill.pc = "print" /\ drill.error = "none" /\ drill.sourceCleaned =>
       drill.restored = {"target"} /\ drill.met /\ docker = {} /\ ~drill.temp
  /\ drill.pc = "print" /\ drill.targetCleaned /\ drill.sourceCleaned /\ ~drill.unstarted =>
       docker \subseteq drill.untold /\ ~drill.temp

\* A target that is refused has had no command run on it.
DrillRefuses ==
  drill.verdict # "ok" =>
    /\ drill.pc \in Ending /\ docker = {} /\ drill.restored = {} /\ ~drill.source
    /\ drill.error # "none" /\ drill.report # "ok"

DrillAgrees ==
  /\ drill.pc = "preflight" => drill.preflight = "not_run"
  /\ drill.preflight = "ok" =>
       Found(TargetChecks, drill.target) = {} /\ drill.verdict \in {"ok", "INVALID_INPUT"}

DrillInv ==
  /\ DOMAIN drill = DrillFields
  /\ drill.pc # "ended" => drill.report = "none"
  /\ DrillWorks /\ DrillEnds /\ DrillRefuses /\ DrillAgrees /\ DrillReportsAreTrue

\* An input that fails a check is told the code of one, and another is told
\* that it is in order.
LEMMA Verdicts ==
  ASSUME NEW checks, NEW n \in Nat, DOMAIN checks = 1 .. n, NEW codes,
         \A i \in 1 .. n : checks[i][2] \in codes, NEW defects
  PROVE  /\ Found(checks, defects) = {} => FirstFailure(checks, defects) = "ok"
         /\ Found(checks, defects) # {} => FirstFailure(checks, defects) \in codes
<1>1. CASE Found(checks, defects) # {}
  <2>1. Min(Found(checks, defects)) \in 1 .. n
    BY <1>1, FirstFound DEF Found
  <2> QED BY <1>1, <2>1 DEF FirstFailure
<1> QED BY <1>1 DEF FirstFailure

\* The same of the checks of a drill's target and of its arguments.
LEMMA DrillVerdicts ==
  ASSUME NEW defects
  PROVE  /\ (FirstFailure(TargetChecks, defects) = "ok") <=> (Found(TargetChecks, defects) = {})
         /\ FirstFailure(TargetChecks, defects) # "none"
         /\ FirstFailure(ArgumentChecks, defects) \in {"ok", "INVALID_INPUT"}
<1> DEFINE codes == {"TARGET_IDENTITY_MISSING", "TARGET_IDENTITY_PRODUCTION", "TARGET_IDENTITY_NOT_APPROVED",
                     "TARGET_URL_INVALID", "TARGET_URL_PRODUCTION", "TARGET_HOST_NOT_ISOLATED",
                     "TARGET_DATABASE_PRODUCTION", "DATABASE_STAMP_PRODUCTION", "DATABASE_STAMP_MISMATCH"}
<1>1. DOMAIN TargetChecks = 1 .. 10 /\ \A i \in 1 .. 10 : TargetChecks[i][2] \in codes
  BY DEF TargetChecks
<1>2. DOMAIN ArgumentChecks = 1 .. 4 /\ \A i \in 1 .. 4 : ArgumentChecks[i][2] \in {"INVALID_INPUT"}
  BY DEF ArgumentChecks
<1>3. /\ Found(TargetChecks, defects) = {} => FirstFailure(TargetChecks, defects) = "ok"
      /\ Found(TargetChecks, defects) # {} => FirstFailure(TargetChecks, defects) \in codes
  <2> HIDE DEF codes
  <2> QED BY <1>1, Verdicts
<1>4. /\ Found(ArgumentChecks, defects) = {} => FirstFailure(ArgumentChecks, defects) = "ok"
      /\ Found(ArgumentChecks, defects) # {} => FirstFailure(ArgumentChecks, defects) \in {"INVALID_INPUT"}
  BY <1>2, Verdicts
<1> QED BY <1>3, <1>4

\* What a drill knows of itself when it begins.
LEMMA DrillStarts == ASSUME DrillInit PROVE DrillInv
BY DEF DrillInit, DrillInv, DrillFields, DrillWorks, DrillEnds, DrillRefuses, DrillAgrees, DrillReportsAreTrue,
       Mine, AtTarget, AtCorrupted, BeforeCommands, Restored, Ending

\* Two databases share neither a network nor a container.
LEMMA OwnResources ==
  ASSUME NEW d, NEW e, d # e
  PROVE  Resources(d) \cap Resources(e) = {}
BY DEF Resources, Network, Container

\* A step that leaves the drill with something still to do.
LEMMA DrillGoesOn ==
  DOMAIN drill' = DrillFields /\ drill'.pc \notin Ending /\ drill'.report = "none" /\ drill'.verdict = "ok"
  /\ DrillWorks' /\ DrillAgrees'
  => DrillInv'
<1> SUFFICES ASSUME DOMAIN drill' = DrillFields, drill'.pc \notin Ending, drill'.report = "none",
                    drill'.verdict = "ok", DrillWorks', DrillAgrees'
             PROVE  DrillInv'
  OBVIOUS
<1>1. drill'.pc \notin {"finally", "print", "ended"}
  BY DEF Ending
<1>2. DrillEnds' /\ DrillRefuses' /\ DrillReportsAreTrue'
  BY <1>1 DEF DrillEnds, DrillRefuses, DrillReportsAreTrue
<1> QED BY <1>2 DEF DrillInv

\* A step that fails, on a target that was not refused.
LEMMA DrillBreaksOff ==
  DOMAIN drill' = DrillFields /\ drill'.pc = "finally" /\ drill'.report = "none" /\ drill'.verdict = "ok"
  /\ drill'.error # "none" /\ DrillAgrees'
  /\ (drill'.targetCleaned /\ ~drill'.unstarted => docker' \subseteq drill'.untold \cup Mine')
  => DrillInv'
<1> SUFFICES ASSUME DOMAIN drill' = DrillFields, drill'.pc = "finally", drill'.report = "none", drill'.verdict = "ok",
                    drill'.error # "none", DrillAgrees',
                    drill'.targetCleaned /\ ~drill'.unstarted => docker' \subseteq drill'.untold \cup Mine'
             PROVE  DrillInv'
  OBVIOUS
<1>1. DrillWorks' /\ DrillEnds'
  BY DEF DrillWorks, DrillEnds, Ending
<1>2. DrillRefuses' /\ DrillReportsAreTrue'
  BY DEF DrillRefuses, DrillReportsAreTrue
<1> QED BY <1>1, <1>2 DEF DrillInv

\* Before anything runs: the preflight, the arguments and the target.
LEMMA DrillBegins == ASSUME DrillInv, Preflight \/ Begin PROVE DrillInv'
<1> USE DEF DrillFields, AtTarget, AtCorrupted, BeforeCommands, Restored, Ending
<1>1. CASE Preflight
  <2>1. PICK target, fallback :
          /\ drill.pc = "preflight"
          /\ drill' = [Goto("start") EXCEPT !.target = target, !.preflight = PreflightVerdict(target, fallback)]
          /\ docker' = docker
    BY <1>1 DEF Preflight
  <2>2. PICK p : p = PreflightVerdict(target, fallback)
    OBVIOUS
  <2>3. p = "ok" => Found(TargetChecks, target) = {}
    <3>1. PICK defects : defects = target \cup (IF target \cap UrlDefects = {} THEN fallback ELSE {})
      OBVIOUS
    <3>2. p = FirstFailure(TargetChecks, defects)
      BY <2>2, <3>1 DEF PreflightVerdict
    <3>3. p = "ok" => Found(TargetChecks, defects) = {}
      BY <3>2, DrillVerdicts
    <3>4. Found(TargetChecks, defects) = {} => Found(TargetChecks, target) = {}
      BY <3>1 DEF Found
    <3> QED BY <3>3, <3>4
  <2>4. drill' = [[drill EXCEPT !.pc = "start"] EXCEPT !.target = target, !.preflight = p]
    BY <2>1, <2>2 DEF Goto
  <2>5. DOMAIN drill = DrillFields /\ DOMAIN drill' = DrillFields
    BY <2>4 DEF DrillInv
  <2>6. /\ drill'.pc = "start" /\ drill'.target = target /\ drill'.preflight = p
        /\ drill'.source = drill.source /\ drill'.verdict = drill.verdict /\ drill'.failure = drill.failure
        /\ drill'.restored = drill.restored /\ drill'.report = drill.report
    BY <2>4, <2>5
  <2>7. DrillWorks'
    BY <2>1, <2>6 DEF DrillInv, DrillWorks, Mine
  <2>8. drill'.verdict = "ok" /\ drill'.report = "none"
    BY <2>1, <2>6 DEF DrillInv, DrillWorks
  <2>9. DrillAgrees'
    BY <2>3, <2>6, <2>8 DEF DrillAgrees
  <2> QED BY <2>5, <2>6, <2>7, <2>8, <2>9, DrillGoesOn
<1>2. CASE Begin
  <2>1. PICK selfTest \in BOOLEAN, arguments \in WithADefect(ArgumentChecks) :
          LET parsed == FirstFailure(ArgumentChecks, arguments)
              verdict == IF parsed # "ok" THEN parsed ELSE TargetVerdict(drill.target, selfTest)
              asked == [drill EXCEPT !.selfTest = selfTest, !.verdict = verdict]
          IN  /\ drill.pc = "start"
              /\ drill' = IF verdict # "ok" THEN Caught(asked, verdict)
                          ELSE [asked EXCEPT !.pc = IF selfTest THEN "source" ELSE "stat"]
              /\ docker' = docker
    BY <1>2 DEF Begin
  <2>2. PICK parsed : parsed = FirstFailure(ArgumentChecks, arguments)
    OBVIOUS
  <2>3. PICK verdict : verdict = IF parsed # "ok" THEN parsed ELSE TargetVerdict(drill.target, selfTest)
    OBVIOUS
  <2>4. verdict # "none" /\ (Found(TargetChecks, drill.target) = {} => verdict \in {"ok", "INVALID_INPUT"})
    BY <2>2, <2>3, DrillVerdicts DEF TargetVerdict, Found
  <2>5. PICK asked : asked = [drill EXCEPT !.selfTest = selfTest, !.verdict = verdict]
    OBVIOUS
  <2>6. /\ drill.pc = "start" /\ docker' = docker
        /\ drill' = IF verdict # "ok" THEN Caught(asked, verdict)
                    ELSE [asked EXCEPT !.pc = IF selfTest THEN "source" ELSE "stat"]
    BY <2>1, <2>2, <2>3, <2>5, Zenon
  <2>7. docker = {} /\ ~drill.source /\ drill.restored = {} /\ drill.report = "none" /\ drill.failure = "none"
    BY <2>6 DEF DrillInv, DrillWorks, Mine
  <2>8. /\ DOMAIN drill = DrillFields /\ DOMAIN asked = DrillFields
        /\ asked.verdict = verdict /\ asked.source = drill.source /\ asked.failure = drill.failure
        /\ asked.restored = drill.restored /\ asked.report = drill.report
        /\ asked.preflight = drill.preflight /\ asked.target = drill.target
    BY <2>5 DEF DrillInv
  <2>9. drill.preflight = "ok" => Found(TargetChecks, drill.target) = {} /\ verdict \in {"ok", "INVALID_INPUT"}
    BY <2>4 DEF DrillInv, DrillAgrees
  <2>10. CASE verdict = "ok"
    <3>1. drill' = [asked EXCEPT !.pc = IF selfTest THEN "source" ELSE "stat"]
      BY <2>6, <2>10
    <3>2. /\ DOMAIN drill' = DrillFields /\ drill'.pc \in {"source", "stat"}
          /\ drill'.verdict = "ok" /\ drill'.source = drill.source /\ drill'.failure = "none"
          /\ drill'.restored = {} /\ drill'.report = "none"
          /\ drill'.preflight = drill.preflight /\ drill'.target = drill.target
      BY <2>7, <2>8, <2>10, <3>1
    <3>3. DrillWorks'
      BY <2>6, <2>7, <3>2 DEF DrillWorks, Mine
    <3>4. DrillAgrees'
      BY <2>9, <3>2 DEF DrillAgrees
    <3> QED BY <3>2, <3>3, <3>4, DrillGoesOn
  <2>11. CASE verdict # "ok"
    <3>1. drill' = [asked EXCEPT !.pc = "finally", !.error = verdict, !.targetCleaned = @ /\ verdict # "CLEANUP_FAILED"]
      BY <2>6, <2>11 DEF Caught
    <3>2. /\ DOMAIN drill' = DrillFields /\ drill'.pc = "finally" /\ drill'.error = verdict
          /\ drill'.verdict = verdict /\ ~drill'.source /\ drill'.restored = {} /\ drill'.report = "none"
          /\ drill'.preflight = drill.preflight /\ drill'.target = drill.target
      BY <2>7, <2>8, <3>1
    <3>3. DrillWorks' /\ DrillEnds'
      BY <2>4, <2>6, <2>7, <3>2 DEF DrillWorks, DrillEnds
    <3>4. DrillAgrees'
      BY <2>9, <3>2 DEF DrillAgrees
    <3>5. DrillRefuses' /\ DrillReportsAreTrue'
      BY <2>4, <2>6, <2>7, <2>9, <3>2 DEF DrillRefuses, DrillReportsAreTrue
    <3> QED BY <3>2, <3>3, <3>4, <3>5 DEF DrillInv
  <2> QED BY <2>10, <2>11
<1> QED BY <1>1, <1>2

\* A failure that leaves no container behind.
LEMMA DrillFails ==
  ASSUME DrillInv, drill.pc \notin Ending \cup BeforeCommands, drill.pc \notin AtTarget \cup AtCorrupted,
         NEW error, error # "none", drill' = Caught(drill, error), docker' = docker
  PROVE  DrillInv'
<1> USE DEF DrillFields, AtTarget, AtCorrupted, BeforeCommands, Restored, Ending
<1>1. drill' = [drill EXCEPT !.pc = "finally", !.error = error, !.targetCleaned = @ /\ error # "CLEANUP_FAILED"]
  BY DEF Caught
<1>2. DOMAIN drill = DrillFields /\ DOMAIN drill' = DrillFields
  BY <1>1 DEF DrillInv
<1>3. /\ drill'.pc = "finally" /\ drill'.error = error /\ drill'.source = drill.source
      /\ drill'.verdict = drill.verdict /\ drill'.report = drill.report
      /\ drill'.preflight = drill.preflight /\ drill'.target = drill.target
  BY <1>1, <1>2
<1>4. drill.verdict = "ok" /\ drill.report = "none" /\ DrillAgrees /\ docker \subseteq Mine
  BY DEF DrillInv, DrillWorks
<1>5. docker' \subseteq Mine'
  BY <1>3, <1>4 DEF Mine
<1>6. DrillAgrees'
  BY <1>3, <1>4 DEF DrillAgrees
<1> QED BY <1>2, <1>3, <1>4, <1>5, <1>6, DrillBreaksOff

\* A database that is started, or is not.
LEMMA DrillStartsOne ==
  ASSUME DrillInv, NEW d, NEW next,
         <<d, next>> \in {<<"source", "prepare">>, <<"target", "verify_target">>, <<"corrupted", "verify_corrupted">>},
         Start(d, next)
  PROVE  DrillInv'
<1> USE DEF DrillFields, AtTarget, AtCorrupted, BeforeCommands, Restored, Ending
<1>1. PICK r \in StartResults(d) :
        LET started == [drill EXCEPT !.unstarted = @ \/ r.unstarted, !.untold = @ \cup r.untold,
                                     !.temp = drill.selfTest]
        IN  /\ drill.pc = d
            /\ docker' = docker \cup r.left
            /\ drill' = IF r.error # "none" THEN Caught(started, r.error)
                        ELSE [started EXCEPT !.pc = next, !.source = @ \/ d = "source"]
  BY DEF Start
<1>2. PICK started : started = [drill EXCEPT !.unstarted = @ \/ r.unstarted, !.untold = @ \cup r.untold,
                                             !.temp = drill.selfTest]
  OBVIOUS
<1>3. /\ drill.pc = d /\ docker' = docker \cup r.left
      /\ drill' = IF r.error # "none" THEN Caught(started, r.error)
                  ELSE [started EXCEPT !.pc = next, !.source = @ \/ d = "source"]
  BY <1>1, <1>2, Zenon
<1>4. /\ r.unstarted \in BOOLEAN
      /\ r.error = "none" => r.left \subseteq Resources(d)
      /\ r.error # "none" /\ r.error # "CLEANUP_FAILED" /\ ~r.unstarted => r.left \subseteq r.untold
  BY <1>1, StartLeaves
<1>5. CASE r.error = "none"
  <2>1. drill' = [started EXCEPT !.pc = next, !.source = @ \/ d = "source"]
    BY <1>3, <1>5
  <2>2. DOMAIN drill = DrillFields /\ DOMAIN drill' = DrillFields
    BY <1>2, <2>1 DEF DrillInv
  <2>3. /\ drill'.pc = next /\ (drill'.source <=> drill.source \/ d = "source")
        /\ drill'.verdict = drill.verdict /\ drill'.failure = drill.failure /\ drill'.restored = drill.restored
        /\ drill'.report = drill.report /\ drill'.preflight = drill.preflight /\ drill'.target = drill.target
    BY <1>2, <2>1, <2>2
  <2>4. docker' \subseteq Mine'
    <3>1. docker \subseteq Mine /\ docker' \subseteq docker \cup Resources(d)
      BY <1>3, <1>4, <1>5 DEF DrillInv, DrillWorks
    <3>2. docker \subseteq IF drill.source THEN Resources("source") ELSE {}
      BY <1>3, <3>1 DEF Mine
    <3>3. CASE d = "source"
      BY <2>3, <3>1, <3>2, <3>3 DEF Mine
    <3>4. CASE d = "target" /\ next = "verify_target"
      BY <2>3, <3>1, <3>2, <3>4 DEF Mine
    <3>5. CASE d = "corrupted" /\ next = "verify_corrupted"
      BY <2>3, <3>1, <3>2, <3>5 DEF Mine
    <3> QED BY <3>3, <3>4, <3>5
  <2>5. next \in {"prepare", "verify_target", "verify_corrupted"} /\ (next = "verify_corrupted" <=> d = "corrupted")
    OBVIOUS
  <2>6. DrillWorks'
    BY <1>3, <2>3, <2>4, <2>5 DEF DrillInv, DrillWorks
  <2>7. drill.verdict = "ok" /\ drill.report = "none" /\ DrillAgrees
    BY <1>3 DEF DrillInv, DrillWorks
  <2>8. DrillAgrees'
    BY <2>3, <2>5, <2>7 DEF DrillAgrees
  <2> QED BY <2>2, <2>3, <2>5, <2>6, <2>7, <2>8, DrillGoesOn
<1>6. CASE r.error # "none"
  <2>1. drill' = [started EXCEPT !.pc = "finally", !.error = r.error, !.targetCleaned = @ /\ r.error # "CLEANUP_FAILED"]
    BY <1>3, <1>6 DEF Caught
  <2>2. DOMAIN drill = DrillFields /\ DOMAIN drill' = DrillFields
    BY <1>2, <2>1 DEF DrillInv
  <2>3. /\ drill'.pc = "finally" /\ drill'.error = r.error /\ drill'.source = drill.source
        /\ drill'.verdict = drill.verdict /\ drill'.report = drill.report
        /\ drill'.preflight = drill.preflight /\ drill'.target = drill.target
        /\ (drill'.targetCleaned => r.error # "CLEANUP_FAILED") /\ (~drill'.unstarted => ~r.unstarted)
        /\ drill'.untold = drill.untold \cup r.untold
    BY <1>2, <1>4, <2>1, <2>2
  <2>4. drill'.targetCleaned /\ ~drill'.unstarted => docker' \subseteq drill'.untold \cup Mine'
    <3>1. docker \subseteq Mine
      BY <1>3 DEF DrillInv, DrillWorks
    <3>2. docker \subseteq IF drill.source THEN Resources("source") ELSE {}
      BY <1>3, <3>1 DEF Mine
    <3>3. docker \subseteq Mine'
      BY <2>3, <3>2 DEF Mine
    <3> QED BY <1>3, <1>4, <1>6, <2>3, <3>3
  <2>5. drill.verdict = "ok" /\ drill.report = "none" /\ DrillAgrees
    BY <1>3 DEF DrillInv, DrillWorks
  <2>6. DrillAgrees'
    BY <2>3, <2>5 DEF DrillAgrees
  <2> QED BY <1>6, <2>2, <2>3, <2>4, <2>5, <2>6, DrillBreaksOff
<1> QED BY <1>5, <1>6

\* A database that is checked.
LEMMA DrillVerifies ==
  ASSUME DrillInv, NEW d \in {"target", "corrupted"}, VerifyRestored(d)
  PROVE  DrillInv'
<1> USE DEF DrillFields, AtTarget, AtCorrupted, BeforeCommands, Restored, Ending
<1>1. PICK stopping : stopping = Stopping[d]
  OBVIOUS
<1>2. /\ drill.pc = Verifying[d] /\ docker' = docker
      /\ \/ drill' = [[drill EXCEPT !.pc = stopping] EXCEPT !.restored = @ \cup {d}]
         \/ \E e : e # "none" /\ drill' = [[drill EXCEPT !.pc = stopping] EXCEPT !.failure = e]
  BY <1>1 DEF VerifyRestored, Goto
<1>3. \/ d = "target" /\ drill.pc = "verify_target" /\ stopping = "stop_target"
      \/ d = "corrupted" /\ drill.pc = "verify_corrupted" /\ stopping = "stop_corrupted"
  <2>1. CASE d = "target"
    BY <1>1, <1>2, <2>1 DEF Verifying, Stopping
  <2>2. CASE d = "corrupted"
    BY <1>1, <1>2, <2>2 DEF Verifying, Stopping
  <2> QED BY <2>1, <2>2
<1>4. DOMAIN drill = DrillFields /\ DOMAIN drill' = DrillFields
  BY <1>2 DEF DrillInv
<1>5. /\ drill'.pc = stopping /\ drill'.source = drill.source
      /\ drill'.verdict = drill.verdict /\ drill'.report = drill.report
      /\ drill'.preflight = drill.preflight /\ drill'.target = drill.target
      /\ \/ drill'.restored = drill.restored \cup {d} /\ drill'.failure = drill.failure
         \/ drill'.restored = drill.restored /\ drill'.failure # "none"
  BY <1>2, <1>4
<1>6. /\ docker \subseteq Mine /\ drill.verdict = "ok" /\ drill.failure = "none"
      /\ drill.report = "none" /\ DrillAgrees
      /\ d = "target" => drill.restored = {}
      /\ d = "corrupted" => drill.restored = {"target"}
  BY <1>3 DEF DrillInv, DrillWorks
<1>7. docker' \subseteq Mine'
  BY <1>2, <1>3, <1>5, <1>6 DEF Mine
<1>8. /\ d = "target" /\ drill'.failure = "none" => drill'.restored = {"target"}
      /\ d = "corrupted" /\ drill'.failure = "RESTORE_FAILED" => drill'.restored = {"target"}
  BY <1>5, <1>6
<1>9. DrillWorks'
  BY <1>3, <1>5, <1>6, <1>7, <1>8 DEF DrillWorks
<1>10. DrillAgrees'
  BY <1>3, <1>5, <1>6 DEF DrillAgrees
<1> QED BY <1>3, <1>4, <1>5, <1>6, <1>9, <1>10, DrillGoesOn

\* A database that is stopped, or is not.
LEMMA DrillStops ==
  ASSUME DrillInv, NEW d \in {"target", "corrupted"}, StopTarget(d)
  PROVE  DrillInv'
<1> USE DEF DrillFields, AtTarget, AtCorrupted, BeforeCommands, Restored, Ending
<1>1. PICK r \in StopResults(d) :
        LET outcome == CASE r.ended = "thrown" -> "DOCKER_UNAVAILABLE"
                         [] r.ended = "not_cleaned" -> "CLEANUP_FAILED"
                         [] OTHER -> drill.failure
            wanted == IF d = "target" THEN "none" ELSE "RESTORE_FAILED"
            ended == [drill EXCEPT !.unstarted = @ \/ r.ended = "thrown", !.failure = "none"]
        IN  /\ drill.pc = Stopping[d]
            /\ docker' = (docker \ {Container(d), Network(d)}) \cup r.left
            /\ drill' =
                 IF outcome = wanted
                 THEN [ended EXCEPT !.pc = IF d = "target" /\ drill.selfTest THEN "corrupted" ELSE "report"]
                 ELSE Caught(ended, IF outcome = "none" THEN "DRILL_FAILED" ELSE outcome)
  BY DEF StopTarget
<1>2. PICK outcome : outcome = CASE r.ended = "thrown" -> "DOCKER_UNAVAILABLE"
                                 [] r.ended = "not_cleaned" -> "CLEANUP_FAILED"
                                 [] OTHER -> drill.failure
  OBVIOUS
<1>3. PICK wanted : wanted = IF d = "target" THEN "none" ELSE "RESTORE_FAILED"
  OBVIOUS
<1>4. PICK ended : ended = [drill EXCEPT !.unstarted = @ \/ r.ended = "thrown", !.failure = "none"]
  OBVIOUS
<1>5. /\ drill.pc = Stopping[d]
      /\ docker' = (docker \ Resources(d)) \cup r.left
      /\ drill' = IF outcome = wanted
                  THEN [ended EXCEPT !.pc = IF d = "target" /\ drill.selfTest THEN "corrupted" ELSE "report"]
                  ELSE Caught(ended, IF outcome = "none" THEN "DRILL_FAILED" ELSE outcome)
  <2>1. /\ drill.pc = Stopping[d]
        /\ docker' = (docker \ {Container(d), Network(d)}) \cup r.left
        /\ drill' = IF outcome = wanted
                    THEN [ended EXCEPT !.pc = IF d = "target" /\ drill.selfTest THEN "corrupted" ELSE "report"]
                    ELSE Caught(ended, IF outcome = "none" THEN "DRILL_FAILED" ELSE outcome)
    BY <1>1, <1>2, <1>3, <1>4, Zenon
  <2> QED BY <2>1 DEF Resources
<1>6. /\ r.left \subseteq Resources(d)
      /\ r.ended \in {"thrown", "cleaned", "not_cleaned"}
      /\ r.ended = "cleaned" => r.left = {}
  BY <1>1, StopLeaves
<1>7. drill.pc = IF d = "target" THEN "stop_target" ELSE "stop_corrupted"
  BY <1>5 DEF Stopping
<1>8. docker \ Resources(d) \subseteq IF drill.source THEN Resources("source") ELSE {}
  BY <1>7 DEF DrillInv, DrillWorks, Mine
<1>9. CASE outcome = wanted
  <2>1. drill' = [ended EXCEPT !.pc = IF d = "target" /\ drill.selfTest THEN "corrupted" ELSE "report"]
    BY <1>5, <1>9
  <2>2. r.ended = "cleaned" /\ r.left = {} /\ drill.failure = wanted
    <3>1. wanted \notin {"DOCKER_UNAVAILABLE", "CLEANUP_FAILED"}
      BY <1>3
    <3>2. r.ended \notin {"thrown", "not_cleaned"}
      BY <1>2, <1>9, <3>1
    <3> QED BY <1>2, <1>6, <1>9, <3>2
  <2>3. drill.restored = {"target"}
    BY <1>3, <1>7, <2>2 DEF DrillInv, DrillWorks
  <2>4. DOMAIN drill = DrillFields /\ DOMAIN drill' = DrillFields
    BY <1>4, <2>1 DEF DrillInv
  <2>5. /\ drill'.pc \in {"corrupted", "report"} /\ drill'.source = drill.source
        /\ drill'.verdict = drill.verdict /\ drill'.failure = "none" /\ drill'.restored = drill.restored
        /\ drill'.report = drill.report /\ drill'.preflight = drill.preflight /\ drill'.target = drill.target
    BY <1>4, <2>1, <2>4
  <2>6. docker' \subseteq Mine'
    BY <1>5, <1>8, <2>2, <2>5 DEF Mine
  <2>7. drill.verdict = "ok" /\ drill.report = "none" /\ DrillAgrees
    BY <1>7 DEF DrillInv, DrillWorks
  <2>8. DrillWorks'
    BY <2>3, <2>5, <2>6, <2>7 DEF DrillWorks
  <2>9. DrillAgrees'
    BY <2>5, <2>7 DEF DrillAgrees
  <2> QED BY <2>4, <2>5, <2>7, <2>8, <2>9, DrillGoesOn
<1>10. CASE outcome # wanted
  <2>1. PICK error : error = IF outcome = "none" THEN "DRILL_FAILED" ELSE outcome
    OBVIOUS
  <2>2. drill' = [ended EXCEPT !.pc = "finally", !.error = error, !.targetCleaned = @ /\ error # "CLEANUP_FAILED"]
    BY <1>5, <1>10, <2>1 DEF Caught
  <2>3. error # "none" /\ (r.ended = "not_cleaned" => error = "CLEANUP_FAILED")
    BY <1>2, <1>6, <2>1
  <2>4. DOMAIN drill = DrillFields /\ DOMAIN drill' = DrillFields
    BY <1>4, <2>2 DEF DrillInv
  <2>5. /\ drill'.pc = "finally" /\ drill'.error = error /\ drill'.source = drill.source
        /\ drill'.verdict = drill.verdict /\ drill'.report = drill.report
        /\ drill'.preflight = drill.preflight /\ drill'.target = drill.target
        /\ (drill'.targetCleaned => error # "CLEANUP_FAILED") /\ (~drill'.unstarted => r.ended # "thrown")
    BY <1>4, <2>2, <2>4
  <2>6. drill'.targetCleaned /\ ~drill'.unstarted => docker' \subseteq drill'.untold \cup Mine'
    <3>1. docker \ Resources(d) \subseteq Mine'
      BY <1>8, <2>5 DEF Mine
    <3> QED BY <1>5, <1>6, <2>3, <2>5, <3>1
  <2>7. drill.verdict = "ok" /\ drill.report = "none" /\ DrillAgrees
    BY <1>7 DEF DrillInv, DrillWorks
  <2>8. DrillAgrees'
    BY <2>5, <2>7 DEF DrillAgrees
  <2> QED BY <2>3, <2>4, <2>5, <2>6, <2>7, <2>8, DrillBreaksOff
<1> QED BY <1>9, <1>10

\* The clean-up and the report.
LEMMA DrillFinishes ==
  ASSUME DrillInv, Finally \/ PrintReport
  PROVE  DrillInv'
<1> USE DEF DrillFields, AtTarget, AtCorrupted, BeforeCommands, Restored, Ending
<1>1. ASSUME drill.pc = "finally", ~drill.source, NEW removed \in BOOLEAN, docker' = docker,
             drill' = [[drill EXCEPT !.pc = "print"] EXCEPT !.temp = @ /\ ~removed,
                                                            !.sourceCleaned = removed \/ ~drill.temp]
      PROVE  DrillInv'
  <2>1. DOMAIN drill = DrillFields /\ DOMAIN drill' = DrillFields
    BY <1>1 DEF DrillInv
  <2>2. drill'.sourceCleaned => ~drill'.temp
    BY <1>1, <2>1
  <2>3. Mine = {}
    BY <1>1 DEF Mine
  <2> QED BY <1>1, <2>1, <2>2, <2>3
          DEF DrillInv, DrillWorks, DrillEnds, DrillRefuses, DrillAgrees, DrillReportsAreTrue
<1>2. ASSUME drill.pc = "finally", drill.source, NEW removed \in BOOLEAN, NEW r \in StopResults("source"),
             docker' = (docker \ {Container("source"), Network("source")}) \cup r.left,
             drill' = IF r.ended = "thrown" THEN [Goto("ended") EXCEPT !.unstarted = TRUE]
                      ELSE [Goto("print") EXCEPT !.temp = @ /\ ~removed,
                              !.sourceCleaned = r.ended = "cleaned" /\ (removed \/ ~drill.temp)]
      PROVE  DrillInv'
  <2>1. /\ r.left \subseteq Resources("source") /\ (r.ended = "cleaned" => r.left = {})
        /\ docker' = (docker \ Resources("source")) \cup r.left
    BY <1>2, StopLeaves DEF Resources
  <2>2. drill.verdict = "ok" /\ drill.report = "none" /\ DrillAgrees /\ DrillEnds /\ DOMAIN drill = DrillFields
    BY <1>2 DEF DrillInv, DrillRefuses
  <2>3. Mine = Resources("source")
    BY <1>2 DEF Mine
  <2>4. CASE r.ended = "thrown"
    <3>1. drill' = [[drill EXCEPT !.pc = "ended"] EXCEPT !.unstarted = TRUE]
      BY <1>2, <2>4 DEF Goto
    <3> QED BY <2>2, <3>1 DEF DrillInv, DrillWorks, DrillEnds, DrillRefuses, DrillAgrees, DrillReportsAreTrue
  <2>5. CASE r.ended # "thrown"
    <3>1. drill' = [[drill EXCEPT !.pc = "print"] EXCEPT !.temp = @ /\ ~removed,
                      !.sourceCleaned = r.ended = "cleaned" /\ (removed \/ ~drill.temp)]
      BY <1>2, <2>5 DEF Goto
    <3>2. /\ drill'.pc = "print" /\ drill'.error = drill.error /\ drill'.restored = drill.restored
          /\ drill'.met = drill.met /\ drill'.targetCleaned = drill.targetCleaned
          /\ drill'.unstarted = drill.unstarted /\ drill'.untold = drill.untold
          /\ drill'.verdict = drill.verdict /\ drill'.report = drill.report
          /\ drill'.preflight = drill.preflight /\ drill'.target = drill.target /\ DOMAIN drill' = DrillFields
          /\ drill'.sourceCleaned => r.ended = "cleaned" /\ ~drill'.temp
      BY <2>2, <3>1
    <3>3. DrillWorks'
      BY <3>2 DEF DrillWorks
    <3>4. DrillEnds'
      <4>1. drill'.sourceCleaned => docker' = docker \ Resources("source")
        BY <2>1, <3>2
      <4>2. drill.error = "none" => drill.restored = {"target"} /\ drill.met /\ docker \subseteq Resources("source")
        BY <1>2, <2>2, <2>3 DEF DrillEnds
      <4>3. drill.targetCleaned /\ ~drill.unstarted => docker \subseteq drill.untold \cup Resources("source")
        BY <1>2, <2>2, <2>3 DEF DrillEnds
      <4>4. drill'.error = "none" /\ drill'.sourceCleaned =>
              drill'.restored = {"target"} /\ drill'.met /\ docker' = {} /\ ~drill'.temp
        BY <3>2, <4>1, <4>2
      <4>5. drill'.targetCleaned /\ drill'.sourceCleaned /\ ~drill'.unstarted =>
              docker' \subseteq drill'.untold /\ ~drill'.temp
        BY <3>2, <4>1, <4>3
      <4> QED BY <3>2, <4>4, <4>5 DEF DrillEnds
    <3>5. DrillRefuses' /\ DrillAgrees' /\ DrillReportsAreTrue'
      BY <2>2, <3>2 DEF DrillRefuses, DrillAgrees, DrillReportsAreTrue
    <3> QED BY <2>2, <3>2, <3>3, <3>4, <3>5 DEF DrillInv
  <2> QED BY <2>4, <2>5
<1>3. CASE Finally
  BY <1>1, <1>2, <1>3 DEF Finally, Goto
<1>4. CASE PrintReport
  <2>1. PICK error : error = IF drill.sourceCleaned THEN drill.error ELSE "CLEANUP_FAILED"
    OBVIOUS
  <2>2. PICK report : report = CASE error = "none" -> "ok"
                                 [] error # "none" /\ drill.targetCleaned /\ drill.sourceCleaned -> "failed_clean"
                                 [] OTHER -> "failed_unclean"
    OBVIOUS
  <2>3. drill.pc = "print" /\ docker' = docker /\ drill' = [[drill EXCEPT !.pc = "ended"] EXCEPT !.report = report]
    BY <1>4, <2>1, <2>2 DEF PrintReport, Goto
  <2>4. /\ report = "ok" => drill.error = "none" /\ drill.sourceCleaned
        /\ report = "failed_clean" => drill.targetCleaned /\ drill.sourceCleaned
    BY <2>1, <2>2
  <2> QED BY <2>3, <2>4 DEF DrillInv, DrillWorks, DrillEnds, DrillRefuses, DrillAgrees, DrillReportsAreTrue
<1> QED BY <1>3, <1>4

\* Each step of a drill keeps what is known of it.
LEMMA DrillStep == ASSUME DrillInv, DrillNext PROVE DrillInv'
<1> USE DEF AtTarget, AtCorrupted, BeforeCommands, Restored, Ending
<1>1. CASE Preflight \/ Begin
  BY <1>1, DrillBegins
<1>2. CASE MakeDirectoryFails \/ WriteCorruptedFails
  <2>1. drill.pc \in {"source", "corrupted"} /\ drill' = Caught(drill, "DRILL_FAILED") /\ docker' = docker
    BY <1>2 DEF MakeDirectoryFails, WriteCorruptedFails
  <2> QED BY <2>1, DrillFails
<1>3. CASE Start("source", "prepare")
  BY <1>3, DrillStartsOne
<1>4. CASE PrepareFixture \/ StatBackup
  <2>1. /\ drill.pc \in {"prepare", "stat"} /\ docker' = docker
        /\ \/ \E pc \in {"stat", "target"} : drill' = [drill EXCEPT !.pc = pc]
           \/ \E e : e # "none" /\ drill' = Caught(drill, e)
    BY <1>4 DEF PrepareFixture, StatBackup, Goto
  <2>2. ASSUME NEW pc \in {"stat", "target"}, drill' = [drill EXCEPT !.pc = pc]
        PROVE  DrillInv'
    BY <2>1, <2>2 DEF DrillInv, DrillWorks, DrillEnds, DrillRefuses, DrillAgrees, DrillReportsAreTrue, Mine, DrillFields
  <2>3. ASSUME NEW e, e # "none", drill' = Caught(drill, e)
        PROVE  DrillInv'
    BY <2>1, <2>3, DrillFails
  <2> QED BY <2>1, <2>2, <2>3
<1>5. ASSUME NEW d \in {"target", "corrupted"}, Start(d, Verifying[d]) \/ VerifyRestored(d) \/ StopTarget(d)
      PROVE  DrillInv'
  <2>1. <<d, Verifying[d]>> \in {<<"target", "verify_target">>, <<"corrupted", "verify_corrupted">>}
    BY <1>5 DEF Verifying
  <2> QED BY <1>5, <2>1, DrillStartsOne, DrillVerifies, DrillStops
<1>6. CASE MakeReport
  <2>1. PICK rtoMet \in BOOLEAN, rpoMet \in BOOLEAN :
          /\ drill.pc = "report" /\ docker' = docker
          /\ drill' = [[drill EXCEPT !.pc = "finally"] EXCEPT
                   !.met = rtoMet /\ rpoMet,
                   !.error = CASE ~rtoMet -> "RTO_EXCEEDED" [] rtoMet /\ ~rpoMet -> "RPO_EXCEEDED"
                               [] OTHER -> "none"]
    BY <1>6 DEF MakeReport, Goto
  <2>2. PICK error : error = CASE ~rtoMet -> "RTO_EXCEEDED" [] rtoMet /\ ~rpoMet -> "RPO_EXCEEDED" [] OTHER -> "none"
    OBVIOUS
  <2>3. drill' = [[drill EXCEPT !.pc = "finally"] EXCEPT !.met = rtoMet /\ rpoMet, !.error = error]
    BY <2>1, <2>2
  <2>4. error = "none" => rtoMet /\ rpoMet
    BY <2>2
  <2> QED BY <2>1, <2>3, <2>4
          DEF DrillInv, DrillWorks, DrillEnds, DrillRefuses, DrillAgrees, DrillReportsAreTrue, Mine, DrillFields
<1>7. CASE Finally \/ PrintReport
  BY <1>7, DrillFinishes
<1> QED BY <1>1, <1>2, <1>3, <1>4, <1>5, <1>6, <1>7 DEF DrillNext

(* --------------------------------- exports --------------------------------- *)

\* A member that holds rows of the table, each after the one before it.
InOrder(content) ==
  /\ content \in Seq(rows)
  /\ \A i, j \in DOMAIN content : i < j => content[i] < content[j]

\* A stream of a whole export.
Whole(file, before) ==
  file = Written(file.content) /\ InOrder(file.content) /\ before \subseteq ToSet(file.content)

Files == [present : BOOLEAN, content : Seq(Nat), damaged : BOOLEAN]
ExportFields == {"pc", "count", "member", "cursor", "before", "written", "result"}

\* A running export: the streams it is done with are whole, and the one it
\* reads is so up to its cursor.
ExportRuns ==
  export.pc # "idle" =>
    /\ export.member \in 2 .. 4 /\ export.before \subseteq rows
    /\ export.written \in Seq(Files)
    /\ export.pc = "opening" => export.member # 4 /\ Len(export.written) = export.member - 1
    /\ export.pc = "reading" =>
         LET file == export.written[export.member] IN
         /\ export.member # 4 /\ Len(export.written) = export.member
         /\ export.cursor \in Nat
         /\ file = Written(file.content) /\ InOrder(file.content)
         /\ \A i \in DOMAIN file.content : file.content[i] <= export.cursor
         /\ \A id \in export.before : id <= export.cursor => id \in ToSet(file.content)
    /\ export.pc = "manifest" => export.member = 4 /\ Len(export.written) = 3
    /\ \A i \in 2 .. (export.member - 1) : Whole(export.written[i], export.before)

ManifestIsOfAWholeExport ==
  package.manifest.present =>
    /\ package.manifest.entries = [m \in MemberSet |-> package.manifest.entries[m]]
    /\ \A m \in Streams : Whole(package.manifest.entries[m], package.manifest.before)

ExportInv ==
  /\ rows \subseteq Nat /\ 0 \notin rows
  /\ DOMAIN export = ExportFields /\ export.count \in Nat
  /\ export.pc \in {"idle", "opening", "reading", "manifest"}
  /\ DOMAIN package = {"members", "manifest"}
  /\ DOMAIN package.manifest = {"present", "entries", "damaged", "before"}
  /\ package.members = [m \in MemberSet |-> package.members[m]]
  /\ ExportRuns /\ ManifestIsOfAWholeExport

\* An input passes a list of checks when none of them is about it, and only
\* then.
LEMMA Passes ==
  ASSUME NEW checks, NEW n \in Nat, DOMAIN checks = 1 .. n, \A i \in 1 .. n : checks[i][2] # "ok", NEW defects
  PROVE  FirstFailure(checks, defects) = "ok" <=> \A i \in 1 .. n : checks[i][1] \notin defects
<1>1. CASE Found(checks, defects) # {}
  <2>1. Min(Found(checks, defects)) \in 1 .. n
    BY <1>1, FirstFound DEF Found
  <2> QED BY <1>1, <2>1 DEF FirstFailure, Found
<1>2. CASE Found(checks, defects) = {}
  BY <1>2 DEF FirstFailure, Found
<1> QED BY <1>1, <1>2

\* A package that verifies has a manifest, and its members are those the
\* manifest lists.
LEMMA VerdictIsEarned ==
  ASSUME NEW manifest, NEW members, VerdictOn(manifest, members) = "ok"
  PROVE  manifest.present /\ \A m \in MemberSet : members[m] = manifest.entries[m]
<1> DEFINE listed == FirstFailure(ManifestChecks(manifest), {TRUE})
<1> DEFINE verdict(i) == FirstFailure(MemberChecks(manifest, members[Members[i]], Members[i]), {TRUE})
<1> DEFINE bad == {i \in DOMAIN Members : verdict(i) # "ok"}
<1>1. VerdictOn(manifest, members) =
        CASE listed # "ok" -> listed
          [] listed = "ok" /\ bad # {} -> verdict(Min(bad))
          [] listed = "ok" /\ bad = {} -> "ok"
  BY DEF VerdictOn
<1>2. DOMAIN Members = 1 .. 3
  BY DEF Members
<1>3. bad # {} => verdict(Min(bad)) # "ok"
  <2> SUFFICES ASSUME bad # {} PROVE Min(bad) \in bad
    OBVIOUS
  <2>1. PICK checks : checks = [i \in 1 .. 3 |-> <<verdict(i) # "ok", "x">>]
    OBVIOUS
  <2>2. bad = {i \in DOMAIN checks : checks[i][1] \in {TRUE}}
    BY <1>2, <2>1
  <2> HIDE DEF bad
  <2>3. DOMAIN checks = 1 .. 3 /\ bad = Found(checks, {TRUE})
    BY <2>1, <2>2 DEF Found
  <2> QED BY <2>3, FirstFound
<1>0. PICK T : T = {TRUE}
  OBVIOUS
<1>4. /\ listed = "ok" => manifest.present
      /\ \A i \in 1 .. 3 : verdict(i) = "ok" => members[Members[i]] = manifest.entries[Members[i]]
  <2>1. DOMAIN ManifestChecks(manifest) = 1 .. 2 /\ \A i \in 1 .. 2 : ManifestChecks(manifest)[i][2] # "ok"
    BY DEF ManifestChecks
  <2>2. listed = "ok" => ManifestChecks(manifest)[1][1] \notin T
    <3>1. PICK checks : checks = ManifestChecks(manifest)
      OBVIOUS
    <3>2. DOMAIN checks = 1 .. 2 /\ \A i \in 1 .. 2 : checks[i][2] # "ok"
      BY <2>1, <3>1
    <3>3. FirstFailure(checks, T) = "ok" <=> \A i \in 1 .. 2 : checks[i][1] \notin T
      BY <3>2, Passes
    <3>4. listed = "ok" => FirstFailure(checks, T) = "ok"
      BY <1>0, <3>1
    <3>5. listed = "ok" => checks[1][1] \notin T
      BY <3>3, <3>4
    <3> QED BY <3>1, <3>5
  <2>3. ManifestChecks(manifest)[1][1] = ~manifest.present
    BY DEF ManifestChecks
  <2>4. listed = "ok" => manifest.present
    BY <1>0, <2>2, <2>3
  <2>5. ASSUME NEW i \in 1 .. 3, verdict(i) = "ok"
        PROVE  members[Members[i]] = manifest.entries[Members[i]]
    <3>1. PICK checks : checks = MemberChecks(manifest, members[Members[i]], Members[i])
      OBVIOUS
    <3>2. DOMAIN checks = 1 .. 2 /\ \A k \in 1 .. 2 : checks[k][2] # "ok"
      BY <3>1 DEF MemberChecks
    <3>3. FirstFailure(checks, T) = "ok" <=> \A k \in 1 .. 2 : checks[k][1] \notin T
      BY <3>2, Passes
    <3>4. FirstFailure(checks, T) = "ok"
      BY <1>0, <2>5, <3>1
    <3>5. checks[2][1] = (members[Members[i]].damaged \/ members[Members[i]] # manifest.entries[Members[i]])
      BY <3>1 DEF MemberChecks
    <3>6. checks[2][1] \notin T
      BY <3>3, <3>4
    <3> QED BY <1>0, <3>5, <3>6
  <2> QED BY <2>4, <2>5
<1>5. listed = "ok" /\ bad = {}
  <2> HIDE DEF listed, bad, verdict
  <2> QED BY <1>1, <1>3
<1>6. \A i \in 1 .. 3 : verdict(i) = "ok"
  BY <1>2, <1>5
<1> QED BY <1>2, <1>4, <1>5, <1>6 DEF MemberSet

\* A package that verifies is one whole export.
LEMMA ExportHolds == ASSUME ExportInv PROVE ExportIsWhole
<1> SUFFICES ASSUME VerdictOn(package.manifest, package.members) = "ok"
             PROVE  /\ package.members = package.manifest.entries
                    /\ \A m \in Streams :
                         LET content == package.members[m].content IN
                         /\ IsInjective(content)
                         /\ package.manifest.before \subseteq ToSet(content)
                         /\ ToSet(content) \subseteq rows
  BY DEF ExportIsWhole
<1>1. package.manifest.present /\ \A m \in MemberSet : package.members[m] = package.manifest.entries[m]
  BY VerdictIsEarned
<1>2. /\ package.manifest.entries = [m \in MemberSet |-> package.manifest.entries[m]]
      /\ \A m \in Streams : Whole(package.manifest.entries[m], package.manifest.before)
  BY <1>1 DEF ExportInv, ManifestIsOfAWholeExport
<1>3. package.members = package.manifest.entries
  <2>1. PICK members, entries : members = package.members /\ entries = package.manifest.entries
    OBVIOUS
  <2>2. members = [m \in MemberSet |-> members[m]] /\ entries = [m \in MemberSet |-> entries[m]]
    BY <1>2, <2>1, Zenon DEF ExportInv
  <2>3. \A m \in MemberSet : members[m] = entries[m]
    BY <1>1, <2>1
  <2>4. [m \in MemberSet |-> members[m]] = [m \in MemberSet |-> entries[m]]
    BY <2>3
  <2> QED BY <2>1, <2>2, <2>4, Zenon
<1>4. ASSUME NEW m \in Streams
      PROVE  /\ IsInjective(package.members[m].content)
             /\ package.manifest.before \subseteq ToSet(package.members[m].content)
             /\ ToSet(package.members[m].content) \subseteq rows
  <2>1. PICK content : content = package.members[m].content
    OBVIOUS
  <2>2. InOrder(content) /\ package.manifest.before \subseteq ToSet(content)
    BY <1>2, <1>3, <2>1 DEF Whole
  <2>3. ASSUME NEW i \in DOMAIN content, NEW j \in DOMAIN content, content[i] = content[j]
        PROVE  i = j
    <3>1. i \in Nat /\ j \in Nat /\ content[i] \in Nat
      <4>1. rows \subseteq Nat /\ content \in Seq(rows)
        BY <2>2 DEF InOrder, ExportInv
      <4>2. Len(content) \in Nat /\ DOMAIN content = 1 .. Len(content)
        BY <4>1
      <4>3. content[i] \in rows
        BY <2>3, <4>1
      <4>4. i \in 1 .. Len(content) /\ j \in 1 .. Len(content)
        BY <4>2
      <4>5. i \in Nat /\ j \in Nat
        BY <4>2, <4>4
      <4> QED BY <4>1, <4>3, <4>5
    <3>2. ~ (i < j) /\ ~ (j < i)
      BY <2>2, <2>3, <3>1 DEF InOrder
    <3> QED BY <3>1, <3>2
  <2> QED BY <2>1, <2>2, <2>3 DEF InOrder, IsInjective, ToSet
<1> QED BY <1>3, <1>4

\* What an export knows of itself before there is one.
LEMMA ExportStarts == ASSUME ExportInit \/ (ExportInit /\ rows = {}) PROVE ExportInv
BY EvidenceExportAssumption DEF ExportInit, ExportInv, Idle, NoManifest, ExportFields, ExportRuns, ManifestIsOfAWholeExport

\* A sequence over a set is one over a larger set.
LEMMA Widened ==
  ASSUME NEW S, NEW T, S \subseteq T, NEW s \in Seq(S)
  PROVE  s \in Seq(T) /\ \A i \in DOMAIN s : s[i] \in T
OBVIOUS

\* Ids in order, followed by later ids in order, are in order.
LEMMA Joined ==
  ASSUME NEW S, S \subseteq Nat, NEW s \in Seq(S), NEW t \in Seq(S), NEW c \in Nat,
         \A i, j \in DOMAIN s : i < j => s[i] < s[j], \A i, j \in DOMAIN t : i < j => t[i] < t[j],
         \A i \in DOMAIN s : s[i] <= c, \A i \in DOMAIN t : c < t[i]
  PROVE  /\ s \o t \in Seq(S)
         /\ \A i, j \in DOMAIN (s \o t) : i < j => (s \o t)[i] < (s \o t)[j]
         /\ ToSet(s \o t) = ToSet(s) \cup ToSet(t)
<1>1. PICK u : u = s \o t
  OBVIOUS
<1>2. /\ u \in Seq(S) /\ Len(u) = Len(s) + Len(t) /\ Len(s) \in Nat /\ Len(t) \in Nat
      /\ DOMAIN s = 1 .. Len(s) /\ DOMAIN t = 1 .. Len(t) /\ DOMAIN u = 1 .. Len(u)
  BY <1>1
<1>3. /\ \A i \in DOMAIN s : u[i] = s[i] /\ s[i] \in Nat
      /\ \A i \in DOMAIN t : t[i] \in Nat
      /\ \A i \in DOMAIN u : i > Len(s) => u[i] = t[i - Len(s)] /\ i - Len(s) \in DOMAIN t
  <2>1. \A i \in DOMAIN s : u[i] = s[i]
    BY <1>1, <1>2
  <2>2. \A i \in DOMAIN s : s[i] \in S
    BY <1>2
  <2>3. \A i \in DOMAIN t : t[i] \in S
    BY <1>2
  <2>4. ASSUME NEW i \in DOMAIN u, i > Len(s)
        PROVE  u[i] = t[i - Len(s)] /\ i - Len(s) \in DOMAIN t
    <3>1. i \in 1 .. (Len(s) + Len(t))
      BY <1>2
    <3>2. i - Len(s) \in 1 .. Len(t)
      BY <1>2, <2>4, <3>1
    <3> QED BY <1>1, <1>2, <2>4, <3>1, <3>2
  <2> QED BY <2>1, <2>2, <2>3, <2>4
<1>4. ASSUME NEW i \in DOMAIN u, NEW j \in DOMAIN u, i < j
      PROVE  u[i] < u[j]
  <2>1. i \in Nat /\ j \in Nat
    BY <1>2
  <2>2. CASE j <= Len(s)
    BY <1>2, <1>3, <1>4, <2>1, <2>2
  <2>3. CASE i > Len(s)
    <3>1. u[i] = t[i - Len(s)] /\ u[j] = t[j - Len(s)] /\ i - Len(s) \in DOMAIN t /\ j - Len(s) \in DOMAIN t
      BY <1>3, <1>4, <2>1, <2>3, <1>2
    <3>2. i - Len(s) < j - Len(s)
      BY <1>2, <1>4, <2>1
    <3> QED BY <3>1, <3>2
  <2>4. CASE i <= Len(s) /\ j > Len(s)
    <3>1. u[i] = s[i] /\ i \in DOMAIN s /\ u[j] = t[j - Len(s)] /\ j - Len(s) \in DOMAIN t
      BY <1>2, <1>3, <2>1, <2>4
    <3>2. u[i] \in Nat /\ u[j] \in Nat /\ u[i] <= c /\ c < u[j]
      BY <1>3, <3>1
    <3> QED BY <3>2
  <2> QED BY <1>2, <2>1, <2>2, <2>3, <2>4
<1>5. ToSet(u) = ToSet(s) \cup ToSet(t)
  <2>1. ASSUME NEW i \in DOMAIN u PROVE u[i] \in ToSet(s) \cup ToSet(t)
    BY <1>2, <1>3, <2>1 DEF ToSet
  <2>2. ASSUME NEW i \in DOMAIN s PROVE s[i] \in ToSet(u)
    BY <1>2, <1>3, <2>2 DEF ToSet
  <2>3. ASSUME NEW i \in DOMAIN t PROVE t[i] \in ToSet(u)
    <3>1. i + Len(s) \in DOMAIN u /\ i + Len(s) > Len(s) /\ (i + Len(s)) - Len(s) = i
      BY <1>2, <2>3
    <3>2. u[i + Len(s)] = t[i]
      BY <1>3, <3>1
    <3> QED BY <3>1, <3>2 DEF ToSet
  <2> QED BY <2>1, <2>2, <2>3 DEF ToSet
<1> QED BY <1>1, <1>2, <1>4, <1>5

\* A page holds rows after the cursor, in order, and none is left out between
\* two of them.
LEMMA PageIsNext ==
  ASSUME rows \subseteq Nat, NEW c \in Nat, NEW page \in Pages(rows, c)
  PROVE  /\ page \in Seq(rows) /\ \A i \in DOMAIN page : c < page[i]
         /\ \A i, j \in DOMAIN page : i < j => page[i] < page[j]
         /\ \A id \in rows : id > c /\ id \notin ToSet(page) =>
              Len(page) = PageSize /\ \A i \in DOMAIN page : page[i] < id
<1> DEFINE ids == {id \in rows : id > c}
<1>1. /\ page \in BoundedSeq(ids, PageSize)
      /\ \A i, j \in DOMAIN page : i < j => page[i] < page[j]
      /\ \A id \in ids \ ToSet(page) : Len(page) = PageSize /\ \A i \in DOMAIN page : page[i] < id
  BY DEF Pages, FirstOf
<1>2. PICK m \in 0 .. PageSize : page \in [1 .. m -> ids]
  <2> HIDE DEF ids
  <2> QED BY <1>1 DEF BoundedSeq, SeqOf
<1>3. page \in Seq(ids)
  <2> HIDE DEF ids
  <2> QED BY <1>2, EvidenceExportAssumption
<1>4. \A i \in DOMAIN page : page[i] \in ids
  BY <1>2
<1>5. page \in Seq(rows)
  BY <1>3
<1> QED BY <1>1, <1>4, <1>5

\* A table that grows keeps what was in order in order.
LEMMA MoreRows ==
  ASSUME rows \subseteq rows', NEW file, NEW before, Whole(file, before)
  PROVE  Whole(file, before)'
BY DEF Whole, InOrder

\* The file of a stream, and the sequence that it is written over.
LEMMA WrittenIsAFile ==
  ASSUME NEW content \in Seq(Nat)
  PROVE  /\ Written(content) \in Files
         /\ Written(content).content = content
         /\ Written(content) = Written(Written(content).content)
BY DEF Written, Files

\* A page that is read.
LEMMA ExportReads == ASSUME ExportInv, ReadPage PROVE ExportInv'
<1>1. PICK page \in Pages(rows, export.cursor) :
        LET member == Members[export.member]
            content == export.written[export.member].content \o page
            last == Len(page) < PageSize
        IN  /\ export.pc = "reading"
            /\ export' = [export EXCEPT
                            !.written[export.member] = Written(content),
                            !.cursor = IF page = <<>> THEN @ ELSE page[Len(page)],
                            !.member = IF last THEN @ + 1 ELSE @,
                            !.pc = CASE ~last -> "reading"
                                     [] last /\ export.member = Len(Members) -> "manifest"
                                     [] last /\ export.member # Len(Members) -> "opening"]
            /\ package' = [package EXCEPT !.members[member] = Written(content)]
            /\ rows' = rows
  BY DEF ReadPage
<1>2. PICK old : old = export.written[export.member].content
  OBVIOUS
<1>3. PICK content : content = old \o page
  OBVIOUS
<1>4. PICK m : m = export.member
  OBVIOUS
<1>5. PICK cursor : cursor = IF page = <<>> THEN export.cursor ELSE page[Len(page)]
  OBVIOUS
<1>6. PICK pc : pc = CASE ~(Len(page) < PageSize) -> "reading"
                       [] Len(page) < PageSize /\ m = Len(Members) -> "manifest"
                       [] Len(page) < PageSize /\ m # Len(Members) -> "opening"
  OBVIOUS
<1>7. PICK next : next = IF Len(page) < PageSize THEN m + 1 ELSE m
  OBVIOUS
<1>8. /\ export.pc = "reading" /\ rows' = rows
      /\ export' = [export EXCEPT !.written[m] = Written(content), !.cursor = cursor, !.member = next, !.pc = pc]
      /\ package' = [package EXCEPT !.members[Members[m]] = Written(content)]
  BY <1>1, <1>2, <1>3, <1>4, <1>5, <1>6, <1>7
<1>9. /\ m \in 2 .. 3 /\ export.before \subseteq rows /\ rows \subseteq Nat
      /\ export.written \in Seq(Files) /\ Len(export.written) = m /\ export.cursor \in Nat
      /\ InOrder(old)
      /\ \A i \in DOMAIN old : old[i] <= export.cursor
      /\ \A id \in export.before : id <= export.cursor => id \in ToSet(old)
      /\ \A i \in 2 .. (m - 1) : Whole(export.written[i], export.before)
  BY <1>2, <1>4, <1>8 DEF ExportInv, ExportRuns
<1>10. /\ page \in Seq(rows) /\ \A i \in DOMAIN page : export.cursor < page[i]
       /\ \A i, j \in DOMAIN page : i < j => page[i] < page[j]
       /\ \A id \in rows : id > export.cursor /\ id \notin ToSet(page) =>
            Len(page) = PageSize /\ \A i \in DOMAIN page : page[i] < id
  BY <1>9, PageIsNext
<1>11. InOrder(content) /\ ToSet(content) = ToSet(old) \cup ToSet(page)
  <2>1. /\ rows \subseteq Nat /\ old \in Seq(rows) /\ page \in Seq(rows) /\ export.cursor \in Nat
        /\ \A i, j \in DOMAIN old : i < j => old[i] < old[j]
        /\ \A i, j \in DOMAIN page : i < j => page[i] < page[j]
        /\ \A i \in DOMAIN old : old[i] <= export.cursor
        /\ \A i \in DOMAIN page : export.cursor < page[i]
    BY <1>9, <1>10 DEF InOrder
  <2>2. /\ old \o page \in Seq(rows)
        /\ \A i, j \in DOMAIN (old \o page) : i < j => (old \o page)[i] < (old \o page)[j]
        /\ ToSet(old \o page) = ToSet(old) \cup ToSet(page)
    <3> HIDE DEF InOrder
    <3> QED BY <2>1, Joined, ZenonT(60)
  <2> QED BY <1>3, <2>2 DEF InOrder
<1>12. /\ Len(page) \in Nat /\ DOMAIN page = 1 .. Len(page) /\ \A i \in DOMAIN page : page[i] \in Nat
       /\ (page = <<>>) <=> (Len(page) = 0)
  <2>1. page \in Seq(Nat)
    BY <1>9, <1>10, Widened
  <2> QED BY <2>1
<1>13. cursor \in Nat /\ export.cursor <= cursor /\ \A i \in DOMAIN page : page[i] <= cursor
  <2>1. CASE page = <<>>
    BY <1>5, <1>9, <1>12, <2>1
  <2>2. CASE page # <<>>
    <3>1. Len(page) \in DOMAIN page /\ cursor = page[Len(page)]
      BY <1>5, <1>12, <2>2
    <3>2. ASSUME NEW i \in DOMAIN page PROVE page[i] <= page[Len(page)]
      <4>1. i \in Nat /\ (i < Len(page) \/ i = Len(page))
        BY <1>12
      <4>2. page[i] \in Nat /\ page[Len(page)] \in Nat
        BY <1>12, <3>1
      <4> QED BY <1>10, <3>1, <4>1, <4>2
    <3> QED BY <1>9, <1>10, <1>12, <3>1, <3>2
  <2> QED BY <2>1, <2>2
<1>14. \A i \in DOMAIN content : content[i] <= cursor
  <2>1. ASSUME NEW x \in ToSet(old) PROVE x \in Nat /\ x <= cursor
    <3>1. PICK i \in DOMAIN old : x = old[i]
      BY <2>1 DEF ToSet
    <3>2. old \in Seq(rows) /\ rows \subseteq Nat /\ export.cursor \in Nat /\ old[i] <= export.cursor
      BY <1>9 DEF InOrder
    <3>3. x \in Nat
      BY <3>1, <3>2, Widened
    <3> QED BY <1>13, <3>1, <3>2, <3>3
  <2>2. ASSUME NEW x \in ToSet(page) PROVE x <= cursor
    BY <1>13, <2>2 DEF ToSet
  <2>3. \A i \in DOMAIN content : content[i] \in ToSet(content)
    BY DEF ToSet
  <2> QED BY <1>11, <2>1, <2>2, <2>3
<1>15. ASSUME NEW id \in export.before, id <= cursor \/ Len(page) < PageSize
       PROVE  id \in ToSet(content)
  <2>1. id \in Nat /\ id \in rows
    BY <1>9
  <2>2. CASE id <= export.cursor
    BY <1>9, <1>11, <2>2
  <2>3. CASE id > export.cursor /\ id \notin ToSet(page)
    <3>1. Len(page) = PageSize /\ \A i \in DOMAIN page : page[i] < id
      BY <1>10, <2>1, <2>3
    <3>2. page # <<>> /\ Len(page) \in DOMAIN page
      BY <1>12, <3>1, EvidenceExportAssumption
    <3>3. cursor < id
      BY <1>5, <3>1, <3>2
    <3> QED BY <1>13, <1>15, <2>1, <3>1, <3>3, EvidenceExportAssumption
  <2> QED BY <1>9, <1>11, <2>1, <2>2, <2>3
<1>16. content \in Seq(Nat)
  <2>1. content \in Seq(rows) /\ rows \subseteq Nat
    BY <1>9, <1>11 DEF InOrder
  <2> QED BY <2>1, Widened
<1>17. PICK file : file = Written(content)
  OBVIOUS
<1>18. file \in Files /\ file.content = content /\ file = Written(file.content)
  BY <1>16, <1>17, WrittenIsAFile
<1>19. PICK written : written = [export.written EXCEPT ![m] = file]
  OBVIOUS
<1>20. /\ written \in Seq(Files) /\ Len(written) = m /\ written[m] = file
       /\ \A i \in 2 .. (m - 1) : written[i] = export.written[i]
  BY <1>9, <1>18, <1>19
<1>21. /\ DOMAIN export' = ExportFields /\ export'.count = export.count /\ export'.before = export.before
       /\ export'.written = written /\ export'.cursor = cursor /\ export'.member = next /\ export'.pc = pc
  BY <1>8, <1>17, <1>19 DEF ExportInv, ExportFields
<1>22. Len(Members) = 3
  BY DEF Members
<1>23. ASSUME Len(page) < PageSize PROVE ExportRuns'
  <2>1. next = m + 1 /\ pc = IF m = 3 THEN "manifest" ELSE "opening"
    BY <1>6, <1>7, <1>22, <1>23
  <2>2. Whole(file, export.before)
    BY <1>11, <1>15, <1>18, <1>23 DEF Whole
  <2>3. \A i \in 2 .. (next - 1) : Whole(written[i], export.before)
    <3>1. \A i \in 2 .. (next - 1) : i = m \/ i \in 2 .. (m - 1)
      BY <1>9, <2>1
    <3> QED BY <1>9, <1>20, <2>2, <3>1
  <2>4. \A i \in 2 .. (next - 1) : Whole(written[i], export.before)'
    BY <1>8, <1>21, <2>3 DEF Whole, InOrder
  <2>5. pc \in {"opening", "manifest"} /\ next \in 2 .. 4 /\ (pc = "opening" => next # 4 /\ m = next - 1)
        /\ (pc = "manifest" => next = 4 /\ m = 3)
    BY <1>9, <2>1
  <2> QED BY <1>8, <1>9, <1>20, <1>21, <2>4, <2>5 DEF ExportRuns
<1>24. ASSUME ~(Len(page) < PageSize) PROVE ExportRuns'
  <2>1. next = m /\ pc = "reading"
    BY <1>6, <1>7, <1>24
  <2>2. InOrder(file.content)' /\ \A i \in 2 .. (m - 1) : Whole(written[i], export.before)'
    BY <1>8, <1>9, <1>11, <1>18, <1>20, <1>21 DEF Whole, InOrder
  <2>3. /\ \A i \in DOMAIN file.content : file.content[i] <= cursor
        /\ \A id \in export.before : id <= cursor => id \in ToSet(file.content)
    BY <1>14, <1>15, <1>18
  <2>4. m \in 2 .. 4 /\ m # 4
    BY <1>9
  <2> QED BY <1>8, <1>9, <1>13, <1>18, <1>20, <1>21, <2>1, <2>2, <2>3, <2>4 DEF ExportRuns
<1>25. ExportRuns'
  BY <1>23, <1>24
<1>26. /\ DOMAIN package' = {"members", "manifest"} /\ package'.manifest = package.manifest
       /\ package'.members = [n \in MemberSet |-> package'.members[n]]
  BY <1>8 DEF ExportInv
<1>27. ManifestIsOfAWholeExport'
  BY <1>8, <1>26 DEF ExportInv, ManifestIsOfAWholeExport, Whole, InOrder
<1>28. pc \in {"opening", "reading", "manifest"}
  BY <1>6
<1> QED BY <1>8, <1>21, <1>25, <1>26, <1>27, <1>28 DEF ExportInv

\* An export that begins, opens a file or ends with its manifest.
LEMMA ExportWrites ==
  ASSUME ExportInv, StartExport \/ OpenMember \/ WriteManifest
  PROVE  ExportInv'
<1>1. ASSUME NEW result, export' = Idle(export.count + 1, result), package' = package, rows' = rows
      PROVE  ExportInv'
  BY <1>1 DEF ExportInv, ExportFields, Idle, ExportRuns, ManifestIsOfAWholeExport, Whole, InOrder
<1>2. CASE StartExport
  <2>1. ASSUME export.pc = "idle", rows' = rows,
               export' = [export EXCEPT !.pc = "opening", !.count = @ + 1, !.member = 2,
                                        !.cursor = 0, !.before = rows, !.result = "none",
                                        !.written = << Written(<<export.count>>) >>],
               package' = [package EXCEPT !.members["registry.json"] = Written(<<export.count>>)]
        PROVE  ExportInv'
    <3>1. export.count \in Nat /\ DOMAIN export = ExportFields
      BY DEF ExportInv
    <3>2. PICK file : file = Written(<<export.count>>)
      OBVIOUS
    <3>3. file \in Files
      <4>1. <<export.count>> \in Seq(Nat)
        BY <3>1
      <4> QED BY <3>2, <4>1, WrittenIsAFile
    <3>4. <<file>> \in Seq(Files) /\ Len(<<file>>) = 1
      BY <3>3
    <3>5. /\ export'.pc = "opening" /\ export'.count \in Nat /\ export'.member = 2 /\ export'.before = rows
          /\ export'.written = <<file>> /\ DOMAIN export' = ExportFields
      BY <2>1, <3>1, <3>2 DEF ExportFields
    <3>6. ExportRuns'
      BY <2>1, <3>4, <3>5 DEF ExportRuns
    <3>7. /\ DOMAIN package' = {"members", "manifest"} /\ package'.manifest = package.manifest
          /\ package'.members = [n \in MemberSet |-> package'.members[n]]
      BY <2>1 DEF ExportInv
    <3>8. ManifestIsOfAWholeExport'
      BY <2>1, <3>7 DEF ExportInv, ManifestIsOfAWholeExport, Whole, InOrder
    <3> QED BY <2>1, <3>5, <3>6, <3>7, <3>8 DEF ExportInv
  <2>2. PICK defects \in WithADefect(SelectionChecks) :
          LET verdict == FirstFailure(SelectionChecks, defects) IN
          IF verdict # "ok"
          THEN /\ export' = Idle(export.count + 1, verdict)
               /\ UNCHANGED package
          ELSE /\ export' = [export EXCEPT !.pc = "opening", !.count = @ + 1, !.member = 2,
                                           !.cursor = 0, !.before = rows, !.result = "none",
                                           !.written = << Written(<<export.count>>) >>]
               /\ package' = [package EXCEPT !.members["registry.json"] = Written(<<export.count>>)]
    BY <1>2 DEF StartExport
  <2>3. export.pc = "idle" /\ rows' = rows
    BY <1>2 DEF StartExport
  <2> QED BY <1>1, <2>1, <2>2, <2>3
<1>3. CASE OpenMember
  <2>1. PICK m : m = export.member
    OBVIOUS
  <2>2. PICK file : file = Written(<<>>)
    OBVIOUS
  <2>3. /\ export.pc = "opening" /\ rows' = rows
        /\ export' = [export EXCEPT !.pc = "reading", !.cursor = 0, !.written = Append(@, file)]
        /\ package' = [package EXCEPT !.members[Members[m]] = file]
    BY <1>3, <2>1, <2>2 DEF OpenMember
  <2>4. /\ m \in 2 .. 3 /\ export.before \subseteq rows /\ rows \subseteq Nat
        /\ export.written \in Seq(Files) /\ Len(export.written) = m - 1
        /\ \A i \in 2 .. (m - 1) : Whole(export.written[i], export.before)
    BY <2>1, <2>3 DEF ExportInv, ExportRuns
  <2>5. <<>> \in Seq(Nat) /\ <<>> \in Seq(rows) /\ DOMAIN <<>> = {}
    OBVIOUS
  <2>6. file \in Files /\ file.content = <<>> /\ file = Written(file.content)
    BY <2>2, <2>5, WrittenIsAFile
  <2>7. PICK written : written = Append(export.written, file)
    OBVIOUS
  <2>8. /\ written \in Seq(Files) /\ Len(written) = m /\ written[m] = file
        /\ \A i \in 2 .. (m - 1) : written[i] = export.written[i]
    BY <2>4, <2>6, <2>7
  <2>9. /\ DOMAIN export' = ExportFields /\ export'.count = export.count /\ export'.before = export.before
        /\ export'.written = written /\ export'.cursor = 0 /\ export'.member = m /\ export'.pc = "reading"
    BY <2>1, <2>3, <2>7 DEF ExportInv, ExportFields
  <2>10. InOrder(file.content)' /\ \A i \in 2 .. (m - 1) : Whole(written[i], export.before)'
    BY <2>3, <2>4, <2>5, <2>6, <2>8, <2>9 DEF Whole, InOrder
  <2>11. /\ \A i \in DOMAIN file.content : file.content[i] <= 0
         /\ \A id \in export.before : id <= 0 => id \in ToSet(file.content)
    <3>1. export.before \subseteq rows /\ rows \subseteq Nat /\ 0 \notin rows
      BY <2>4 DEF ExportInv
    <3>2. ASSUME NEW id \in export.before PROVE ~ (id <= 0)
      <4>1. id \in Nat /\ id # 0
        BY <3>1
      <4> QED BY <4>1
    <3> QED BY <2>5, <2>6, <3>2
  <2>12. m \in 2 .. 4 /\ m # 4
    BY <2>4
  <2>13. ExportRuns'
    BY <2>3, <2>4, <2>6, <2>8, <2>9, <2>10, <2>11, <2>12 DEF ExportRuns
  <2>14. /\ DOMAIN package' = {"members", "manifest"} /\ package'.manifest = package.manifest
         /\ package'.members = [n \in MemberSet |-> package'.members[n]]
    BY <2>3 DEF ExportInv
  <2>15. ManifestIsOfAWholeExport'
    BY <2>3, <2>14 DEF ExportInv, ManifestIsOfAWholeExport, Whole, InOrder
  <2> QED BY <2>3, <2>9, <2>13, <2>14, <2>15 DEF ExportInv
<1>4. CASE WriteManifest
  <2>0. PICK before : before = export.before
    OBVIOUS
  <2>1. PICK entries : entries = [m \in MemberSet |-> export.written[CHOOSE i \in DOMAIN Members : Members[i] = m]]
    OBVIOUS
  <2>2. /\ export.pc = "manifest" /\ rows' = rows /\ export' = Idle(export.count, "ok")
        /\ package' = [package EXCEPT !.manifest =
                         [present |-> TRUE, damaged |-> FALSE, before |-> before, entries |-> entries]]
    BY <1>4, <2>0, <2>1 DEF WriteManifest, Ended
  <2>3. \A i \in 2 .. 3 : Whole(export.written[i], before)
    <3>1. ExportRuns /\ export.pc = "manifest"
      BY <2>2 DEF ExportInv
    <3>2. export.member = 4 /\ \A i \in 2 .. (export.member - 1) : Whole(export.written[i], export.before)
      BY <3>1 DEF ExportRuns
    <3> QED BY <2>0, <3>2
  <2>4. ASSUME NEW m \in Streams PROVE Whole(entries[m], before)
    <3>1. DOMAIN Members = 1 .. 3 /\ Len(Members) = 3
      BY DEF Members
    <3>2. PICK j \in 2 .. 3 : Members[j] = m
      BY <3>1, <2>4 DEF Streams
    <3>3. \A i \in 1 .. 3 : Members[i] = Members[j] => i = j
      BY <3>2 DEF Members
    <3>4. (CHOOSE i \in DOMAIN Members : Members[i] = m) = j
      BY <3>1, <3>2, <3>3
    <3>5. m \in MemberSet
      BY <3>1, <3>2 DEF MemberSet
    <3> QED BY <2>1, <2>3, <3>4, <3>5
  <2>5. /\ DOMAIN package' = {"members", "manifest"} /\ package'.members = package.members
        /\ package'.manifest = [present |-> TRUE, damaged |-> FALSE, before |-> before, entries |-> entries]
    BY <2>2 DEF ExportInv
  <2>6. ManifestIsOfAWholeExport'
    <3>1. \A m \in Streams : Whole(entries[m], before)'
      BY <2>2, <2>4 DEF Whole, InOrder
    <3>2. package'.manifest.entries = entries /\ package'.manifest.before = before
      BY <2>5
    <3>3. entries = [m \in MemberSet |-> entries[m]]
      BY <2>1
    <3>4. package'.manifest.entries = [m \in MemberSet |-> (package'.manifest.entries)[m]]
      BY <3>2, <3>3, Zenon
    <3>5. \A m \in Streams : Whole((package.manifest.entries)[m], package.manifest.before)'
      BY <3>1, <3>2 DEF Whole
    <3> QED BY <3>4, <3>5 DEF ManifestIsOfAWholeExport
  <2>7. DOMAIN export' = ExportFields /\ export'.pc = "idle" /\ export'.count = export.count
    BY <2>2 DEF Idle, ExportFields
  <2>8. ExportRuns'
    BY <2>7 DEF ExportRuns
  <2> QED BY <2>2, <2>5, <2>6, <2>7, <2>8 DEF ExportInv
<1> QED BY <1>2, <1>3, <1>4

\* Each step of an export and its surroundings keeps what is known of it.
LEMMA ExportStep == ASSUME ExportInv, ExportNext PROVE ExportInv'
<1>1. CASE InsertRow
  <2>1. PICK id \in 1 .. MaxRow : rows' = rows \cup {id}
    BY <1>1 DEF InsertRow
  <2>2. export' = export /\ package' = package
    BY <1>1 DEF InsertRow
  <2>3. rows \subseteq rows' /\ rows' \subseteq Nat /\ 0 \notin rows'
    BY <2>1, EvidenceExportAssumption DEF ExportInv
  <2>4. \A content : InOrder(content) => InOrder(content)'
    <3>1. ASSUME NEW content, InOrder(content) PROVE content \in Seq(rows')
      BY <2>3, <3>1, Widened DEF InOrder
    <3> QED BY <3>1 DEF InOrder
  <2>5. \A file, before : Whole(file, before) => Whole(file, before)'
    BY <2>4 DEF Whole
  <2>6. ManifestIsOfAWholeExport'
    BY <2>2, <2>5 DEF ExportInv, ManifestIsOfAWholeExport
  <2>7. ExportRuns'
    <3>1. ExportRuns
      BY DEF ExportInv
    <3> QED BY <2>2, <2>3, <2>4, <2>5, <3>1 DEF ExportRuns
  <2> QED BY <2>2, <2>3, <2>6, <2>7 DEF ExportInv
<1>2. CASE StartExport \/ OpenMember \/ WriteManifest
  BY <1>2, ExportWrites
<1>3. CASE ReadPage
  BY <1>3, ExportReads
<1>4. CASE ExportFails
  <2>1. PICK code : export' = Idle(export.count, code) /\ package' = package /\ rows' = rows
    BY <1>4 DEF ExportFails, Ended
  <2> QED BY <2>1 DEF ExportInv, ExportFields, Idle, ExportRuns, ManifestIsOfAWholeExport, Whole, InOrder
<1>5. CASE Damage
  <2>1. export' = export /\ rows' = rows
    BY <1>5 DEF Damage
  <2>2. /\ DOMAIN package' = {"members", "manifest"}
        /\ package'.manifest.present = package.manifest.present
        /\ package'.manifest.entries = package.manifest.entries
        /\ package'.manifest.before = package.manifest.before
        /\ package'.members = [n \in MemberSet |-> package'.members[n]]
    <3>1. CASE package' = [package EXCEPT !.manifest.damaged = TRUE]
      <4>1. /\ DOMAIN package' = {"members", "manifest"} /\ package'.members = package.members
            /\ package'.manifest = [package.manifest EXCEPT !.damaged = TRUE]
        BY <3>1 DEF ExportInv
      <4>2. DOMAIN package.manifest = {"present", "entries", "damaged", "before"}
        BY DEF ExportInv
      <4>3. package.members = [n \in MemberSet |-> package.members[n]]
        BY Zenon DEF ExportInv
      <4>4. package'.members = [n \in MemberSet |-> package'.members[n]]
        BY <4>1, <4>3, Zenon
      <4> QED BY <4>1, <4>2, <4>4
    <3>2. CASE \E m, file : package' = [package EXCEPT !.members[m] = file]
      BY <3>2 DEF ExportInv
    <3>3. \/ package' = [package EXCEPT !.manifest.damaged = TRUE]
          \/ \E m, file : package' = [package EXCEPT !.members[m] = file]
      <4>1. ASSUME NEW m, NEW lost,
                   package' = [package EXCEPT !.members[m] = IF lost THEN None ELSE [@ EXCEPT !.damaged = TRUE]]
            PROVE  \E file : package' = [package EXCEPT !.members[m] = file]
        BY <4>1, Zenon
      <4> QED BY <1>5, <4>1 DEF Damage
    <3> QED BY <3>1, <3>2, <3>3
  <2>3. ExportRuns' /\ ManifestIsOfAWholeExport'
    <3>1. ExportRuns'
      BY <2>1 DEF ExportInv, ExportRuns, Whole, InOrder
    <3>2. ManifestIsOfAWholeExport'
      BY <2>1, <2>2 DEF ExportInv, ManifestIsOfAWholeExport, Whole, InOrder
    <3> QED BY <3>1, <3>2
  <2>4. DOMAIN package'.manifest = {"present", "entries", "damaged", "before"}
    BY <1>5 DEF Damage, ExportInv
  <2> QED BY <2>1, <2>2, <2>3, <2>4 DEF ExportInv
<1> QED BY <1>1, <1>2, <1>3, <1>4, <1>5 DEF ExportNext

(* -------------------------------- the tools -------------------------------- *)

ToolsInv == InstallInv /\ ExportInv /\ ReleaseInv /\ DrillInv /\ GuardsInv /\ CronInv

\* What does not move stays as it is known.
LEMMA ToolsRest ==
  /\ InstallInv /\ UNCHANGED installVars => InstallInv'
  /\ ExportInv /\ UNCHANGED exportVars => ExportInv'
  /\ ReleaseInv /\ UNCHANGED releaseVars => ReleaseInv'
  /\ DrillInv /\ UNCHANGED drillVars => DrillInv'
  /\ GuardsInv /\ UNCHANGED guardVars => GuardsInv'
  /\ CronInv /\ UNCHANGED cronVars => CronInv'
<1>1. InstallInv /\ UNCHANGED installVars => InstallInv'
  BY DEF installVars, InstallInv
<1>2. ExportInv /\ UNCHANGED exportVars => ExportInv'
  BY DEF exportVars, ExportInv, ExportRuns, ManifestIsOfAWholeExport, Whole, InOrder
<1>3. ReleaseInv /\ UNCHANGED releaseVars => ReleaseInv'
  BY DEF releaseVars, ReleaseInv
<1>4. DrillInv /\ UNCHANGED drillVars => DrillInv'
  BY DEF drillVars, DrillInv, DrillWorks, DrillEnds, DrillRefuses, DrillAgrees, DrillReportsAreTrue, Mine
<1>5. GuardsInv /\ UNCHANGED guardVars => GuardsInv'
  BY DEF guardVars, GuardsInv
<1>6. CronInv /\ UNCHANGED cronVars => CronInv'
  BY DEF cronVars, CronInv
<1> QED BY <1>1, <1>2, <1>3, <1>4, <1>5, <1>6

\* A step of one tool is a step of that tool and leaves the others alone.
LEMMA ToolsStep == ASSUME ToolsInv, [Next]_vars PROVE ToolsInv'
<1>1. \/ InstallNext \/ UNCHANGED installVars
  BY DEF Next, DatabaseNext, CallNext, ToolNext, vars, toolVars
<1>2. \/ ExportNext \/ UNCHANGED exportVars
  BY DEF Next, DatabaseNext, CallNext, ToolNext, vars, toolVars
<1>3. \/ ReleaseNext \/ UNCHANGED releaseVars
  BY DEF Next, DatabaseNext, CallNext, ToolNext, vars, toolVars
<1>4. \/ DrillNext \/ UNCHANGED drillVars
  BY DEF Next, DatabaseNext, CallNext, ToolNext, vars, toolVars
<1>5. \/ GuardsNext \/ UNCHANGED guardVars
  BY DEF Next, DatabaseNext, CallNext, ToolNext, vars, toolVars
<1>6. \/ CronNext \/ UNCHANGED cronVars
  BY DEF Next, DatabaseNext, CallNext, ToolNext, vars, toolVars
<1>7. InstallInv' /\ ExportInv'
  BY <1>1, <1>2, InstallStep, ExportStep, ToolsRest DEF ToolsInv
<1>8. ReleaseInv' /\ DrillInv'
  BY <1>3, <1>4, ReleaseStep, DrillStep, ToolsRest DEF ToolsInv
<1>9. GuardsInv' /\ CronInv'
  BY <1>5, <1>6, GuardsStep, CronStep, ToolsRest DEF ToolsInv
<1> QED BY <1>7, <1>8, <1>9 DEF ToolsInv

\* What is known of the tools is always so.
LEMMA ToolsAreKnown == Spec => []ToolsInv
<1>1. Init => ToolsInv
  BY InstallStarts, ExportStarts, ReleaseStarts, DrillStarts, GuardsStart, CronStarts DEF Init, ToolsInv
<1>2. ToolsInv /\ [Next]_vars => ToolsInv'
  BY ToolsStep
<1> QED BY <1>1, <1>2, PTL DEF Spec

\* The report of a restore drill (restore-drill.ts) says of the containers, the
\* backup and its checks what became of them, whichever command fails.
THEOREM DrillsReportTheTruth == Spec => []DrillReportsAreTrue
<1>1. ToolsInv => DrillReportsAreTrue
  BY DEF ToolsInv, DrillInv
<1> QED BY <1>1, ToolsAreKnown, PTL

\* An export that verifies (lib/export/verify.ts) holds whole pages of rows,
\* none skipped and none twice, though rows are inserted between the pages.
THEOREM ExportsAreWhole == Spec => []ExportIsWhole
<1>1. ToolsInv => ExportIsWhole
  BY ExportHolds DEF ToolsInv
<1> QED BY <1>1, ToolsAreKnown, PTL

\* A backup opens for as long as the overlap of keys lasts, and one that the
\* gate on backup evidence accepts is not one whose key has been retired
\* (restoreKeyResolution.ts, backupEvidenceGate.ts).
THEOREM BackupsAreRestorable == Spec => []BackupsStayRestorable
<1>1. ToolsInv => BackupsStayRestorable
  BY GuardsHold DEF ToolsInv
<1> QED BY <1>1, ToolsAreKnown, PTL

\* The scheduler's old secret is accepted until the deadline of its rotation
\* and not from then on (cronAuth.ts).
THEOREM RotationsAreBounded == Spec => []RotationIsBounded
<1>1. ToolsInv => RotationIsBounded
  BY CronHolds DEF ToolsInv
<1> QED BY <1>1, ToolsAreKnown, PTL

\* Installs called reproducible are what the lockfile asks for, both of them,
\* and installs that are so are called that (verify-install-reproducibility.ts).
THEOREM InstallsAreReproduced == Spec => []InstallIsReproduced
<1>1. ToolsInv => InstallIsReproduced
  BY InstallHolds DEF ToolsInv
<1> QED BY <1>1, ToolsAreKnown, PTL

\* A release that verifies (release-cli.ts) is of one generation, for the
\* lockfile that is checked out.
THEOREM ReleasesAreOfOneGeneration == Spec => []ReleaseIsOfOneGeneration
<1>1. ToolsInv => ReleaseIsOfOneGeneration
  BY ReleaseHolds DEF ToolsInv
<1> QED BY <1>1, ToolsAreKnown, PTL
===============================================================================
