---------------------------- MODULE DatabaseAccess -----------------------------
(***************************************************************************)
(* How a process comes to write to a database: src/instrumentation.node.ts *)
(* and lib/dbClient.ts open it, lib/config/environmentGuardDb.ts reads the *)
(* stamp the database carries, and scripts/stamp-database-environment.ts   *)
(* puts it there, run by operators whose runs may overlap.                 *)
(*                                                                         *)
(* Two kinds of writers: rate snapshots (lib/rates/snapshot.ts), scores    *)
(* (lib/reputation/repository.ts) and registry rows                        *)
(* (scripts/bootstrap-registry.ts) are written behind the verification of  *)
(* the stamp; suppressions (lib/scheduled/suppressionRepository.ts) are    *)
(* not, and neither are the rows the public API reads.                     *)
(***************************************************************************)
EXTENDS Configuration

CONSTANTS Stampers, Callers

VARIABLES
  database,    \* whether it is migrated, its stamp, of which environments evidence
               \* was written to it, and whether a process whose environment is
               \* not its stamp wrote suppressions to it
  stamping,    \* the runs of the stamp script
  process,     \* the process, up to serving
  calls        \* writers of evidence, each behind the one verification

accessVars == <<database, stamping, process, calls>>

NotStarted == [phase |-> "stopped", environment |-> "none", database |-> FALSE, channel |-> "none",
               bypass |-> FALSE, asked |-> {}, bound |-> FALSE, mustBeBound |-> FALSE,
               verification |-> "none"]

AccessInit ==
  /\ database = [migrated |-> FALSE, stamp |-> "none", writers |-> {}, strayed |-> FALSE]
  /\ stamping = [s \in Stampers |-> [pc |-> "start", requested |-> "none", answer |-> "none"]]
  /\ process = NotStarted
  /\ calls = [c \in Callers |-> "idle"]

\* The deployment creates the table, with its primary key.
Migrate ==
  /\ ~database.migrated
  /\ database' = [database EXCEPT !.migrated = TRUE]
  /\ UNCHANGED <<stamping, process, calls>>

(* ---------------------------- the stamp script ---------------------------- *)

Answered(s, answer) == [stamping EXCEPT ![s].pc = "end", ![s].answer = answer]

ReadExistingStamp(s) ==
  \E requested \in Environments :
    /\ stamping[s].pc = "start"
    /\ stamping' =
         CASE ~database.migrated -> Answered(s, "STAMP_FAILURE")
           [] database.migrated /\ database.stamp = "none" ->
                [stamping EXCEPT ![s].pc = "insert", ![s].requested = requested]
           [] OTHER ->
                [Answered(s, IF database.stamp = requested THEN "ALREADY_STAMPED" ELSE "STAMP_CONFLICT")
                   EXCEPT ![s].requested = requested]
    /\ UNCHANGED <<database, process, calls>>

\* Mutant: a stamp read as missing is put there whatever is there by now.
InsertStampAnyway(s) ==
  /\ stamping[s].pc = "insert"
  /\ database' = [database EXCEPT !.stamp = stamping[s].requested]
  /\ stamping' = Answered(s, "STAMPED")
  /\ UNCHANGED <<process, calls>>

\* A second row violates the primary key.
InsertStamp(s) ==
  /\ stamping[s].pc = "insert"
  /\ IF database.stamp = "none"
     THEN /\ database' = [database EXCEPT !.stamp = stamping[s].requested]
          /\ stamping' = Answered(s, "STAMPED")
     ELSE /\ stamping' = Answered(s, "STAMP_FAILURE")
          /\ UNCHANGED database
  /\ UNCHANGED <<process, calls>>

\* A connection that is lost, before or after the row is there.
StampFails(s) ==
  /\ stamping[s].pc \in {"start", "insert"}
  /\ stamping' = Answered(s, "STAMP_FAILURE")
  /\ \/ UNCHANGED database
     \/ /\ stamping[s].pc = "insert" /\ database.stamp = "none"
        /\ database' = [database EXCEPT !.stamp = stamping[s].requested]
  /\ UNCHANGED <<process, calls>>

(* -------------------------------- start-up -------------------------------- *)

\* assertRuntimeConfig; a process whose configuration is refused does not start.
Configure ==
  \E kind \in {"server", "script"}, config \in RuntimeConfigs :
    /\ process.phase = "stopped"
    /\ config.verdict = "ok"
    /\ process' = [NotStarted EXCEPT !.phase = IF kind = "server" THEN "fingerprint" ELSE "open",
                                     !.environment = config.environment,
                                     !.database = config.database]
    /\ UNCHANGED <<database, stamping, calls>>

\* Only a server is checked against what was released.
CheckFingerprint ==
  \E expected \in {"matching", "another", "missing"}, raw \in {"fail", "degrade", "warn", "unset"} :
    LET policy == FingerprintPolicy(raw, process.environment)
    IN  /\ process.phase = "fingerprint"
        /\ process' =
             IF VerifyFingerprint(expected, policy, process.environment) = "ok"
             THEN [process EXCEPT !.phase = "open", !.bound = expected = "matching",
                                                 !.mustBeBound = policy = "fail"]
             ELSE NotStarted
        /\ UNCHANGED <<database, stamping, calls>>

\* initializeDatabaseInstance; the policy is the one the server has applied
\* once already, to the same variables.
OpenDatabase ==
  /\ process.phase = "open"
  /\ \E tls \in TlsOutcomes[process.environment] :
       process' = IF process.database /\ tls.verdict = "ok"
                  THEN [process EXCEPT !.phase = "serving", !.channel = tls.channel,
                                       !.bypass = tls.bypass, !.asked = tls.asked]
                  ELSE NotStarted
  /\ UNCHANGED <<database, stamping, calls>>

Restart ==
  /\ process.phase = "serving"
  /\ process' = NotStarted
  /\ calls' = [c \in Callers |-> "idle"]
  /\ UNCHANGED <<database, stamping>>

(* ------------------------------ verification ------------------------------ *)

\* ensureDatabaseEnvironment: the first caller starts the verification, every
\* caller waits for the same promise.
Ensure(c) ==
  /\ process.phase = "serving" /\ calls[c] = "idle"
  /\ calls' = [calls EXCEPT ![c] = "waiting"]
  /\ process' = [process EXCEPT !.verification = IF @ = "none" THEN "pending" ELSE @]
  /\ UNCHANGED <<database, stamping>>

\* The stamp is read; a database that is not migrated is reported as such, or
\* with the code of the client where that hides the one of PostgreSQL.
VerifyStamp ==
  /\ process.phase = "serving" /\ process.verification = "pending"
  /\ \E verdict \in IF database.migrated
                    THEN {VerifyEnvironmentPairing(process.environment, database.stamp), "QUERY_FAILED"}
                    ELSE {"DATABASE_STAMP_MISSING", "QUERY_FAILED"} :
       process' = [process EXCEPT !.verification = verdict]
  /\ UNCHANGED <<database, stamping, calls>>

\* A writer of evidence goes on once the verification has passed.
Write(c) ==
  /\ calls[c] = "waiting" /\ process.verification = "ok"
  /\ calls' = [calls EXCEPT ![c] = "idle"]
  /\ database' = [database EXCEPT !.writers = @ \cup {process.environment}]
  /\ UNCHANGED <<stamping, process>>

Refuse(c) ==
  /\ calls[c] = "waiting" /\ process.verification \notin {"none", "pending", "ok"}
  /\ calls' = [calls EXCEPT ![c] = "idle"]
  /\ UNCHANGED <<database, stamping, process>>

\* The suppression repository takes the client as it is.
WriteSuppression ==
  /\ process.phase = "serving" /\ database.migrated
  /\ database' = [database EXCEPT !.strayed = @ \/ process.environment # database.stamp]
  /\ UNCHANGED <<stamping, process, calls>>

AccessNext ==
  \/ Migrate \/ Configure \/ CheckFingerprint \/ OpenDatabase \/ Restart \/ VerifyStamp
  \/ WriteSuppression
  \/ \E s \in Stampers : ReadExistingStamp(s) \/ InsertStamp(s) \/ StampFails(s)
  \/ \E c \in Callers : Ensure(c) \/ Write(c) \/ Refuse(c)

AccessSpec == AccessInit /\ [][AccessNext]_accessVars

(* ------------------------------- properties ------------------------------- *)

\* Evidence of different environments never meets.  Everyone who has ever
\* written a rate snapshot, a score or a registry row to the database was of the
\* environment it is stamped for now, so the stamp was there before the first of
\* them and has not changed since; of the runs of the stamp script that overlap
\* one at most has stamped it, and none tells its operator a stamp the database
\* does not carry.  Nothing of the kind holds of suppressions, see
\* WriteSuppression.
EnvironmentIsolation ==
  /\ database.writers \subseteq {database.stamp}
  /\ \A s \in Stampers :
       stamping[s].answer \in {"STAMPED", "ALREADY_STAMPED"} => database.stamp = stamping[s].requested
  /\ \A s, t \in Stampers :
       stamping[s].answer = "STAMPED" /\ stamping[t].answer = "STAMPED" => s = t

\* A production process that serves speaks verified TLS, whatever weaker or
\* stronger settings stand beside each other, unless the emergency bypass is
\* set; the bypass never turns encryption off, and a declared plaintext is
\* never spoken over.  A production server is the one that was released unless
\* its policy says it need not be.
ProductionIsAuthenticated ==
  process.phase = "serving" /\ process.environment = "production" =>
    /\ process.channel = "VERIFY_FULL" \/ (process.bypass /\ process.channel = "NO_VERIFY")
    /\ "DISABLED" \notin process.asked
    /\ "NO_VERIFY" \in process.asked => process.bypass
    /\ process.mustBeBound => process.bound

===============================================================================
