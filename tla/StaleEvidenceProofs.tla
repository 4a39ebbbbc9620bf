-------------------------- MODULE StaleEvidenceProofs --------------------------
(* Proofs about StaleEvidence: any number of requests, keys and snapshots, any *)
(* maximal age, and any mishaps.                                               *)
EXTENDS StaleEvidence, FiniteSetTheorems, TLAPS

\* A request has its fields, and a time.
Shaped(q) ==
  /\ q = [pc |-> q.pc, key |-> q.key, evaluatedAt |-> q.evaluatedAt, database |-> q.database,
          prior |-> q.prior, victims |-> q.victims, answer |-> q.answer,
          servedFrom |-> q.servedFrom]
  /\ q.evaluatedAt \in Nat

\* What a request has come to know: the database by its pc, and at its end an
\* answer that the database or told, the responses there have been, account for.
Accounted(q, told) ==
  /\ q.pc # "idle" => q.key \in Keys /\ q.answer = None
  /\ q.pc \in {"compare", "replace", "scan", "unlink"} => q.database = "ok"
  /\ q.pc \in {"compare", "replace"} => [key |-> q.key, at |-> q.evaluatedAt] \in told
  /\ q.pc = "restore" => q.database = "transient"
  /\ q.answer # None => (q.database = "ok" <=> q.answer = "fresh")
  /\ q.answer = "stale" =>
       /\ q.database = "transient"
       /\ [key |-> q.key, at |-> q.servedFrom] \in told
       /\ q.evaluatedAt \in q.servedFrom .. q.servedFrom + MaxAge - 1

\* An intact file holds a response there has been.
Genuine(k, file, told) ==
  file.intact => file.generatedAt \in Nat /\ [key |-> k, at |-> file.generatedAt] \in told

Accounts ==
  /\ clock \in Nat
  /\ request = [r \in Requests |-> request[r]]
  /\ files = [k \in Keys |-> files[k]]
  /\ \A r \in Requests : Shaped(request[r]) /\ Accounted(request[r], answered)
  /\ \A k \in Keys : Genuine(k, files[k], answered)

\* A step of one request, that adds to the responses and breaks no file.
LEMMA RequestStep ==
  ASSUME Accounts, NEW r \in Requests,
         request' = [t \in Requests |-> request'[t]],
         \A t \in Requests \ {r} : request'[t] = request[t],
         Shaped(request'[r]), Accounted(request'[r], answered'),
         clock' = clock, answered \subseteq answered',
         files' = [k \in Keys |-> files'[k]],
         \A k \in Keys : files'[k] = files[k] \/ Genuine(k, files'[k], answered')
  PROVE  Accounts'
<1>1. \A t \in Requests : Shaped(request'[t]) /\ Accounted(request'[t], answered')
  <2>1. \A p : Accounted(p, answered) => Accounted(p, answered')
    BY DEF Accounted
  <2> QED BY <2>1 DEF Accounts
<1>2. \A k \in Keys : Genuine(k, files'[k], answered')
  <2>1. \A k, f : Genuine(k, f, answered) => Genuine(k, f, answered')
    BY DEF Genuine
  <2> QED BY <2>1 DEF Accounts
<1> QED BY <1>1, <1>2 DEF Accounts

\* The fields of a request, its value named.
LEMMA Fields ==
  ASSUME Accounts, NEW r \in Requests
  PROVE  \E q : /\ q = request[r] /\ Accounted(q, answered) /\ q.evaluatedAt \in Nat
                /\ q = [pc |-> q.pc, key |-> q.key, evaluatedAt |-> q.evaluatedAt,
                        database |-> q.database, prior |-> q.prior, victims |-> q.victims,
                        answer |-> q.answer, servedFrom |-> q.servedFrom]
BY DEF Accounts, Shaped

\* An answer is given.
LEMMA AnswerStep ==
  ASSUME Accounts, NEW r \in Requests, NEW answer, Answer(r, answer),
         UNCHANGED <<clock, answered>>,
         files' = [k \in Keys |-> files'[k]],
         \A k \in Keys : files'[k] = files[k] \/ Genuine(k, files'[k], answered'),
         \/ answer = "error" /\ request[r].pc = "restore"
         \/ answer = "fresh" /\ request[r].pc \in {"compare", "replace", "scan", "unlink"}
  PROVE  Accounts'
<1>1. PICK q : /\ q = request[r] /\ Accounted(q, answered) /\ q.evaluatedAt \in Nat
               /\ q = [pc |-> q.pc, key |-> q.key, evaluatedAt |-> q.evaluatedAt,
                       database |-> q.database, prior |-> q.prior, victims |-> q.victims,
                       answer |-> q.answer, servedFrom |-> q.servedFrom]
  BY Fields
<1>2. request = [t \in Requests |-> request[t]]
  BY DEF Accounts
<1>3. /\ request' = [t \in Requests |-> request'[t]]
      /\ \A t \in Requests \ {r} : request'[t] = request[t]
      /\ request'[r] = [pc |-> "idle", key |-> q.key, evaluatedAt |-> q.evaluatedAt,
                        database |-> q.database, prior |-> NoFile, victims |-> {},
                        answer |-> answer, servedFrom |-> q.servedFrom]
  BY <1>1, <1>2 DEF Answer
<1>4. Shaped(request'[r])
  BY <1>1, <1>3 DEF Shaped
<1>5. Accounted(request'[r], answered')
  BY <1>1, <1>3 DEF Accounted
<1> QED BY <1>3, <1>4, <1>5, RequestStep


\* The database answers, or fails, and what follows from it.
LEMMA ReadStep ==
  ASSUME Accounts, NEW r \in Requests, Read(r) \/ ReadFindsNothing(r) \/ ReadFails(r)
  PROVE  Accounts'
<1>1. PICK q : /\ q = request[r] /\ Accounted(q, answered) /\ q.evaluatedAt \in Nat
               /\ q = [pc |-> q.pc, key |-> q.key, evaluatedAt |-> q.evaluatedAt,
                       database |-> q.database, prior |-> q.prior, victims |-> q.victims,
                       answer |-> q.answer, servedFrom |-> q.servedFrom]
  BY Fields
<1>2. request = [t \in Requests |-> request[t]] /\ files = [k \in Keys |-> files[k]]
  BY DEF Accounts
<1>3. request[r].pc = "read" /\ q.key \in Keys /\ clock' = clock /\ files' = files
  BY <1>1 DEF Read, ReadFindsNothing, ReadFails, At, Accounted
<1>4. CASE Read(r)
  <2>1. PICK pc \in {"compare", "idle"} :
          request' = [request EXCEPT
            ![r].pc = pc, ![r].database = "ok",
            ![r].answer = IF pc = "idle" THEN "fresh" ELSE None]
    BY <1>4 DEF Read
  <2>2. answered' = answered \cup {[key |-> q.key, at |-> q.evaluatedAt]}
    BY <1>1, <1>4 DEF Read
  <2> DEFINE answer == IF pc = "idle" THEN "fresh" ELSE None
  <2>3. /\ request' = [t \in Requests |-> request'[t]]
        /\ \A t \in Requests \ {r} : request'[t] = request[t]
        /\ request'[r] = [pc |-> pc, key |-> q.key, evaluatedAt |-> q.evaluatedAt,
                          database |-> "ok", prior |-> q.prior, victims |-> q.victims,
                          answer |-> answer, servedFrom |-> q.servedFrom]
    BY <1>1, <1>2, <2>1
  <2>4. Shaped(request'[r]) /\ Accounted(request'[r], answered')
    BY <1>1, <1>3, <2>2, <2>3, NoneAssumption DEF Shaped, Accounted, Answers
  <2> QED BY <1>2, <1>3, <2>2, <2>3, <2>4, RequestStep
<1>5. CASE ReadFindsNothing(r) \/ ReadFails(r)
  <2>1. /\ q.answer = None /\ answered' = answered
        /\ request' = [t \in Requests |-> request'[t]]
        /\ \A t \in Requests \ {r} : request'[t] = request[t]
    BY <1>1, <1>2, <1>3, <1>5 DEF ReadFindsNothing, ReadFails, Accounted
  <2>2. ASSUME NEW pc, NEW database, NEW answer,
               request'[r] = [pc |-> pc, key |-> q.key, evaluatedAt |-> q.evaluatedAt,
                              database |-> database, prior |-> q.prior, victims |-> q.victims,
                              answer |-> answer, servedFrom |-> q.servedFrom],
               \/ pc = "idle" /\ database \in {"missing", "failed"} /\ answer \in {"not_found", "error"}
               \/ pc = "restore" /\ database = "transient" /\ answer = None
        PROVE  Accounts'
    <3>1. Shaped(request'[r])
      BY <1>1, <2>2 DEF Shaped
    <3>2. Accounted(request'[r], answered')
      BY <1>1, <1>3, <2>1, <2>2, NoneAssumption DEF Accounted, Answers
    <3> QED BY <1>2, <1>3, <2>1, <3>1, <3>2, RequestStep
  <2>3. CASE request' = [request EXCEPT ![r].pc = "idle", ![r].database = "missing",
                                        ![r].answer = "not_found"]
    <3>1. request'[r] = [pc |-> "idle", key |-> q.key, evaluatedAt |-> q.evaluatedAt,
                         database |-> "missing", prior |-> q.prior, victims |-> q.victims,
                         answer |-> "not_found", servedFrom |-> q.servedFrom]
      BY <1>1, <1>2, <2>3
    <3> QED BY <2>2, <3>1
  <2>4. CASE request' = [request EXCEPT ![r].pc = "restore", ![r].database = "transient"]
    <3>1. request'[r] = [pc |-> "restore", key |-> q.key, evaluatedAt |-> q.evaluatedAt,
                         database |-> "transient", prior |-> q.prior, victims |-> q.victims,
                         answer |-> None, servedFrom |-> q.servedFrom]
      BY <1>1, <1>2, <2>1, <2>4
    <3> QED BY <2>2, <3>1
  <2>5. CASE request' = [request EXCEPT ![r].pc = "idle", ![r].database = "failed",
                                        ![r].answer = "error"]
    <3>1. request'[r] = [pc |-> "idle", key |-> q.key, evaluatedAt |-> q.evaluatedAt,
                         database |-> "failed", prior |-> q.prior, victims |-> q.victims,
                         answer |-> "error", servedFrom |-> q.servedFrom]
      BY <1>1, <1>2, <2>5
    <3> QED BY <2>2, <3>1
  <2> QED BY <1>5, <2>3, <2>4, <2>5 DEF ReadFindsNothing, ReadFails
<1> QED BY <1>4, <1>5

\* Comparing, replacing and pruning.
LEMMA WriteStep ==
  ASSUME Accounts, NEW r \in Requests,
         Compare(r) \/ Replace(r) \/ WriteFails(r) \/ Scan(r) \/ PruneFails(r)
  PROVE  Accounts'
<1>1. PICK q : /\ q = request[r] /\ Accounted(q, answered) /\ q.evaluatedAt \in Nat
               /\ q = [pc |-> q.pc, key |-> q.key, evaluatedAt |-> q.evaluatedAt,
                       database |-> q.database, prior |-> q.prior, victims |-> q.victims,
                       answer |-> q.answer, servedFrom |-> q.servedFrom]
  BY Fields
<1>2. request = [t \in Requests |-> request[t]] /\ files = [k \in Keys |-> files[k]]
  BY DEF Accounts
<1>3. clock' = clock /\ answered' = answered
  BY DEF Compare, Replace, WriteFails, Scan, PruneFails
<1>4. ASSUME NEW pc, NEW prior, NEW victims,
             request' = [t \in Requests |-> request'[t]],
             \A t \in Requests \ {r} : request'[t] = request[t],
             request'[r] = [pc |-> pc, key |-> q.key, evaluatedAt |-> q.evaluatedAt,
                            database |-> q.database, prior |-> prior, victims |-> victims,
                            answer |-> q.answer, servedFrom |-> q.servedFrom],
             \/ q.pc = "compare" /\ pc = "replace"
             \/ q.pc \in {"replace", "scan"} /\ pc \in {"scan", "unlink"},
             files' = [k \in Keys |-> files'[k]],
             \A k \in Keys : files'[k] = files[k] \/ Genuine(k, files'[k], answered')
      PROVE  Accounts'
  <2>1. Shaped(request'[r])
    BY <1>1, <1>4 DEF Shaped
  <2>2. Accounted(request'[r], answered')
    BY <1>1, <1>3, <1>4 DEF Accounted
  <2> QED BY <1>3, <1>4, <2>1, <2>2, RequestStep
<1>5. CASE Compare(r)
  <2>1. q.pc = "compare" /\ files' = files
    BY <1>1, <1>5 DEF Compare, At
  <2>2. CASE Answer(r, "fresh")
    BY <1>1, <1>2, <1>3, <2>1, <2>2, AnswerStep
  <2>3. CASE request' = [request EXCEPT ![r].pc = "replace", ![r].prior = files[request[r].key]]
    <3>1. /\ request' = [t \in Requests |-> request'[t]]
          /\ \A t \in Requests \ {r} : request'[t] = request[t]
          /\ request'[r] = [pc |-> "replace", key |-> q.key, evaluatedAt |-> q.evaluatedAt,
                            database |-> q.database, prior |-> files[request[r].key], victims |-> q.victims,
                            answer |-> q.answer, servedFrom |-> q.servedFrom]
      BY <1>1, <1>2, <2>3
    <3> QED BY <1>2, <1>4, <2>1, <3>1
  <2> QED BY <1>5, <2>2, <2>3 DEF Compare
<1>6. CASE Replace(r)
  <2>1. /\ q.pc = "replace" /\ q.key \in Keys
        /\ [key |-> q.key, at |-> q.evaluatedAt] \in answered
    BY <1>1, <1>6 DEF Replace, At, Accounted
  <2>2. files' = [files EXCEPT ![q.key] = [generatedAt |-> q.evaluatedAt, modifiedAt |-> clock,
                                           intact |-> TRUE]]
    BY <1>1, <1>6 DEF Replace
  <2>3. /\ files' = [k \in Keys |-> files'[k]]
        /\ \A k \in Keys \ {q.key} : files'[k] = files[k]
        /\ files'[q.key] = [generatedAt |-> q.evaluatedAt, modifiedAt |-> clock, intact |-> TRUE]
    BY <1>2, <2>1, <2>2
  <2>4. Genuine(q.key, files'[q.key], answered')
    BY <1>1, <1>3, <2>1, <2>3 DEF Genuine
  <2>5. request' = [request EXCEPT ![r].pc = "scan"]
    BY <1>6 DEF Replace, Goto
  <2>6. /\ request' = [t \in Requests |-> request'[t]]
        /\ \A t \in Requests \ {r} : request'[t] = request[t]
        /\ request'[r] = [pc |-> "scan", key |-> q.key, evaluatedAt |-> q.evaluatedAt,
                          database |-> q.database, prior |-> q.prior, victims |-> q.victims,
                          answer |-> q.answer, servedFrom |-> q.servedFrom]
    BY <1>1, <1>2, <2>5
  <2> QED BY <1>4, <2>1, <2>3, <2>4, <2>6
<1>7. CASE WriteFails(r)
  <2>1. Answer(r, "fresh") /\ request[r].pc \in {"compare", "replace"} /\ files' = files
    BY <1>7 DEF WriteFails, At
  <2> QED BY <1>2, <1>3, <2>1, AnswerStep
<1>8. CASE Scan(r)
  <2>1. q.pc = "scan" /\ files' = files
    BY <1>1, <1>8 DEF Scan, At
  <2>2. CASE Answer(r, "fresh")
    BY <1>1, <1>2, <1>3, <2>1, <2>2, AnswerStep
  <2>3. CASE \E v : request' = [request EXCEPT ![r].pc = "unlink", ![r].victims = v]
    <3> PICK v : request' = [request EXCEPT ![r].pc = "unlink", ![r].victims = v]
      BY <2>3
    <3>1. /\ request' = [t \in Requests |-> request'[t]]
          /\ \A t \in Requests \ {r} : request'[t] = request[t]
          /\ request'[r] = [pc |-> "unlink", key |-> q.key, evaluatedAt |-> q.evaluatedAt,
                            database |-> q.database, prior |-> q.prior, victims |-> v,
                            answer |-> q.answer, servedFrom |-> q.servedFrom]
      BY <1>1, <1>2
    <3> QED BY <1>2, <1>4, <2>1, <3>1
  <2> QED BY <1>8, <2>2, <2>3 DEF Scan
<1>9. CASE PruneFails(r)
  <2>1. Answer(r, "fresh") /\ request[r].pc \in {"scan", "unlink"} /\ files' = files
    BY <1>9 DEF PruneFails, At
  <2> QED BY <1>2, <1>3, <2>1, AnswerStep
<1> QED BY <1>5, <1>6, <1>7, <1>8, <1>9

\* A file is removed by its path, whatever it holds.
LEMMA UnlinkStep ==
  ASSUME Accounts, NEW r \in Requests, NEW k \in Keys, Unlink(r, k)
  PROVE  Accounts'
<1>1. PICK q : /\ q = request[r] /\ Accounted(q, answered) /\ q.evaluatedAt \in Nat
               /\ q = [pc |-> q.pc, key |-> q.key, evaluatedAt |-> q.evaluatedAt,
                       database |-> q.database, prior |-> q.prior, victims |-> q.victims,
                       answer |-> q.answer, servedFrom |-> q.servedFrom]
  BY Fields
<1>2. request = [t \in Requests |-> request[t]] /\ files = [j \in Keys |-> files[j]]
  BY DEF Accounts
<1>3. q.pc = "unlink" /\ clock' = clock /\ answered' = answered
  BY <1>1 DEF Unlink, At
<1>4. /\ files' = [j \in Keys |-> files'[j]]
      /\ \A j \in Keys : files'[j] = files[j] \/ Genuine(j, files'[j], answered')
  <2>1. files' = [files EXCEPT ![k] = NoFile]
    BY DEF Unlink
  <2>2. Genuine(k, NoFile, answered')
    BY DEF Genuine, NoFile
  <2> QED BY <1>2, <2>1, <2>2
<1>5. CASE Answer(r, "fresh")
  BY <1>1, <1>3, <1>4, <1>5, AnswerStep
<1>6. CASE request' = [request EXCEPT ![r].victims = @ \ {k}]
  <2>1. PICK v : v = request[r].victims \ {k}
    OBVIOUS
  <2>2. request' = [request EXCEPT ![r].victims = v]
    BY <1>6, <2>1
  <2>3. /\ request' = [t \in Requests |-> request'[t]]
        /\ \A t \in Requests \ {r} : request'[t] = request[t]
        /\ request'[r] = [pc |-> q.pc, key |-> q.key, evaluatedAt |-> q.evaluatedAt,
                          database |-> q.database, prior |-> q.prior, victims |-> v,
                          answer |-> q.answer, servedFrom |-> q.servedFrom]
    BY <1>1, <1>2, <2>2
  <2>4. Shaped(request'[r])
    BY <1>1, <2>3 DEF Shaped
  <2>5. Accounted(request'[r], answered')
    BY <1>1, <1>3, <2>3 DEF Accounted
  <2> QED BY <1>3, <1>4, <2>3, <2>4, <2>5, RequestStep
<1> QED BY <1>5, <1>6 DEF Unlink

\* Only what is intact and recent is served in place of the database.
LEMMA RestoreStep ==
  ASSUME Accounts, NEW r \in Requests, Restore(r) \/ RestoreFails(r)
  PROVE  Accounts'
<1>1. PICK q : /\ q = request[r] /\ Accounted(q, answered) /\ q.evaluatedAt \in Nat
               /\ q = [pc |-> q.pc, key |-> q.key, evaluatedAt |-> q.evaluatedAt,
                       database |-> q.database, prior |-> q.prior, victims |-> q.victims,
                       answer |-> q.answer, servedFrom |-> q.servedFrom]
  BY Fields
<1>2. request = [t \in Requests |-> request[t]] /\ files = [k \in Keys |-> files[k]]
  BY DEF Accounts
<1>3. /\ request[r].pc = "restore" /\ q.key \in Keys /\ q.database = "transient"
      /\ clock' = clock /\ answered' = answered /\ files' = files
  BY <1>1 DEF Restore, RestoreFails, At, Accounted
<1>4. CASE Answer(r, "error")
  BY <1>2, <1>3, <1>4, AnswerStep
<1>5. CASE /\ Restorable(files[q.key], q.evaluatedAt)
           /\ request' = [request EXCEPT ![r].pc = "idle", ![r].answer = "stale",
                                         ![r].servedFrom = files[q.key].generatedAt]
  <2>1. PICK at : at = files[q.key].generatedAt
    OBVIOUS
  <2>2. /\ request' = [t \in Requests |-> request'[t]]
        /\ \A t \in Requests \ {r} : request'[t] = request[t]
        /\ request'[r] = [pc |-> "idle", key |-> q.key, evaluatedAt |-> q.evaluatedAt,
                          database |-> q.database, prior |-> q.prior, victims |-> q.victims,
                          answer |-> "stale", servedFrom |-> at]
    BY <1>1, <1>2, <1>5, <2>1
  <2>3. Genuine(q.key, files[q.key], answered)
    BY <1>3 DEF Accounts
  <2>4. /\ at \in Nat /\ [key |-> q.key, at |-> at] \in answered
        /\ at <= q.evaluatedAt /\ q.evaluatedAt < at + MaxAge
    BY <1>5, <2>1, <2>3 DEF Restorable, Genuine
  <2>5. q.evaluatedAt \in at .. at + MaxAge - 1
    BY <1>1, <2>4, BoundAssumption
  <2>6. Shaped(request'[r])
    BY <1>1, <2>2 DEF Shaped
  <2>7. Accounted(request'[r], answered')
    BY <1>1, <1>3, <2>2, <2>4, <2>5 DEF Accounted
  <2> QED BY <1>2, <1>3, <2>2, <2>6, <2>7, RequestStep
<1> QED BY <1>1, <1>4, <1>5 DEF Restore, RestoreFails

\* A request begins, or its process dies.
LEMMA FreshStep ==
  ASSUME Accounts, NEW r \in Requests, Crash(r) \/ \E k \in Keys : Begin(r, k)
  PROVE  Accounts'
<1>1. /\ request = [t \in Requests |-> request[t]] /\ files = [k \in Keys |-> files[k]]
      /\ clock \in Nat /\ clock' = clock /\ answered' = answered /\ files' = files
  BY DEF Accounts, Crash, Begin
<1>2. CASE Crash(r)
  <2>1. /\ request' = [t \in Requests |-> request'[t]]
        /\ \A t \in Requests \ {r} : request'[t] = request[t]
        /\ request'[r] = Idle
    BY <1>1, <1>2 DEF Crash
  <2>2. Shaped(Idle) /\ Accounted(Idle, answered)
    BY NoneAssumption DEF Shaped, Accounted, Idle, Answers
  <2> QED BY <1>1, <2>1, <2>2, RequestStep
<1>3. CASE \E k \in Keys : Begin(r, k)
  <2>1. PICK k \in Keys : request' = [request EXCEPT ![r] =
          [Idle EXCEPT !.pc = "read", !.key = k, !.evaluatedAt = clock]]
    BY <1>3 DEF Begin
  <2>2. /\ request' = [t \in Requests |-> request'[t]]
        /\ \A t \in Requests \ {r} : request'[t] = request[t]
        /\ request'[r] = [pc |-> "read", key |-> k, evaluatedAt |-> clock, database |-> None,
                          prior |-> NoFile, victims |-> {}, answer |-> None, servedFrom |-> 0]
    BY <1>1, <2>1 DEF Idle
  <2>3. Shaped(request'[r]) /\ Accounted(request'[r], answered)
    BY <1>1, <2>2, NoneAssumption DEF Shaped, Accounted, Answers
  <2> QED BY <1>1, <2>2, <2>3, RequestStep
<1> QED BY <1>2, <1>3

\* What the requests hold is accounted for, and so is what the files hold.
THEOREM EverythingIsAccountedFor == Spec => []Accounts
<1>1. Init => Accounts
  <2>1. \A told : Shaped(Idle) /\ Accounted(Idle, told)
    BY NoneAssumption DEF Shaped, Accounted, Idle, Answers
  <2>2. \A k, told : Genuine(k, NoFile, told)
    BY DEF Genuine, NoFile
  <2> QED BY <2>1, <2>2 DEF Init, Accounts
<1>2. Accounts /\ [Next]_vars => Accounts'
  <2> SUFFICES ASSUME Accounts, [Next]_vars PROVE Accounts'
    OBVIOUS
  <2>1. CASE UNCHANGED <<files, request, answered>> /\ clock' \in Nat
    BY <2>1 DEF Accounts
  <2>2. clock \in Nat
    BY DEF Accounts
  <2>3. CASE UNCHANGED vars
    BY <2>1, <2>2, <2>3 DEF vars
  <2>4. CASE Tick
    BY <2>1, <2>2, <2>4 DEF Tick
  <2>5. CASE \E r \in Requests : Serve(r) \/ Crash(r)
    BY <2>5, ReadStep, WriteStep, UnlinkStep, RestoreStep, FreshStep DEF Serve
  <2>6. CASE \E k \in Keys : Damage(k)
    <3>1. PICK k \in Keys, t \in Time : files' = [files EXCEPT ![k] =
            [generatedAt |-> t, modifiedAt |-> clock, intact |-> FALSE]]
      BY <2>6 DEF Damage
    <3>2. UNCHANGED <<clock, request, answered>> /\ files = [j \in Keys |-> files[j]]
      BY <2>6 DEF Damage, Accounts
    <3>3. /\ files' = [j \in Keys |-> files'[j]]
          /\ \A j \in Keys \ {k} : files'[j] = files[j]
          /\ files'[k] = [generatedAt |-> t, modifiedAt |-> clock, intact |-> FALSE]
      BY <3>1, <3>2
    <3>4. Genuine(k, files'[k], answered)
      BY <3>3 DEF Genuine
    <3> QED BY <3>2, <3>3, <3>4 DEF Accounts
  <2> QED BY <2>3, <2>4, <2>5, <2>6 DEF Next
<1> QED BY <1>1, <1>2, PTL DEF Spec

\* What is served in place of the database was once its answer, and not long ago
\* (staleEvidence.ts): for any number of requests and keys and any age, whatever
\* is renamed, pruned, damaged or cut short meanwhile.
THEOREM StaleIsEvidence == Spec => []StaleAnswersAreEvidence
<1>1. Accounts => StaleAnswersAreEvidence
  BY DEF Accounts, Accounted, StaleAnswersAreEvidence
<1> QED BY <1>1, EverythingIsAccountedFor, PTL

\* The storage never decides about an answer of the database (rates.ts,
\* rateHistory.ts, reputation.ts): for any number of requests.
THEOREM DatabaseDecides == Spec => []DatabaseIsAuthoritative
<1>1. Accounts => DatabaseIsAuthoritative
  BY DEF Accounts, Accounted, DatabaseIsAuthoritative
<1> QED BY <1>1, EverythingIsAccountedFor, PTL

(* ------------------------------ moving forward ----------------------------- *)

\* What a request has compared with is older than what it brings.
Overtakes(q) == q.pc = "replace" /\ q.prior.intact => q.prior.generatedAt < q.evaluatedAt

WritersOvertake == \A r \in Requests : Overtakes(request[r])

\* Only Compare hands a request its prior file, and keeps it from an older one.
LEMMA OvertakeStep ==
  ASSUME Accounts, WritersOvertake, [Next]_vars
  PROVE  WritersOvertake'
<1>1. CASE UNCHANGED request
  BY <1>1 DEF WritersOvertake
<1>2. ASSUME NEW r \in Requests,
             \A t \in Requests \ {r} : request'[t] = request[t], Overtakes(request'[r])
      PROVE  WritersOvertake'
  BY <1>2 DEF WritersOvertake
<1>3. request = [t \in Requests |-> request[t]]
  BY DEF Accounts
<1>4. ASSUME NEW r \in Requests, Serve(r) \/ Crash(r)
      PROVE  WritersOvertake'
  <2>1. PICK q : /\ q = request[r] /\ Accounted(q, answered) /\ q.evaluatedAt \in Nat
                 /\ q = [pc |-> q.pc, key |-> q.key, evaluatedAt |-> q.evaluatedAt,
                         database |-> q.database, prior |-> q.prior, victims |-> q.victims,
                         answer |-> q.answer, servedFrom |-> q.servedFrom]
    BY Fields
  <2>2. ASSUME NEW answer, Answer(r, answer) PROVE WritersOvertake'
    <3>1. /\ \A t \in Requests \ {r} : request'[t] = request[t]
          /\ request'[r].pc = "idle"
      BY <1>3, <2>1, <2>2 DEF Answer
    <3> QED BY <1>2, <3>1 DEF Overtakes
  <2>3. CASE Compare(r)
    <3> DEFINE file == files[request[r].key]
    <3>1. CASE file.intact /\ file.generatedAt >= request[r].evaluatedAt
      BY <2>2, <2>3, <3>1 DEF Compare
    <3>2. CASE ~(file.intact /\ file.generatedAt >= request[r].evaluatedAt)
      <4>1. request' = [request EXCEPT ![r].pc = "replace", ![r].prior = file]
        BY <2>3, <3>2 DEF Compare
      <4>2. q.key \in Keys
        BY <2>1, <2>3 DEF Compare, At, Accounted
      <4>3. file.intact => file.generatedAt \in Nat
        BY <2>1, <4>2 DEF Accounts, Genuine
      <4>4. file.intact => file.generatedAt < q.evaluatedAt
        BY <2>1, <3>2, <4>3
      <4> HIDE DEF file
      <4>5. /\ \A t \in Requests \ {r} : request'[t] = request[t]
            /\ request'[r] = [pc |-> "replace", key |-> q.key, evaluatedAt |-> q.evaluatedAt,
                              database |-> q.database, prior |-> file, victims |-> q.victims,
                              answer |-> q.answer, servedFrom |-> q.servedFrom]
        BY <1>3, <2>1, <4>1
      <4> QED BY <1>2, <4>4, <4>5 DEF Overtakes
    <3> QED BY <3>1, <3>2
  <2>4. ASSUME NEW p, p.pc # "replace", request' = [request EXCEPT ![r] = p]
        PROVE  WritersOvertake'
    <3>1. (\A t \in Requests \ {r} : request'[t] = request[t]) /\ request'[r] = p
      BY <1>3, <2>4
    <3> QED BY <1>2, <2>4, <3>1 DEF Overtakes
  <2>5. CASE Crash(r)
    BY <2>4, <2>5 DEF Crash, Idle
  <2>6. CASE \E k \in Keys : Begin(r, k)
    BY <2>4, <2>6 DEF Begin, Idle
  <2>7. CASE Read(r) \/ ReadFindsNothing(r) \/ ReadFails(r) \/ Replace(r)
    <3>1. (\A t \in Requests \ {r} : request'[t] = request[t]) /\ request'[r].pc # "replace"
      BY <1>3, <2>1, <2>7 DEF Read, ReadFindsNothing, ReadFails, Replace, Goto
    <3> QED BY <1>2, <3>1 DEF Overtakes
  <2>8. CASE WriteFails(r) \/ PruneFails(r) \/ RestoreFails(r)
    BY <2>2, <2>8 DEF WriteFails, PruneFails, RestoreFails
  <2>9. CASE Scan(r)
    <3>1. CASE Answer(r, "fresh")
      BY <2>2, <3>1
    <3>2. CASE \E v : request' = [request EXCEPT ![r].pc = "unlink", ![r].victims = v]
      <4>1. (\A t \in Requests \ {r} : request'[t] = request[t]) /\ request'[r].pc # "replace"
        BY <1>3, <2>1, <3>2
      <4> QED BY <1>2, <4>1 DEF Overtakes
    <3> QED BY <2>9, <3>1, <3>2 DEF Scan
  <2>10. CASE \E k \in Keys : Unlink(r, k)
    <3>1. PICK k \in Keys : Unlink(r, k)
      BY <2>10
    <3>2. CASE Answer(r, "fresh")
      BY <2>2, <3>2
    <3>3. CASE request' = [request EXCEPT ![r].victims = @ \ {k}]
      <4>1. (\A t \in Requests \ {r} : request'[t] = request[t]) /\ request'[r].pc = q.pc
        BY <1>3, <2>1, <3>3
      <4>2. q.pc = "unlink"
        BY <2>1, <3>1 DEF Unlink, At
      <4> QED BY <1>2, <4>1, <4>2 DEF Overtakes
    <3> QED BY <3>1, <3>2, <3>3 DEF Unlink
  <2>11. CASE Restore(r)
    <3>1. CASE Answer(r, "error")
      BY <2>2, <3>1
    <3>2. CASE \E at : request' = [request EXCEPT ![r].pc = "idle", ![r].answer = "stale",
                                                  ![r].servedFrom = at]
      <4>1. (\A t \in Requests \ {r} : request'[t] = request[t]) /\ request'[r].pc # "replace"
        BY <1>3, <2>1, <3>2
      <4> QED BY <1>2, <4>1 DEF Overtakes
    <3> QED BY <2>11, <3>1, <3>2 DEF Restore
  <2> QED BY <1>4, <2>3, <2>5, <2>6, <2>7, <2>8, <2>9, <2>10, <2>11 DEF Serve
<1> QED BY <1>1, <1>4 DEF Next, Tick, Damage, vars

\* A writer that replaces the file it compared with moves its key forward
\* (staleEvidence.ts:96-114), however many write at once and whatever is damaged.
THEOREM WritersMoveForward == Spec => CurrentWriterMovesForward
<1> DEFINE Inv == Accounts /\ WritersOvertake
           Forward == \A r \in Requests :
                        LET k == request[r].key IN
                        (Replace(r) /\ files[k] = request[r].prior /\ files[k].intact) =>
                          files[k].generatedAt < files'[k].generatedAt
<1>1. Spec => []WritersOvertake
  <2>1. Init => WritersOvertake
    BY DEF Init, Idle, WritersOvertake, Overtakes
  <2>2. Accounts /\ WritersOvertake /\ [Next]_vars => WritersOvertake'
    BY OvertakeStep
  <2> QED BY <2>1, <2>2, EverythingIsAccountedFor, PTL DEF Spec
<1>2. Inv => Forward
  <2> SUFFICES ASSUME Inv, NEW r \in Requests, Replace(r),
                      files[request[r].key] = request[r].prior, files[request[r].key].intact
               PROVE  files[request[r].key].generatedAt < files'[request[r].key].generatedAt
    OBVIOUS
  <2>1. request[r].pc = "replace" /\ request[r].key \in Keys
    BY DEF Replace, At, Accounts, Accounted
  <2>2. request[r].prior.generatedAt < request[r].evaluatedAt
    BY <2>1 DEF WritersOvertake, Overtakes
  <2>3. files'[request[r].key].generatedAt = request[r].evaluatedAt
    BY <2>1 DEF Replace, Accounts
  <2> QED BY <2>2, <2>3
<1>3. Inv /\ [Next]_vars => [Forward]_vars
  BY <1>2
<1> HIDE DEF Inv, Forward
<1>4. Spec => [][Forward]_vars
  <2>1. Spec => []Inv
    BY <1>1, EverythingIsAccountedFor, PTL DEF Inv
  <2> QED BY <1>3, <2>1, PTL DEF Spec
<1> QED BY <1>4 DEF CurrentWriterMovesForward, Forward

(* ------------------------------- the bound --------------------------------- *)

Pruners == {r \in Requests : At(r, "scan") \/ At(r, "unlink")}
Unlinkers == {r \in Requests : At(r, "unlink")}

\* The files the requests of U will unlink.
Doomed(U) == {k \in Keys : \E r \in U : k \in request[r].victims}

\* Whichever of the prunes under way one looks beyond, no more stays than the
\* snapshots allowed and one file for each of the others.  (Two prunes may doom
\* one file: to count each prune's own files would count it twice.)
Bounded ==
  /\ IsFiniteSet(Stored) /\ IsFiniteSet(Pruners) /\ unpruned \in Nat
  /\ \A U \in SUBSET Unlinkers :
       Cardinality(Stored \ Doomed(U)) <= MaxSnapshots + unpruned + Cardinality(Pruners \ U)

\* A set that has lost elements.
LEMMA Fewer ==
  ASSUME NEW S, NEW T, IsFiniteSet(S), T \subseteq S
  PROVE  /\ IsFiniteSet(T)
         /\ Cardinality(T) \in Nat /\ Cardinality(S) \in Nat
         /\ Cardinality(T) <= Cardinality(S)
BY FS_Subset, FS_CardinalityType

\* A set that has gained one element at most.
LEMMA OneMore ==
  ASSUME NEW S, NEW T, NEW x, IsFiniteSet(S), T \subseteq S \cup {x}
  PROVE  /\ IsFiniteSet(T)
         /\ Cardinality(T) \in Nat /\ Cardinality(S) \in Nat
         /\ Cardinality(T) <= Cardinality(S) + 1
<1>1. /\ IsFiniteSet(S \cup {x})
      /\ Cardinality(S \cup {x}) = IF x \in S THEN Cardinality(S) ELSE Cardinality(S) + 1
  BY FS_AddElement
<1>2. Cardinality(S \cup {x}) \in Nat /\ Cardinality(S) \in Nat
  BY <1>1, FS_CardinalityType
<1>3. IsFiniteSet(T) /\ Cardinality(T) \in Nat /\ Cardinality(T) <= Cardinality(S \cup {x})
  BY <1>1, Fewer
<1> QED BY <1>1, <1>2, <1>3

\* A set that has gained an element it did not have.
LEMMA ExactlyOneMore ==
  ASSUME NEW S, NEW x, IsFiniteSet(S), x \notin S
  PROVE  /\ IsFiniteSet(S \cup {x})
         /\ Cardinality(S) \in Nat
         /\ Cardinality(S \cup {x}) = Cardinality(S) + 1
BY FS_AddElement, FS_CardinalityType

\* A request goes on outside of its prune, and no file is added.
LEMMA QuietKeepsBound ==
  ASSUME Bounded, Pruners' = Pruners, Unlinkers' = Unlinkers, unpruned' = unpruned,
         Stored' \subseteq Stored,
         \A t \in Unlinkers : request'[t] = request[t]
  PROVE  Bounded'
<1>1. IsFiniteSet(Stored') /\ IsFiniteSet(Pruners')
  BY Fewer DEF Bounded
<1>2. ASSUME NEW U \in SUBSET Unlinkers'
      PROVE  Cardinality(Stored' \ Doomed(U)')
               <= MaxSnapshots + unpruned' + Cardinality(Pruners' \ U)
  <2>1. Stored' \ Doomed(U)' \subseteq Stored \ Doomed(U)
    BY <1>2 DEF Doomed, Unlinkers
  <2>2. Cardinality(Stored \ Doomed(U)) <= MaxSnapshots + unpruned + Cardinality(Pruners \ U)
    BY <1>2 DEF Bounded
  <2>3. /\ Cardinality(Stored' \ Doomed(U)') \in Nat /\ Cardinality(Stored \ Doomed(U)) \in Nat
        /\ Cardinality(Stored' \ Doomed(U)') <= Cardinality(Stored \ Doomed(U))
    <3>1. IsFiniteSet(Stored \ Doomed(U))
      BY Fewer, Stored \ Doomed(U) \subseteq Stored DEF Bounded
    <3> QED BY <2>1, <3>1, Fewer
  <2>4. Cardinality(Pruners \ U) \in Nat /\ Pruners' \ U = Pruners \ U
    BY Fewer, Pruners \ U \subseteq Pruners DEF Bounded
  <2> QED BY <2>2, <2>3, <2>4, SnapshotsAssumption DEF Bounded
<1> QED BY <1>1, <1>2 DEF Bounded

\* A request replaces a file, and has to prune from then on.
LEMMA ReplaceKeepsBound ==
  ASSUME Bounded, NEW r \in Requests, NEW k,
         r \notin Pruners, Pruners' = Pruners \cup {r}, Unlinkers' = Unlinkers,
         unpruned' = unpruned, Stored' \subseteq Stored \cup {k},
         \A t \in Unlinkers : request'[t] = request[t]
  PROVE  Bounded'
<1>1. IsFiniteSet(Stored') /\ IsFiniteSet(Pruners')
  BY OneMore DEF Bounded
<1>2. ASSUME NEW U \in SUBSET Unlinkers'
      PROVE  Cardinality(Stored' \ Doomed(U)')
               <= MaxSnapshots + unpruned' + Cardinality(Pruners' \ U)
  <2>1. Stored' \ Doomed(U)' \subseteq (Stored \ Doomed(U)) \cup {k}
    BY <1>2 DEF Doomed, Unlinkers
  <2>2. Cardinality(Stored \ Doomed(U)) <= MaxSnapshots + unpruned + Cardinality(Pruners \ U)
    BY <1>2 DEF Bounded
  <2>3. /\ Cardinality(Stored' \ Doomed(U)') \in Nat /\ Cardinality(Stored \ Doomed(U)) \in Nat
        /\ Cardinality(Stored' \ Doomed(U)') <= Cardinality(Stored \ Doomed(U)) + 1
    <3>1. IsFiniteSet(Stored \ Doomed(U))
      BY Fewer, Stored \ Doomed(U) \subseteq Stored DEF Bounded
    <3> QED BY <2>1, <3>1, OneMore
  <2>4. /\ Cardinality(Pruners \ U) \in Nat
        /\ Cardinality(Pruners' \ U) = Cardinality(Pruners \ U) + 1
    <3>1. r \notin U
      BY <1>2 DEF Unlinkers, Pruners
    <3>2. Pruners' \ U = (Pruners \ U) \cup {r} /\ r \notin Pruners \ U
      BY <3>1
    <3>3. IsFiniteSet(Pruners \ U)
      BY Fewer, Pruners \ U \subseteq Pruners DEF Bounded
    <3> QED BY <3>2, <3>3, ExactlyOneMore
  <2> QED BY <2>2, <2>3, <2>4, SnapshotsAssumption DEF Bounded
<1> QED BY <1>1, <1>2 DEF Bounded

\* A request has seen how many files there are: what it does not doom is within
\* the bound, and so is everything if it dooms none.
LEMMA ScanKeepsBound ==
  ASSUME Bounded, NEW r \in Requests, NEW victims,
         \/ victims = {} /\ Pruners' = Pruners \ {r} /\ Unlinkers' = Unlinkers
         \/ Pruners' = Pruners /\ Unlinkers' = Unlinkers \cup {r},
         r \notin Unlinkers, request'[r].victims = victims,
         unpruned' = unpruned, Stored' = Stored,
         Cardinality(Stored \ victims) <= MaxSnapshots,
         \A t \in Unlinkers : request'[t] = request[t]
  PROVE  Bounded'
<1>1. IsFiniteSet(Stored') /\ IsFiniteSet(Pruners')
  BY Fewer, Pruners \ {r} \subseteq Pruners DEF Bounded
<1>2. ASSUME NEW U \in SUBSET Unlinkers'
      PROVE  Cardinality(Stored' \ Doomed(U)')
               <= MaxSnapshots + unpruned' + Cardinality(Pruners' \ U)
  <2>1. Cardinality(Pruners' \ U) \in Nat /\ Cardinality(Pruners \ U) \in Nat
    BY <1>1, Fewer, Pruners' \ U \subseteq Pruners', Pruners \ U \subseteq Pruners DEF Bounded
  <2>2. CASE r \in U \/ victims = {}
    <3>1. Stored' \ Doomed(U)' \subseteq Stored \ victims
      BY <2>2 DEF Doomed, Stored
    <3>2. IsFiniteSet(Stored \ victims)
      BY Fewer, Stored \ victims \subseteq Stored DEF Bounded
    <3>3. /\ Cardinality(Stored' \ Doomed(U)') \in Nat /\ Cardinality(Stored \ victims) \in Nat
          /\ Cardinality(Stored' \ Doomed(U)') <= Cardinality(Stored \ victims)
      BY <3>1, <3>2, Fewer
    <3> QED BY <2>1, <3>3, SnapshotsAssumption DEF Bounded
  <2>3. CASE r \notin U /\ victims # {}
    <3>1. U \subseteq Unlinkers /\ Pruners' = Pruners
      BY <1>2, <2>3
    <3>2. Doomed(U)' = Doomed(U)
      BY <3>1 DEF Doomed, Unlinkers
    <3> QED BY <3>1, <3>2 DEF Bounded
  <2> QED BY <2>2, <2>3
<1> QED BY <1>1, <1>2 DEF Bounded

\* A request unlinks a file, and has others to unlink.
LEMMA UnlinkKeepsBound ==
  ASSUME Bounded, NEW r \in Requests, NEW k,
         Pruners' = Pruners, Unlinkers' = Unlinkers, unpruned' = unpruned,
         Stored' \subseteq Stored \ {k},
         request'[r].victims = request[r].victims \ {k},
         \A t \in Unlinkers \ {r} : request'[t] = request[t]
  PROVE  Bounded'
<1>1. IsFiniteSet(Stored') /\ IsFiniteSet(Pruners')
  BY Fewer DEF Bounded
<1>2. ASSUME NEW U \in SUBSET Unlinkers'
      PROVE  Cardinality(Stored' \ Doomed(U)')
               <= MaxSnapshots + unpruned' + Cardinality(Pruners' \ U)
  <2>1. Stored' \ Doomed(U)' \subseteq Stored \ Doomed(U)
    <3> SUFFICES ASSUME NEW j \in Stored', j \in Doomed(U), j \notin Doomed(U)'
                 PROVE  FALSE
      BY DEF Stored
    <3>1. PICK t \in U : j \in request[t].victims
      BY DEF Doomed
    <3>2. j \in request'[t].victims
      BY <1>2, <3>1
    <3> QED BY <3>1, <3>2 DEF Doomed, Stored
  <2>2. Cardinality(Stored \ Doomed(U)) <= MaxSnapshots + unpruned + Cardinality(Pruners \ U)
    BY <1>2 DEF Bounded
  <2>3. /\ Cardinality(Stored' \ Doomed(U)') \in Nat /\ Cardinality(Stored \ Doomed(U)) \in Nat
        /\ Cardinality(Stored' \ Doomed(U)') <= Cardinality(Stored \ Doomed(U))
    <3>1. IsFiniteSet(Stored \ Doomed(U))
      BY Fewer, Stored \ Doomed(U) \subseteq Stored DEF Bounded
    <3> QED BY <2>1, <3>1, Fewer
  <2>4. Cardinality(Pruners \ U) \in Nat /\ Pruners' \ U = Pruners \ U
    BY Fewer, Pruners \ U \subseteq Pruners DEF Bounded
  <2> QED BY <2>2, <2>3, <2>4, SnapshotsAssumption DEF Bounded
<1> QED BY <1>1, <1>2 DEF Bounded

\* A request unlinks the last of its files: one looked beyond it already.
LEMMA LastUnlinkKeepsBound ==
  ASSUME Bounded, NEW r \in Requests, NEW k, r \in Unlinkers,
         Pruners' = Pruners \ {r}, Unlinkers' = Unlinkers \ {r}, unpruned' = unpruned,
         Stored' \subseteq Stored \ {k}, request[r].victims = {k},
         \A t \in Unlinkers \ {r} : request'[t] = request[t]
  PROVE  Bounded'
<1>1. IsFiniteSet(Stored') /\ IsFiniteSet(Pruners')
  BY Fewer DEF Bounded
<1>2. ASSUME NEW U \in SUBSET Unlinkers'
      PROVE  Cardinality(Stored' \ Doomed(U)')
               <= MaxSnapshots + unpruned' + Cardinality(Pruners' \ U)
  <2> PICK V : V = U \cup {r}
    OBVIOUS
  <2>1. Stored' \ Doomed(U)' \subseteq Stored \ Doomed(V)
    BY <1>2 DEF Doomed, Stored
  <2>2. Cardinality(Stored \ Doomed(V)) <= MaxSnapshots + unpruned + Cardinality(Pruners \ V)
    BY <1>2, V \in SUBSET Unlinkers DEF Bounded
  <2>3. /\ Cardinality(Stored' \ Doomed(U)') \in Nat /\ Cardinality(Stored \ Doomed(V)) \in Nat
        /\ Cardinality(Stored' \ Doomed(U)') <= Cardinality(Stored \ Doomed(V))
    <3>1. IsFiniteSet(Stored \ Doomed(V))
      BY Fewer, Stored \ Doomed(V) \subseteq Stored DEF Bounded
    <3> QED BY <2>1, <3>1, Fewer
  <2>4. Cardinality(Pruners \ V) \in Nat /\ Pruners' \ U = Pruners \ V
    BY Fewer, Pruners \ V \subseteq Pruners DEF Bounded
  <2> QED BY <2>2, <2>3, <2>4, SnapshotsAssumption DEF Bounded
<1> QED BY <1>1, <1>2 DEF Bounded

\* A prune is given up: what it would have unlinked is counted from then on.
LEMMA GivingUpKeepsBound ==
  ASSUME Bounded, NEW r \in Requests, r \in Pruners,
         Pruners' = Pruners \ {r}, Unlinkers' = Unlinkers \ {r}, unpruned' = unpruned + 1,
         Stored' = Stored, \A t \in Unlinkers \ {r} : request'[t] = request[t]
  PROVE  Bounded'
<1>1. IsFiniteSet(Stored') /\ IsFiniteSet(Pruners')
  BY Fewer DEF Bounded
<1>2. ASSUME NEW U \in SUBSET Unlinkers'
      PROVE  Cardinality(Stored' \ Doomed(U)')
               <= MaxSnapshots + unpruned' + Cardinality(Pruners' \ U)
  <2>1. Stored' \ Doomed(U)' = Stored \ Doomed(U)
    BY <1>2 DEF Doomed
  <2>2. Cardinality(Stored \ Doomed(U)) <= MaxSnapshots + unpruned + Cardinality(Pruners \ U)
    BY <1>2 DEF Bounded
  <2>3. Cardinality(Stored \ Doomed(U)) \in Nat
    BY Fewer, Stored \ Doomed(U) \subseteq Stored DEF Bounded
  <2>4. /\ Cardinality(Pruners' \ U) \in Nat
        /\ Cardinality(Pruners \ U) = Cardinality(Pruners' \ U) + 1
    <3>1. Pruners \ U = (Pruners' \ U) \cup {r} /\ r \notin Pruners' \ U
      BY <1>2
    <3>2. IsFiniteSet(Pruners' \ U)
      BY <1>1, Fewer, Pruners' \ U \subseteq Pruners'
    <3> QED BY <3>1, <3>2, ExactlyOneMore
  <2> QED BY <2>1, <2>2, <2>3, <2>4, SnapshotsAssumption DEF Bounded
<1> QED BY <1>1, <1>2 DEF Bounded

\* Where a step of one request leaves the prunes.
LEMMA PrunesMove ==
  ASSUME NEW r \in Requests, \A t \in Requests \ {r} : request'[t] = request[t]
  PROVE  /\ request'[r].pc \in {"scan", "unlink"} => Pruners' = Pruners \cup {r}
         /\ request'[r].pc \notin {"scan", "unlink"} => Pruners' = Pruners \ {r}
         /\ request'[r].pc = "unlink" => Unlinkers' = Unlinkers \cup {r}
         /\ request'[r].pc # "unlink" => Unlinkers' = Unlinkers \ {r}
         /\ r \in Pruners <=> request[r].pc \in {"scan", "unlink"}
         /\ r \in Unlinkers <=> request[r].pc = "unlink"
         /\ \A t \in Unlinkers \ {r} : request'[t] = request[t]
BY DEF Pruners, Unlinkers, At

\* What the scan retains, the request's own file among it, is within the bound.
LEMMA RetainedIsWithinBound ==
  ASSUME NEW r \in Requests, NEW kept, Retained(r, kept), IsFiniteSet(Stored)
  PROVE  Cardinality(Stored \ (Stored \ ({request[r].key} \cup kept))) <= MaxSnapshots
<1>1. kept \subseteq Stored /\ Cardinality(kept) <= MaxSnapshots - 1
  BY DEF Retained
<1>2. IsFiniteSet(kept) /\ Cardinality(kept) \in Nat
  BY <1>1, Fewer
<1>3. Stored \ (Stored \ ({request[r].key} \cup kept)) \subseteq kept \cup {request[r].key}
  OBVIOUS
<1>4. /\ Cardinality(Stored \ (Stored \ ({request[r].key} \cup kept))) \in Nat
      /\ Cardinality(Stored \ (Stored \ ({request[r].key} \cup kept))) <= Cardinality(kept) + 1
  BY <1>2, <1>3, OneMore
<1> QED BY <1>1, <1>2, <1>4, SnapshotsAssumption

\* A request that is not pruning does something else than replace.
LEMMA ElsewhereKeepsBound ==
  ASSUME Bounded, NEW r \in Requests, \A t \in Requests \ {r} : request'[t] = request[t],
         request[r].pc \notin {"scan", "unlink"}, request'[r].pc \notin {"scan", "unlink"},
         UNCHANGED <<files, unpruned>>
  PROVE  Bounded'
<1>1. Pruners' = Pruners /\ Unlinkers' = Unlinkers /\ r \notin Unlinkers
  BY PrunesMove
<1>2. Stored' \subseteq Stored /\ \A t \in Unlinkers : request'[t] = request[t]
  BY <1>1, PrunesMove DEF Stored
<1> QED BY <1>1, <1>2, QuietKeepsBound

\* One lemma for each thing a step of a request can do to the bound.
LEMMA BoundStep ==
  ASSUME Accounts, Bounded, NEW r \in Requests, Serve(r) \/ Crash(r)
  PROVE  Bounded'
<1>1. PICK q : /\ q = request[r]
               /\ q = [pc |-> q.pc, key |-> q.key, evaluatedAt |-> q.evaluatedAt,
                       database |-> q.database, prior |-> q.prior, victims |-> q.victims,
                       answer |-> q.answer, servedFrom |-> q.servedFrom]
  BY Fields
<1>2. request = [t \in Requests |-> request[t]] /\ files = [k \in Keys |-> files[k]]
  BY DEF Accounts
<1>3. ASSUME NEW answer, Answer(r, answer)
      PROVE  (\A t \in Requests \ {r} : request'[t] = request[t]) /\ request'[r].pc = "idle"
                                                                  /\ request'[r].victims = {}
  BY <1>1, <1>2, <1>3 DEF Answer
<1>4. ASSUME NEW k, files' = [files EXCEPT ![k] = NoFile]
      PROVE  Stored' \subseteq Stored \ {k}
  BY <1>2, <1>4 DEF Stored
<1>5. ASSUME request[r].pc \in {"scan", "unlink"}, unpruned' = unpruned + 1, files' = files,
             \A t \in Requests \ {r} : request'[t] = request[t], request'[r].pc = "idle"
      PROVE  Bounded'
  <2>1. /\ r \in Pruners /\ Pruners' = Pruners \ {r} /\ Unlinkers' = Unlinkers \ {r}
        /\ \A t \in Unlinkers \ {r} : request'[t] = request[t]
    BY <1>5, PrunesMove
  <2>2. Stored' = Stored
    BY <1>5 DEF Stored
  <2> QED BY <1>5, <2>1, <2>2, GivingUpKeepsBound
<1>6. CASE \E k \in Keys : Begin(r, k)
  <2>1. (\A t \in Requests \ {r} : request'[t] = request[t]) /\ request'[r].pc = "read"
    BY <1>1, <1>2, <1>6 DEF Begin, Idle
  <2>2. request[r].pc = "idle" /\ UNCHANGED <<files, unpruned>>
    BY <1>6 DEF Begin, At
  <2> QED BY <2>1, <2>2, ElsewhereKeepsBound
<1>7. CASE Read(r) \/ ReadFindsNothing(r) \/ ReadFails(r)
  <2>1. \A t \in Requests \ {r} : request'[t] = request[t]
    BY <1>1, <1>2, <1>7 DEF Read, ReadFindsNothing, ReadFails
  <2>2. request'[r].pc \in {"compare", "idle", "restore"}
    BY <1>1, <1>2, <1>7 DEF Read, ReadFindsNothing, ReadFails
  <2>3. request[r].pc = "read" /\ UNCHANGED <<files, unpruned>>
    BY <1>7 DEF Read, ReadFindsNothing, ReadFails, At
  <2> QED BY <2>1, <2>2, <2>3, ElsewhereKeepsBound
<1>8. CASE Compare(r)
  <2>1. request[r].pc = "compare" /\ UNCHANGED <<files, unpruned>>
    BY <1>8 DEF Compare, At
  <2>2. CASE Answer(r, "fresh")
    BY <1>3, <2>1, <2>2, ElsewhereKeepsBound
  <2>3. CASE \E f : request' = [request EXCEPT ![r].pc = "replace", ![r].prior = f]
    <3>1. (\A t \in Requests \ {r} : request'[t] = request[t]) /\ request'[r].pc = "replace"
      BY <1>1, <1>2, <2>3
    <3> QED BY <2>1, <3>1, ElsewhereKeepsBound
  <2> QED BY <1>8, <2>2, <2>3 DEF Compare
<1>9. CASE WriteFails(r) \/ RestoreFails(r)
  <2>1. Answer(r, "fresh") \/ Answer(r, "error")
    BY <1>9 DEF WriteFails, RestoreFails
  <2>2. request[r].pc \in {"compare", "replace", "restore"} /\ UNCHANGED <<files, unpruned>>
    BY <1>9 DEF WriteFails, RestoreFails, At
  <2> QED BY <1>3, <2>1, <2>2, ElsewhereKeepsBound
<1>10. CASE Replace(r)
  <2>1. request[r].pc = "replace" /\ unpruned' = unpruned
    BY <1>10 DEF Replace, At
  <2>2. (\A t \in Requests \ {r} : request'[t] = request[t]) /\ request'[r].pc = "scan"
    BY <1>1, <1>2, <1>10 DEF Replace, Goto
  <2>3. PICK k : k = request[r].key
    OBVIOUS
  <2>4. PICK file : files' = [files EXCEPT ![k] = file]
    BY <1>10, <2>3 DEF Replace
  <2>5. Stored' \subseteq Stored \cup {k}
    BY <1>2, <2>4 DEF Stored
  <2>6. /\ r \notin Pruners /\ Pruners' = Pruners \cup {r}
        /\ r \notin Unlinkers /\ Unlinkers' = Unlinkers \ {r}
        /\ \A t \in Unlinkers \ {r} : request'[t] = request[t]
    BY <2>1, <2>2, PrunesMove
  <2>7. Unlinkers' = Unlinkers /\ \A t \in Unlinkers : request'[t] = request[t]
    BY <2>6
  <2> QED BY <2>1, <2>5, <2>6, <2>7, ReplaceKeepsBound
<1>11. CASE Scan(r)
  <2>1. request[r].pc = "scan" /\ UNCHANGED <<files, unpruned>>
    BY <1>11 DEF Scan, At
  <2>2. PICK kept : /\ Retained(r, kept)
                    /\ LET victims == Stored \ ({request[r].key} \cup kept) IN
                         IF victims = {} THEN Answer(r, "fresh")
                         ELSE request' = [request EXCEPT ![r].pc = "unlink", ![r].victims = victims]
    BY <1>11 DEF Scan
  <2>3. PICK victims : victims = Stored \ ({request[r].key} \cup kept)
    OBVIOUS
  <2>4. Cardinality(Stored \ victims) <= MaxSnapshots
    BY <2>2, <2>3, RetainedIsWithinBound DEF Bounded
  <2>5. Stored' = Stored
    BY <2>1 DEF Stored
  <2>6. CASE victims = {}
    <3>1. /\ \A t \in Requests \ {r} : request'[t] = request[t]
          /\ request'[r].pc = "idle" /\ request'[r].victims = {}
      BY <1>3, <2>2, <2>3, <2>6
    <3>2. /\ Pruners' = Pruners \ {r} /\ r \notin Unlinkers /\ Unlinkers' = Unlinkers \ {r}
          /\ \A t \in Unlinkers \ {r} : request'[t] = request[t]
      BY <2>1, <3>1, PrunesMove
    <3>3. Unlinkers' = Unlinkers /\ \A t \in Unlinkers : request'[t] = request[t]
      BY <3>2
    <3> QED BY <2>1, <2>4, <2>5, <2>6, <3>1, <3>2, <3>3, ScanKeepsBound
  <2>7. CASE victims # {}
    <3>1. request' = [request EXCEPT ![r].pc = "unlink", ![r].victims = victims]
      BY <2>2, <2>3, <2>7
    <3>2. /\ \A t \in Requests \ {r} : request'[t] = request[t]
          /\ request'[r].pc = "unlink" /\ request'[r].victims = victims
      BY <1>1, <1>2, <3>1
    <3>3. /\ r \in Pruners /\ Pruners' = Pruners \cup {r}
          /\ r \notin Unlinkers /\ Unlinkers' = Unlinkers \cup {r}
          /\ \A t \in Unlinkers \ {r} : request'[t] = request[t]
      BY <2>1, <3>2, PrunesMove
    <3>4. Pruners' = Pruners /\ \A t \in Unlinkers : request'[t] = request[t]
      BY <3>3
    <3> QED BY <2>1, <2>4, <2>5, <3>2, <3>3, <3>4, ScanKeepsBound
  <2> QED BY <2>6, <2>7
<1>12. CASE \E k \in Keys : Unlink(r, k)
  <2>1. PICK k \in Keys : Unlink(r, k)
    BY <1>12
  <2>2. request[r].pc = "unlink" /\ unpruned' = unpruned /\ Stored' \subseteq Stored \ {k}
    BY <1>4, <2>1 DEF Unlink, At
  <2>3. CASE request[r].victims = {k}
    <3>1. (\A t \in Requests \ {r} : request'[t] = request[t]) /\ request'[r].pc = "idle"
      BY <1>3, <2>1, <2>3 DEF Unlink
    <3>2. /\ r \in Unlinkers /\ Pruners' = Pruners \ {r} /\ Unlinkers' = Unlinkers \ {r}
          /\ \A t \in Unlinkers \ {r} : request'[t] = request[t]
      BY <2>2, <3>1, PrunesMove
    <3> QED BY <2>2, <2>3, <3>2, LastUnlinkKeepsBound
  <2>4. CASE request[r].victims # {k}
    <3>1. PICK v : v = request[r].victims \ {k}
      OBVIOUS
    <3>2. request' = [request EXCEPT ![r].victims = v]
      BY <2>1, <2>4, <3>1 DEF Unlink
    <3>3. /\ \A t \in Requests \ {r} : request'[t] = request[t]
          /\ request'[r].pc = "unlink" /\ request'[r].victims = v
      BY <1>1, <1>2, <2>2, <3>2
    <3>4. /\ r \in Pruners /\ Pruners' = Pruners \cup {r}
          /\ r \in Unlinkers /\ Unlinkers' = Unlinkers \cup {r}
          /\ \A t \in Unlinkers \ {r} : request'[t] = request[t]
      BY <2>2, <3>3, PrunesMove
    <3>5. Pruners' = Pruners /\ Unlinkers' = Unlinkers
      BY <3>4
    <3> QED BY <2>2, <3>1, <3>3, <3>4, <3>5, UnlinkKeepsBound
  <2> QED BY <2>3, <2>4
<1>13. CASE PruneFails(r)
  <2>1. Answer(r, "fresh") /\ unpruned' = unpruned + 1 /\ files' = files
    BY <1>13 DEF PruneFails
  <2>2. request[r].pc \in {"scan", "unlink"}
    BY <1>13 DEF PruneFails, At
  <2> QED BY <1>3, <1>5, <2>1, <2>2
<1>14. CASE Restore(r)
  <2>1. request[r].pc = "restore" /\ UNCHANGED <<files, unpruned>>
    BY <1>14 DEF Restore, At
  <2>2. CASE Answer(r, "error")
    BY <1>3, <2>1, <2>2, ElsewhereKeepsBound
  <2>3. CASE \E at : request' = [request EXCEPT ![r].pc = "idle", ![r].answer = "stale",
                                                ![r].servedFrom = at]
    <3>1. (\A t \in Requests \ {r} : request'[t] = request[t]) /\ request'[r].pc = "idle"
      BY <1>1, <1>2, <2>3
    <3> QED BY <2>1, <3>1, ElsewhereKeepsBound
  <2> QED BY <1>14, <2>2, <2>3 DEF Restore
<1>15. CASE Crash(r)
  <2>1. (\A t \in Requests \ {r} : request'[t] = request[t]) /\ request'[r].pc = "idle"
    BY <1>2, <1>15 DEF Crash, Idle
  <2>2. CASE request[r].pc \in {"scan", "unlink"}
    BY <1>5, <1>15, <2>1, <2>2 DEF Crash, At
  <2>3. CASE request[r].pc \notin {"scan", "unlink"}
    <3>1. UNCHANGED <<files, unpruned>>
      BY <1>15, <2>3 DEF Crash, At
    <3> QED BY <2>1, <2>3, <3>1, ElsewhereKeepsBound
  <2> QED BY <2>2, <2>3
<1> QED BY <1>6, <1>7, <1>8, <1>9, <1>10, <1>11, <1>12, <1>13, <1>14, <1>15 DEF Serve

\* Beyond MaxSnapshots only requests that have yet to prune, or gave up, leave
\* files (pruneSnapshots of staleEvidence.ts): for any number of keys and
\* requests, however many prunes overlap and whatever is damaged.
THEOREM SnapshotsAreBounded == Spec => []StoreIsBounded
<1>1. Init => Bounded
  <2> SUFFICES ASSUME Init PROVE Bounded
    OBVIOUS
  <2>1. Stored = {} /\ Pruners = {} /\ unpruned = 0
    BY DEF Init, Stored, Pruners, At, Idle
  <2>2. \A U : Stored \ Doomed(U) = {} /\ Pruners \ U = {}
    BY <2>1
  <2> QED BY <2>1, <2>2, FS_EmptySet, SnapshotsAssumption DEF Bounded
<1>2. Accounts /\ Bounded /\ [Next]_vars => Bounded'
  <2> SUFFICES ASSUME Accounts, Bounded, [Next]_vars PROVE Bounded'
    OBVIOUS
  <2>1. CASE UNCHANGED <<request, unpruned>> /\ Stored' \subseteq Stored
    <3>1. Pruners' = Pruners /\ Unlinkers' = Unlinkers
      BY <2>1 DEF Pruners, Unlinkers, At
    <3> QED BY <2>1, <3>1, QuietKeepsBound
  <2>2. CASE UNCHANGED <<request, unpruned, files>>
    <3>1. Stored' \subseteq Stored
      BY <2>2 DEF Stored
    <3> QED BY <2>1, <2>2, <3>1
  <2>3. CASE \E k \in Keys : Damage(k)
    <3>1. PICK k \in Keys : Damage(k)
      BY <2>3
    <3>2. PICK file : files' = [files EXCEPT ![k] = file]
      BY <3>1 DEF Damage
    <3>3. Stored' \subseteq Stored
      BY <3>1, <3>2 DEF Accounts, Damage, Stored
    <3> QED BY <2>1, <3>1, <3>3 DEF Damage
  <2> QED BY <2>2, <2>3, BoundStep DEF Next, Tick, vars
<1>3. Bounded => StoreIsBounded
  <2> SUFFICES ASSUME Bounded PROVE StoreIsBounded
    OBVIOUS
  <2>1. {} \in SUBSET Unlinkers /\ Doomed({}) = {}
    BY DEF Doomed
  <2>2. Stored \ {} = Stored /\ Pruners \ {} = Pruners
    OBVIOUS
  <2>3. Cardinality(Stored) <= MaxSnapshots + unpruned + Cardinality(Pruners)
    BY <2>1, <2>2 DEF Bounded
  <2> QED BY <2>3 DEF StoreIsBounded, Pruners
<1> QED BY <1>1, <1>2, <1>3, EverythingIsAccountedFor, PTL DEF Spec
===============================================================================
