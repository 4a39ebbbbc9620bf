----------------------------- MODULE StaleEvidence -----------------------------
(***************************************************************************)
(* The last-known-good responses of the public API                         *)
(* (lib/api/staleEvidence.ts) and the requests that write and read them    *)
(* (lib/api/rates.ts, rateHistory.ts, reputation.ts).                      *)
(*                                                                         *)
(* A response that came from the database is saved as one file per key,    *)
(* written beside it and renamed over it; a request whose database read    *)
(* fails for a transient reason answers from that file.  The store is a    *)
(* directory that requests, and where it is shared also processes, use at  *)
(* once: the file is compared and replaced, and the directory listed and   *)
(* pruned, in separate steps.                                              *)
(*                                                                         *)
(* Simplifications: a response is the time of its request.  Temporary      *)
(* files, private to one request, are not kept.  A file that fails its     *)
(* digest, key, schema or times is a damaged one, whatever damaged it.     *)
(* Listing the directory and reading the times of its files is one step.   *)
(***************************************************************************)
EXTENDS Naturals, FiniteSets

CONSTANTS
  Keys,         \* the endpoints and parameters that are answered
  Requests,     \* requests in flight at once
  MaxAge,       \* STALE_EVIDENCE_MAX_AGE_MS, in ticks
  MaxSnapshots, \* MAX_STALE_EVIDENCE_SNAPSHOTS
  MaxTime,      \* bound: clock ticks
  MaxMishaps,   \* bound: prunes given up, files damaged
  None

ASSUME BoundAssumption == MaxTime \in Nat /\ MaxMishaps \in Nat /\ MaxAge \in Nat
ASSUME SnapshotsAssumption == MaxSnapshots \in Nat \ {0}

VARIABLES
  clock,
  files,    \* files[k]: the snapshot file of k, or None
  request,  \* request[r]: the local state of r
  answered, \* history: the responses read from the database, by key and time
  mishaps,  \* see MaxMishaps
  unpruned  \* history: prunes that were given up

vars == <<clock, files, request, answered, mishaps, unpruned>>

Time == 0 .. MaxTime
File == [generatedAt : Time, modifiedAt : Time, intact : BOOLEAN]
NoFile == [generatedAt |-> 0, modifiedAt |-> MaxTime + 1, intact |-> FALSE]

Steps == {"idle", "read", "compare", "replace", "scan", "unlink", "restore"}
Answers == {"fresh", "not_found", "stale", "error"}

ASSUME NoneAssumption == None \notin Keys \cup Answers

\* database: how the read of the database went.  prior: the file it compared
\* with.  victims: the files it will unlink.  servedFrom: the time of the
\* snapshot a stale answer was taken from.
Local == [pc : Steps, key : Keys \cup {None}, evaluatedAt : Time,
          database : {"ok", "missing", "transient", "failed", None},
          prior : File \cup {NoFile}, victims : SUBSET Keys,
          answer : Answers \cup {None}, servedFrom : Time]

Idle == [pc |-> "idle", key |-> None, evaluatedAt |-> 0, database |-> None,
         prior |-> NoFile, victims |-> {}, answer |-> None, servedFrom |-> 0]

Stored == {k \in Keys : files[k] # NoFile}

Init ==
  /\ clock = 0
  /\ files = [k \in Keys |-> NoFile]
  /\ request = [r \in Requests |-> Idle]
  /\ answered = {}
  /\ mishaps = 0
  /\ unpruned = 0

At(r, pc) == request[r].pc = pc
Goto(r, pc) == request' = [request EXCEPT ![r].pc = pc]

Answer(r, answer) ==
  request' = [request EXCEPT ![r].pc = "idle", ![r].answer = answer,
                             ![r].prior = NoFile, ![r].victims = {}]

Mishap == mishaps < MaxMishaps /\ mishaps' = mishaps + 1

------------------------------------------------------------------------------
Tick ==
  /\ clock < MaxTime
  /\ clock' = clock + 1
  /\ UNCHANGED <<files, request, answered, mishaps, unpruned>>

\* The clock is read once, before the database.
Begin(r, k) ==
  /\ At(r, "idle")
  /\ request' = [request EXCEPT ![r] =
       [Idle EXCEPT !.pc = "read", !.key = k, !.evaluatedAt = clock]]
  /\ UNCHANGED <<clock, files, answered, mishaps, unpruned>>

\* A response without any time of evidence, or too large, is not saved.
Read(r) ==
  /\ At(r, "read")
  /\ \E pc \in {"compare", "idle"} :
       request' = [request EXCEPT
         ![r].pc = pc, ![r].database = "ok",
         ![r].answer = IF pc = "idle" THEN "fresh" ELSE None]
  /\ answered' = answered \cup {[key |-> request[r].key, at |-> request[r].evaluatedAt]}
  /\ UNCHANGED <<clock, files, mishaps, unpruned>>

ReadFindsNothing(r) ==
  /\ At(r, "read")
  /\ request' = [request EXCEPT ![r].pc = "idle", ![r].database = "missing",
                                ![r].answer = "not_found"]
  /\ UNCHANGED <<clock, files, answered, mishaps, unpruned>>

\* isTransientDatabaseFailure decides whether a snapshot may stand in; rows that
\* cannot be serialized are no transient failure.
ReadFails(r) ==
  /\ At(r, "read")
  /\ \/ request' = [request EXCEPT ![r].pc = "restore", ![r].database = "transient"]
     \/ request' = [request EXCEPT ![r].pc = "idle", ![r].database = "failed",
                                   ![r].answer = "error"]
  /\ UNCHANGED <<clock, files, answered, mishaps, unpruned>>

------------------------------------------------------------------------------
(* write *)

\* The prior file is read and verified at its own time; one that is at least as
\* recent stays.
Compare(r) ==
  /\ At(r, "compare")
  /\ LET file == files[request[r].key] IN
       IF file.intact /\ file.generatedAt >= request[r].evaluatedAt
       THEN Answer(r, "fresh")
       ELSE request' = [request EXCEPT ![r].pc = "replace", ![r].prior = file]
  /\ UNCHANGED <<clock, files, answered, mishaps, unpruned>>

\* Written beside the file and renamed over it, whatever is there by now.
Replace(r) ==
  /\ At(r, "replace")
  /\ files' = [files EXCEPT ![request[r].key] =
       [generatedAt |-> request[r].evaluatedAt, modifiedAt |-> clock, intact |-> TRUE]]
  /\ Goto(r, "scan")
  /\ UNCHANGED <<clock, answered, mishaps, unpruned>>

\* WriteFails as it must not be: the failure of the storage is the answer.
WriteFailsLoudly(r) ==
  /\ At(r, "compare") \/ At(r, "replace")
  /\ Answer(r, "error")
  /\ UNCHANGED <<clock, files, answered, mishaps, unpruned>>

\* The disk is full, the directory gone, the temporary name taken: the response
\* goes out all the same.
WriteFails(r) ==
  /\ At(r, "compare") \/ At(r, "replace")
  /\ Answer(r, "fresh")
  /\ UNCHANGED <<clock, files, answered, mishaps, unpruned>>

------------------------------------------------------------------------------
(* pruneSnapshots *)

\* The most recently modified MaxSnapshots - 1 files beside the request's own
\* stay; files of one time may be ordered either way.
Retained(r, kept) ==
  LET others == Stored \ {request[r].key} IN
  /\ kept \subseteq others
  /\ Cardinality(kept) <= MaxSnapshots - 1
  /\ kept # others => Cardinality(kept) = MaxSnapshots - 1
  /\ \A k \in kept, j \in others \ kept : files[k].modifiedAt >= files[j].modifiedAt

\* Scan as it must not be: the request's own file is not counted.
ScanOneMore(r) ==
  /\ At(r, "scan")
  /\ \E kept \in SUBSET (Stored \ {request[r].key}) :
       LET others == Stored \ {request[r].key} IN
       /\ Cardinality(kept) <= MaxSnapshots
       /\ kept # others => Cardinality(kept) = MaxSnapshots
       /\ IF others \ kept = {} THEN Answer(r, "fresh")
          ELSE request' = [request EXCEPT ![r].pc = "unlink", ![r].victims = others \ kept]
  /\ UNCHANGED <<clock, files, answered, mishaps, unpruned>>

Scan(r) ==
  /\ At(r, "scan")
  /\ \E kept \in SUBSET Keys :
       /\ Retained(r, kept)
       /\ LET victims == Stored \ ({request[r].key} \cup kept) IN
            IF victims = {} THEN Answer(r, "fresh")
            ELSE request' = [request EXCEPT ![r].pc = "unlink", ![r].victims = victims]
  /\ UNCHANGED <<clock, files, answered, mishaps, unpruned>>

\* One file after the other, by its path: what it holds by now is not looked at.
Unlink(r, k) ==
  /\ At(r, "unlink")
  /\ k \in request[r].victims
  /\ files' = [files EXCEPT ![k] = NoFile]
  /\ IF request[r].victims = {k} THEN Answer(r, "fresh")
     ELSE request' = [request EXCEPT ![r].victims = @ \ {k}]
  /\ UNCHANGED <<clock, answered, mishaps, unpruned>>

\* The directory cannot be listed, or files not removed: the others are, and
\* those left behind are the last of victims.
PruneFails(r) ==
  /\ At(r, "scan") \/ At(r, "unlink")
  /\ Mishap
  /\ unpruned' = unpruned + 1
  /\ Answer(r, "fresh")
  /\ UNCHANGED <<clock, files, answered>>

------------------------------------------------------------------------------
(* read *)

\* Restorable as it must not be: whatever parses is served.
RestorableUnverified(file, at) == file.generatedAt <= at /\ at < file.generatedAt + MaxAge

\* verifySnapshot, at the time of the request.
Restorable(file, at) ==
  file.intact /\ file.generatedAt <= at /\ at < file.generatedAt + MaxAge

Restore(r) ==
  /\ At(r, "restore")
  /\ LET file == files[request[r].key] IN
       IF file # NoFile /\ Restorable(file, request[r].evaluatedAt)
       THEN request' = [request EXCEPT ![r].pc = "idle", ![r].answer = "stale",
                                       ![r].servedFrom = file.generatedAt]
       ELSE Answer(r, "error")
  /\ UNCHANGED <<clock, files, answered, mishaps, unpruned>>

\* A snapshot that cannot be read is no snapshot.
RestoreFails(r) ==
  /\ At(r, "restore")
  /\ Answer(r, "error")
  /\ UNCHANGED <<clock, files, answered, mishaps, unpruned>>

------------------------------------------------------------------------------
(* What happens around the requests *)

\* A file is cut short, edited, or left by another version.
Damage(k) ==
  /\ files[k] # NoFile
  /\ Mishap
  /\ \E t \in Time : files' = [files EXCEPT ![k] =
       [generatedAt |-> t, modifiedAt |-> clock, intact |-> FALSE]]
  /\ UNCHANGED <<clock, request, answered, unpruned>>

\* The process dies with its requests; the directory stays.
Crash(r) ==
  /\ ~At(r, "idle")
  /\ IF At(r, "scan") \/ At(r, "unlink")
     THEN Mishap /\ unpruned' = unpruned + 1
     ELSE UNCHANGED <<mishaps, unpruned>>
  /\ request' = [request EXCEPT ![r] = Idle]
  /\ UNCHANGED <<clock, files, answered>>

------------------------------------------------------------------------------
Serve(r) ==
  \/ \E k \in Keys : Begin(r, k)
  \/ Read(r) \/ ReadFindsNothing(r) \/ ReadFails(r)
  \/ Compare(r) \/ Replace(r) \/ WriteFails(r)
  \/ Scan(r) \/ (\E k \in Keys : Unlink(r, k)) \/ PruneFails(r)
  \/ Restore(r) \/ RestoreFails(r)

Next ==
  \/ Tick
  \/ \E r \in Requests : Serve(r) \/ Crash(r)
  \/ \E k \in Keys : Damage(k)

Spec == Init /\ [][Next]_vars

------------------------------------------------------------------------------
(* Properties *)

TypeOK ==
  /\ clock \in Time
  /\ files \in [Keys -> File \cup {NoFile}]
  /\ request \in [Requests -> Local]
  /\ answered \subseteq [key : Keys, at : Time]
  /\ mishaps \in 0 .. MaxMishaps
  /\ unpruned \in 0 .. mishaps

\* What a stale answer contains was once the fresh answer to the same question,
\* and within MaxAge of the request, whatever was renamed, damaged or pruned
\* while it was read.
StaleAnswersAreEvidence ==
  \A r \in Requests : request[r].answer = "stale" =>
    /\ [key |-> request[r].key, at |-> request[r].servedFrom] \in answered
    /\ request[r].evaluatedAt \in
         request[r].servedFrom .. request[r].servedFrom + MaxAge - 1

\* The store never decides about an answer the database gave: a read that
\* succeeds is answered fresh whatever its storage does, and only a transient
\* failure is answered from storage.
DatabaseIsAuthoritative ==
  \A r \in Requests : request[r].answer # None =>
    /\ request[r].database = "ok" <=> request[r].answer = "fresh"
    /\ request[r].answer = "stale" => request[r].database = "transient"

\* The store is bounded: beyond MaxSnapshots there are only files of requests
\* that have yet to prune, or whose prune was given up.  Prunes that overlap do
\* not leave each other's files to one another.
StoreIsBounded ==
  Cardinality(Stored) <= MaxSnapshots + unpruned
    + Cardinality({r \in Requests : At(r, "scan") \/ At(r, "unlink")})

\* A request that replaces the very file it compared with replaces an older one.
\* (One that was overtaken between the two may bring an older response back.)
CurrentWriterMovesForward ==
  [][\A r \in Requests :
       LET k == request[r].key IN
       (Replace(r) /\ files[k] = request[r].prior /\ files[k].intact) =>
         files[k].generatedAt < files'[k].generatedAt]_vars

===============================================================================
