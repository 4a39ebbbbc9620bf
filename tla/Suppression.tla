----------------------------- MODULE Suppression -----------------------------
(***************************************************************************)
(* The durable store of poison-input suppressions                          *)
(* (lib/scheduled/suppression.ts, lib/scheduled/suppressionRepository.ts). *)
(*                                                                         *)
(* A refresh cycle that met a deterministic normalization failure calls    *)
(* recordDeterministicFailure: one READ COMMITTED transaction that reads   *)
(* the row of the source, computes the next counter in the process, and    *)
(* upserts absolute values.  An operator reactivates a source by a read    *)
(* followed by an unconditional update.  Cycles take no lock, so any       *)
(* number of recorders and operators interleave between read and write.    *)
(*                                                                         *)
(* Simplifications: a row keeps what the counter decides on.  suppressedAt *)
(* and reactivatedAt are kept as set or null; the reason, the failure code *)
(* and the first/last failure times are audit text no code reads back.     *)
(***************************************************************************)
EXTENDS Naturals

CONSTANTS
  Sources,          \* (anchor, corridor) identities
  Recorders,        \* calls of recordDeterministicFailure in flight at once
  Operators,        \* runs of the reactivation script in flight at once
  Threshold,        \* PERMANENT_FAILURE_SUPPRESSION_THRESHOLD
  MaxReactivations, \* bound: reactivations a behaviour may start
  None              \* no row, or no call in flight

States == {"ACTIVE", "SUPPRESSED"}
Stamps == {"null", "set"}

Row == [state : States, consecutiveFailures : Nat,
        suppressedAt : Stamps, reactivatedAt : Stamps]

ASSUME ThresholdAssumption == Threshold \in Nat \ {0}
ASSUME BoundAssumption == MaxReactivations \in Nat
ASSUME NoneAssumption == None \notin Row /\ None \notin Sources
                         /\ None \notin [source : Sources, base : Row \cup {None}]

VARIABLES
  rows,          \* rows[s]: the scheduled_source_suppressions row of s, or None
  tx,            \* tx[r]: the source r records for and the row it read
  op,            \* op[o]: the source o found and is about to update
  recorded,      \* history: recordings committed for s (saturating)
  credited,      \* history: recordings committed for s since it was last
                 \* reactivated (saturating)
  reactivations  \* reactivations started

vars == <<rows, tx, op, recorded, credited, reactivations>>

Tx == [source : Sources, base : Row \cup {None}]

------------------------------------------------------------------------------
(* The counter *)

Suppressed(row) == row # None /\ row.state = "SUPPRESSED"

CounterOf(row) == IF row = None THEN 0 ELSE row.consecutiveFailures

NextRow(count, trips) ==
  [state               |-> IF trips THEN "SUPPRESSED" ELSE "ACTIVE",
   consecutiveFailures |-> count,
   suppressedAt        |-> IF trips THEN "set" ELSE "null",
   reactivatedAt       |-> "null"]

\* Advance as it must not be: a suppression one failure early.
AdvanceEarly(row) ==
  LET count == IF Suppressed(row) THEN CounterOf(row) ELSE CounterOf(row) + 1
  IN  NextRow(count, Suppressed(row) \/ count + 1 >= Threshold)

\* Advance as it must not be: starting over every time.
AdvanceAfresh(row) == NextRow(1, 1 >= Threshold)

\* advancePermanentSuppression, and the columns the upsert writes with it: a
\* suppressed row keeps its state, counter and time; any other counts one more.
Advance(row) ==
  LET count == IF Suppressed(row) THEN CounterOf(row) ELSE CounterOf(row) + 1
      trips == Suppressed(row) \/ count >= Threshold
  IN  NextRow(count, trips)

\* reactivatePermanentSuppression, and the columns the update writes with it.
Reactivated == [state               |-> "ACTIVE",
                consecutiveFailures |-> 0,
                suppressedAt        |-> "null",
                reactivatedAt       |-> "set"]

CountOne(n) == IF n < Threshold THEN n + 1 ELSE n

------------------------------------------------------------------------------
Init ==
  /\ rows = [s \in Sources |-> None]
  /\ tx = [r \in Recorders |-> None]
  /\ op = [o \in Operators |-> None]
  /\ recorded = [s \in Sources |-> 0]
  /\ credited = [s \in Sources |-> 0]
  /\ reactivations = 0

\* The findUnique at the head of the transaction.
RecordRead(r, s) ==
  /\ tx[r] = None
  /\ tx' = [tx EXCEPT ![r] = [source |-> s, base |-> rows[s]]]
  /\ UNCHANGED <<rows, op, recorded, credited, reactivations>>

\* The upsert of the values computed from what was read, and the commit.
RecordWrite(r) ==
  /\ tx[r] # None
  /\ LET s == tx[r].source
     IN  /\ rows' = [rows EXCEPT ![s] = Advance(tx[r].base)]
         /\ recorded' = [recorded EXCEPT ![s] = CountOne(@)]
         /\ credited' = [credited EXCEPT ![s] = CountOne(@)]
  /\ tx' = [tx EXCEPT ![r] = None]
  /\ UNCHANGED <<op, reactivations>>

\* The database fails, the transaction times out, or the process dies: nothing
\* is committed.
RecordAbort(r) ==
  /\ tx[r] # None
  /\ tx' = [tx EXCEPT ![r] = None]
  /\ UNCHANGED <<rows, op, recorded, credited, reactivations>>

\* reactivate finds the row; without one the script exits SUPPRESSION_NOT_FOUND.
ReactivateRead(o, s) ==
  /\ op[o] = None
  /\ rows[s] # None
  /\ reactivations < MaxReactivations
  /\ op' = [op EXCEPT ![o] = s]
  /\ reactivations' = reactivations + 1
  /\ UNCHANGED <<rows, tx, recorded, credited>>

\* The update by id, whatever the row holds by then.
ReactivateWrite(o) ==
  /\ op[o] # None
  /\ rows' = [rows EXCEPT ![op[o]] = Reactivated]
  /\ credited' = [credited EXCEPT ![op[o]] = 0]
  /\ op' = [op EXCEPT ![o] = None]
  /\ UNCHANGED <<tx, recorded, reactivations>>

\* A blank reason throws after the read; so does a lost database.
ReactivateAbort(o) ==
  /\ op[o] # None
  /\ op' = [op EXCEPT ![o] = None]
  /\ UNCHANGED <<rows, tx, recorded, credited, reactivations>>

Record(r) ==
  \/ \E s \in Sources : RecordRead(r, s)
  \/ RecordWrite(r)
  \/ RecordAbort(r)

Reactivate(o) ==
  \/ \E s \in Sources : ReactivateRead(o, s)
  \/ ReactivateWrite(o)
  \/ ReactivateAbort(o)

Next ==
  \/ \E r \in Recorders : Record(r)
  \/ \E o \in Operators : Reactivate(o)

Spec == Init /\ [][Next]_vars

\* The scheduler keeps triggering cycles, which record a source that keeps
\* failing unless it is suppressed, and the database does not fail every one of
\* their commits.
Fairness ==
  \A s \in Sources :
    /\ SF_vars(\E r \in Recorders : ~Suppressed(rows[s]) /\ RecordRead(r, s))
    /\ \A r \in Recorders : SF_vars(RecordWrite(r) /\ tx[r].source = s)

FairSpec == Spec /\ Fairness

------------------------------------------------------------------------------
(* Properties *)

TypeOK ==
  /\ rows \in [Sources -> Row \cup {None}]
  /\ tx \in [Recorders -> Tx \cup {None}]
  /\ op \in [Operators -> Sources \cup {None}]
  /\ recorded \in [Sources -> 0 .. Threshold]
  /\ credited \in [Sources -> 0 .. Threshold]
  /\ reactivations \in 0 .. MaxReactivations

\* A row is coherent however recorders and operators interleave: suppressed
\* exactly when its counter has reached the threshold and carries a suppression
\* time, and marked reactivated only with a cleared counter.  Each writer writes
\* several columns computed from a stale read.
Coherent(row) ==
  /\ Suppressed(row) <=> row.consecutiveFailures >= Threshold
  /\ Suppressed(row) <=> row.suppressedAt = "set"
  /\ row.reactivatedAt = "set" => row.consecutiveFailures = 0

RowsCoherent == \A s \in Sources : rows[s] # None => Coherent(rows[s])

\* A source is suppressed only after Threshold of its deterministic failures
\* were committed: overlapping recorders may lose a count, never invent one.
SuppressionIsEarned ==
  \A s \in Sources : Suppressed(rows[s]) => recorded[s] >= Threshold

\* A recorder whose read is still current when it writes never lifts a
\* suppression and never moves the time or counter of one.
CurrentRecorderKeepsSuppression ==
  [][\A r \in Recorders :
       (RecordWrite(r) /\ tx[r].base = rows[tx[r].source]) =>
         (Suppressed(rows[tx[r].source]) =>
            /\ Suppressed(rows'[tx[r].source])
            /\ rows'[tx[r].source].consecutiveFailures
                 = rows[tx[r].source].consecutiveFailures)]_vars

\* A source that keeps failing is in the end suppressed for good, although
\* overlapping recorders may overwrite each other's counts.
PersistentFailureSuppressed ==
  \A s \in Sources : <>[](Suppressed(rows[s]))

\* What docs/DEPLOYMENT.md says of a reactivation: the counter is reset and the
\* source is eligible again, so a suppression after it is earned after it.
ReactivationIsEffective ==
  \A s \in Sources : Suppressed(rows[s]) => credited[s] >= Threshold

==============================================================================
