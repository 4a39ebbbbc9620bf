----------------------------- MODULE AdvisoryLock -----------------------------
(***************************************************************************)
(* withAdvisoryLock (lib/scheduled/advisoryLockClient.ts): a PostgreSQL    *)
(* session lock, tried without waiting, held on a pooled connection while  *)
(* a body runs.                                                            *)
(*                                                                         *)
(* The lock belongs to the session, not to the caller.  A session that     *)
(* dies frees it under a running body; an unlock that fails on a session   *)
(* that lives leaves it locked on a connection that goes back to the pool, *)
(* where the next caller that draws that connection locks it once more.    *)
(*                                                                         *)
(* Simplifications: one key, as different keys never meet.  A connection   *)
(* of the pool is a slot; opening a new session in a slot is part of the   *)
(* checkout that needs it.                                                 *)
(***************************************************************************)
EXTENDS Naturals, FiniteSets

CONSTANTS
  Callers,     \* invocations of withAdvisoryLock that may overlap
  Connections, \* the slots of the pool
  MaxErrors,   \* bound: statements and releases that fail on a live session
  None

ASSUME BoundAssumption == MaxErrors \in Nat
ASSUME PoolAssumption == IsFiniteSet(Connections)

VARIABLES
  session,  \* session[k] \in {"closed", "open"}
  depth,    \* depth[k]: how often the session of k has locked the key
  user,     \* user[k]: the caller that has k checked out, or None
  call,     \* call[c]: the local state of caller c
  orphans,  \* history: orphans[k] unlocks failed on the session of k, which lived
  errors    \* see MaxErrors

vars == <<session, depth, user, call, orphans, errors>>

Steps == {"idle", "checkout", "acquire", "body", "unlock", "release"}
Results == {"result", "already_held", "body_error", "operation_error", "cleanup_error"}

ASSUME NoneAssumption == None \notin Callers \cup Connections \cup Results

\* completed: what the lock and the body came to, before cleaning up.  returned:
\* what the call came to.
Call == [pc : Steps, connection : Connections \cup {None},
         completed : {"result", "body_error", "operation_error", None},
         returned : Results \cup {None}]

Idle == [pc |-> "idle", connection |-> None, completed |-> None, returned |-> None]

Init ==
  /\ session = [k \in Connections |-> "closed"]
  /\ depth = [k \in Connections |-> 0]
  /\ user = [k \in Connections |-> None]
  /\ call = [c \in Callers |-> Idle]
  /\ orphans = [k \in Connections |-> 0]
  /\ errors = 0

At(c, pc) == call[c].pc = pc
ConnectionOf(c) == call[c].connection
IsOpen(k) == session[k] = "open"
HeldElsewhere(k) == \E j \in Connections \ {k} : depth[j] > 0

Goto(c, pc) == call' = [call EXCEPT ![c].pc = pc]
Finish(c, pc, completed) == call' = [call EXCEPT ![c].pc = pc, ![c].completed = completed]
Return(c, returned) == call' = [call EXCEPT ![c].pc = "idle", ![c].connection = None,
                                            ![c].returned = returned]
OneMoreError == errors < MaxErrors /\ errors' = errors + 1

------------------------------------------------------------------------------
Enter(c) ==
  /\ At(c, "idle")
  /\ call' = [call EXCEPT ![c] = [Idle EXCEPT !.pc = "checkout"]]
  /\ UNCHANGED <<session, depth, user, orphans, errors>>

\* deps.checkoutClient: waits, in order of arrival, for a slot that nobody uses.
Checkout(c, k) ==
  /\ At(c, "checkout")
  /\ user[k] = None
  /\ user' = [user EXCEPT ![k] = c]
  /\ session' = [session EXCEPT ![k] = "open"]
  /\ call' = [call EXCEPT ![c].pc = "acquire", ![c].connection = k]
  /\ UNCHANGED <<depth, orphans, errors>>

\* A checkout that fails is before the try block: nothing is cleaned up.
CheckoutFails(c) ==
  /\ At(c, "checkout")
  /\ OneMoreError
  /\ Return(c, "operation_error")
  /\ UNCHANGED <<session, depth, user, orphans>>

\* Acquire as it must not be: any answer counts as a yes.
AcquireOnAnyAnswer(c) ==
  /\ At(c, "acquire")
  /\ IsOpen(ConnectionOf(c))
  /\ depth' = [depth EXCEPT ![ConnectionOf(c)] = @ + 1]
  /\ Goto(c, "body")
  /\ UNCHANGED <<session, user, orphans, errors>>

\* tryAcquire: a session that has the lock gets it again.
Acquire(c) ==
  LET k == ConnectionOf(c) IN
  /\ At(c, "acquire")
  /\ IsOpen(k)
  /\ ~HeldElsewhere(k)
  /\ depth' = [depth EXCEPT ![k] = @ + 1]
  /\ Goto(c, "body")
  /\ UNCHANGED <<session, user, orphans, errors>>

\* AlreadyHeld as it must not be: the cleanup unlocks anyway; an early return.
AlreadyHeldUnlocks(c) ==
  /\ At(c, "acquire")
  /\ IsOpen(ConnectionOf(c))
  /\ HeldElsewhere(ConnectionOf(c))
  /\ Goto(c, "unlock")
  /\ UNCHANGED <<session, depth, user, orphans, errors>>
AlreadyHeldReturns(c) ==
  /\ At(c, "acquire")
  /\ IsOpen(ConnectionOf(c))
  /\ HeldElsewhere(ConnectionOf(c))
  /\ Return(c, "already_held")
  /\ UNCHANGED <<session, depth, user, orphans, errors>>

AlreadyHeld(c) ==
  /\ At(c, "acquire")
  /\ IsOpen(ConnectionOf(c))
  /\ HeldElsewhere(ConnectionOf(c))
  /\ Goto(c, "release")
  /\ UNCHANGED <<session, depth, user, orphans, errors>>

\* On a dead session a statement always fails, on a live one it may.
StatementFails(c) ==
  \/ ~IsOpen(ConnectionOf(c)) /\ UNCHANGED errors
  \/ IsOpen(ConnectionOf(c)) /\ OneMoreError

AcquireFails(c) ==
  /\ At(c, "acquire")
  /\ StatementFails(c)
  /\ Finish(c, "release", "operation_error")
  /\ UNCHANGED <<session, depth, user, orphans>>

\* BodyEnds as it must not be: a body that throws skips the unlock.
BodyEndsWithoutFinally(c) ==
  /\ At(c, "body")
  /\ Finish(c, "unlock", "result") \/ Finish(c, "release", "body_error")
  /\ UNCHANGED <<session, depth, user, orphans, errors>>

\* The body ends, however it ends, whether or not the session is still there.
BodyEnds(c) ==
  /\ At(c, "body")
  /\ \E completed \in {"result", "body_error"} : Finish(c, "unlock", completed)
  /\ UNCHANGED <<session, depth, user, orphans, errors>>

Unlock(c) ==
  LET k == ConnectionOf(c) IN
  /\ At(c, "unlock")
  /\ IsOpen(k)
  /\ depth' = [depth EXCEPT ![k] = @ - 1]
  /\ Goto(c, "release")
  /\ UNCHANGED <<session, user, orphans, errors>>

\* unlockQuietly records the failure and goes on.
UnlockFails(c) ==
  LET k == ConnectionOf(c) IN
  /\ At(c, "unlock")
  /\ StatementFails(c)
  /\ orphans' = [orphans EXCEPT ![k] = IF IsOpen(k) THEN @ + 1 ELSE @]
  /\ Goto(c, "release")
  /\ UNCHANGED <<session, depth, user>>

\* What the call comes to once its connection is returned.
Outcome(c) == IF call[c].completed = None THEN "already_held" ELSE call[c].completed

\* ReturnConnection as it must not be: a dead connection is not returned.
ReturnLiveConnection(c) ==
  /\ At(c, "release")
  /\ IsOpen(ConnectionOf(c))
  /\ user' = [user EXCEPT ![ConnectionOf(c)] = None]
  /\ Return(c, Outcome(c))
  /\ UNCHANGED <<session, depth, orphans, errors>>

ReturnConnection(c) ==
  /\ At(c, "release")
  /\ user' = [user EXCEPT ![ConnectionOf(c)] = None]
  /\ Return(c, Outcome(c))
  /\ UNCHANGED <<session, depth, orphans, errors>>

\* ReturnConnectionFails as it must not be: the failure is recorded, and that is all.
ReturnConnectionQuietly(c) ==
  /\ At(c, "release")
  /\ OneMoreError
  /\ Return(c, Outcome(c))
  /\ UNCHANGED <<session, depth, user, orphans>>

\* releaseClient throws: the pool still counts the slot as used.
ReturnConnectionFails(c) ==
  /\ At(c, "release")
  /\ OneMoreError
  /\ Return(c, IF Outcome(c) \in {"body_error", "operation_error"}
                 THEN Outcome(c) ELSE "cleanup_error")
  /\ UNCHANGED <<session, depth, user, orphans>>

\* A connection is lost, or the pool closes one that nobody has used for a while:
\* PostgreSQL frees the locks of a session that ends.
SessionEnds(k) ==
  /\ IsOpen(k)
  /\ session' = [session EXCEPT ![k] = "closed"]
  /\ depth' = [depth EXCEPT ![k] = 0]
  /\ orphans' = [orphans EXCEPT ![k] = 0]
  /\ UNCHANGED <<user, call, errors>>

\* The server process dies with every call in it, and its sessions with it.
ProcessDies ==
  /\ session' = [k \in Connections |-> "closed"]
  /\ depth' = [k \in Connections |-> 0]
  /\ user' = [k \in Connections |-> None]
  /\ call' = [c \in Callers |-> Idle]
  /\ orphans' = [k \in Connections |-> 0]
  /\ UNCHANGED errors

------------------------------------------------------------------------------
Proceed(c) ==
  \/ Acquire(c) \/ AlreadyHeld(c) \/ AcquireFails(c) \/ BodyEnds(c)
  \/ Unlock(c) \/ UnlockFails(c) \/ ReturnConnection(c) \/ ReturnConnectionFails(c)

Next ==
  \/ \E c \in Callers : Enter(c) \/ CheckoutFails(c) \/ Proceed(c)
  \/ \E c \in Callers, k \in Connections : Checkout(c, k)
  \/ \E k \in Connections : SessionEnds(k)
  \/ ProcessDies

Spec == Init /\ [][Next]_vars

\* A started call goes on as long as its body does end; the pool serves waiting
\* callers in order of arrival, so none is passed over for ever.
Fairness ==
  \A c \in Callers :
    /\ WF_vars(Proceed(c))
    /\ SF_vars(\E k \in Connections : Checkout(c, k))

FairSpec == Spec /\ Fairness

------------------------------------------------------------------------------
(* Properties *)

TypeOK ==
  /\ session \in [Connections -> {"closed", "open"}]
  /\ depth \in [Connections -> Nat]
  /\ user \in [Connections -> Callers \cup {None}]
  /\ call \in [Callers -> Call]
  /\ orphans \in [Connections -> Nat]
  /\ errors \in 0 .. MaxErrors

\* The caller whose body a live session protects.
Protects(c, k) == call[c].connection = k /\ call[c].pc \in {"body", "unlock"} /\ IsOpen(k)

\* Bodies exclude each other as long as their sessions live: no two sessions
\* hold the key, so two bodies overlap only after one lost its session.
MutualExclusion ==
  \A c, d \in Callers, k, j \in Connections :
    (Protects(c, k) /\ Protects(d, j)) => c = d

\* The depth of a lock is explained: one for a body that runs on a session that
\* lived since, one for each unlock that failed.  In particular a call that was
\* told already_held, or whose acquisition failed, never unlocks.
LocksAccounted ==
  \A k \in Connections : IsOpen(k) =>
    depth[k] = orphans[k] + (IF \E c \in Callers : Protects(c, k) THEN 1 ELSE 0)

\* A call that has a connection is the one the pool counts for it; and of the
\* connections the pool counts as used and no call has, there is at most one for
\* each error.
ConnectionsAccounted ==
  /\ \A c \in Callers : ConnectionOf(c) # None => user[ConnectionOf(c)] = c
  /\ Cardinality({k \in Connections : user[k] # None /\ ConnectionOf(user[k]) # k}) <= errors

\* What call c has to show for its report: the pool has its connection back, or
\* still counts it as used by c.
GaveBack(c) == user'[ConnectionOf(c)] = None
StillHolds(c) == user'[ConnectionOf(c)] = c

\* A call reports a result only if its body came to it, and already_held only if
\* no body ran, and either only if its connection went back to the pool; it reports
\* a failed cleanup only if nothing failed before and its connection is lost; and
\* the first error, of the acquisition or of the body, is the one it reports.
OutcomesAreHonest ==
  [][\A c \in Callers :
       LET completed == call[c].completed
           report == call'[c].returned
       IN  (report # call[c].returned /\ report # None) =>
             /\ report = "result" => completed = "result" /\ GaveBack(c)
             /\ report = "already_held" => completed = None /\ GaveBack(c)
             /\ report = "cleanup_error" => completed \in {"result", None} /\ StillHolds(c)
             /\ completed \in {"body_error", "operation_error"} => report = completed]_vars

\* A call that waits for a connection gets one, or fails, unless failed returns
\* have used up the pool.
EveryCallIsServed ==
  \A c \in Callers :
    At(c, "checkout") ~>
      (~At(c, "checkout") \/ \A k \in Connections :
                               user[k] # None /\ ConnectionOf(user[k]) # k)

===============================================================================
