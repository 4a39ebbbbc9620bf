------------------------------ MODULE AnchorSync ------------------------------
(***************************************************************************)
(* The registry synchronization of anchors (lib/stellar/anchorSync.ts),    *)
(* run by the bootstrap job (scripts/bootstrap-registry.ts).               *)
(*                                                                         *)
(* A synchronization draws one number from anchor_sync_order_seq and then, *)
(* anchor by anchor, discovers and writes.  Nothing excludes a second job, *)
(* and a discovery may take arbitrarily long, so writes of an older number *)
(* arrive after those of a newer one: every write is guarded by            *)
(* last_sync_order.                                                        *)
(*                                                                         *)
(* Simplifications: the descriptive columns of a row are the number of the *)
(* discovery they come from.  The anchors of the registry are independent  *)
(* of one another, so a synchronization visits them in any order.          *)
(***************************************************************************)
EXTENDS Naturals

CONSTANTS
  Anchors,   \* the slugs of ANCHOR_REGISTRY
  Syncs,     \* bootstrap jobs that may run at once
  MaxOrder,  \* bound: synchronizations started
  None

VARIABLES
  anchors,   \* the anchors table, see AnchorRegister
  sequence,  \* the last number drawn from anchor_sync_order_seq
  sync       \* sync[p]: the local state of job p

vars == <<anchors, sequence, sync>>

Register == INSTANCE AnchorRegister WITH Orders <- 1 .. MaxOrder

ASSUME BoundAssumption == MaxOrder \in Nat
\* What syncAnchorRegistry reports of an anchor: the slug is in successfulSlugs,
\* or the code or status update of its failure.
Outcomes == {"SUCCEEDED", "STALE_WRITE_REJECTED", "PERSISTENCE_FAILURE",
             "MARKED_DOWN", "STALE", "NOT_FOUND", "FAILED", "NOT_ATTEMPTED"}

ASSUME NoneAssumption ==
  None \notin Anchors /\ None \notin Outcomes /\ None \notin Register!AnchorRow

Steps == {"idle", "next", "persist", "reread", "mark", "probe"}

Idle == [pc |-> "idle", order |-> 0, current |-> None,
         outcome |-> [a \in Anchors |-> None]]

------------------------------------------------------------------------------
Init ==
  /\ Register!Init
  /\ sequence = 0
  /\ sync = [p \in Syncs |-> Idle]

At(p, pc) == sync[p].pc = pc

Become(p, pc, current, outcome) ==
  sync' = [sync EXCEPT ![p] = [pc |-> pc, order |-> sync[p].order,
                               current |-> current, outcome |-> outcome]]

\* The anchor p is working on is done with, and this is reported of it.
Report(p, o) ==
  Become(p, "next", None, [sync[p].outcome EXCEPT ![sync[p].current] = o])

Finished(p) == At(p, "next") /\ \A a \in Anchors : sync[p].outcome[a] # None

\* AllocateOrder as it must not be: the number is the highest in the table plus
\* one.
AllocateFromTable(p) ==
  LET taken == {0} \cup {anchors[a].lastSyncOrder : a \in {b \in Anchors : anchors[b] # None}}
  IN  /\ At(p, "idle") \/ Finished(p)
      /\ sequence < MaxOrder
      /\ \E n \in taken :
           /\ \A m \in taken : m <= n
           /\ sequence' = n + 1
           /\ sync' = [sync EXCEPT ![p] =
                [pc |-> "next", order |-> n + 1, current |-> None,
                 outcome |-> [a \in Anchors |-> None]]]
      /\ UNCHANGED anchors

\* allocateAnchorSyncOrder: nextval never hands out a number twice, whether or
\* not the job that drew it survives.
AllocateOrder(p) ==
  /\ At(p, "idle") \/ Finished(p)
  /\ sequence < MaxOrder
  /\ sequence' = sequence + 1
  /\ sync' = [sync EXCEPT ![p] =
       [pc |-> "next", order |-> sequence + 1, current |-> None,
        outcome |-> [a \in Anchors |-> None]]]
  /\ UNCHANGED anchors

\* discover: the anchor answers, fails, or is refused by the egress policy, in
\* which case its row is left alone.
Discover(p, a) ==
  /\ At(p, "next")
  /\ sync[p].outcome[a] = None
  /\ \/ \E pc \in {"persist", "mark"} :
          Become(p, pc, a, sync[p].outcome)
     \/ Become(p, "next", None, [sync[p].outcome EXCEPT ![a] = "NOT_ATTEMPTED"])
  /\ UNCHANGED <<anchors, sequence>>

\* persistDiscoveredAnchor: INSERT ... ON CONFLICT (slug) DO UPDATE ...
\* WHERE anchors.last_sync_order < EXCLUDED.last_sync_order
PersistApplies(p) ==
  /\ At(p, "persist")
  /\ Register!Discovered(sync[p].current, sync[p].order)
  /\ Become(p, "reread", sync[p].current, sync[p].outcome)
  /\ UNCHANGED sequence

PersistRejected(p) ==
  /\ At(p, "persist")
  /\ ~Register!Newer(sync[p].current, sync[p].order)
  /\ Report(p, "STALE_WRITE_REJECTED")
  /\ UNCHANGED <<anchors, sequence>>

\* PersistFails as it must not be: the failure is taken for a write not tried.
PersistFailsUntried(p) ==
  /\ At(p, "persist")
  /\ \/ UNCHANGED anchors
     \/ Register!Discovered(sync[p].current, sync[p].order)
  /\ Report(p, "NOT_ATTEMPTED")
  /\ UNCHANGED sequence

\* The statement fails, or commits and its answer is lost.
PersistFails(p) ==
  /\ At(p, "persist")
  /\ \/ UNCHANGED anchors
     \/ Register!Discovered(sync[p].current, sync[p].order)
  /\ Report(p, "PERSISTENCE_FAILURE")
  /\ UNCHANGED sequence

\* findUniqueOrThrow of the row just written; its throw is a failure to persist.
Reread(p) ==
  /\ At(p, "reread")
  /\ \/ Report(p, "SUCCEEDED")
     \/ Report(p, "PERSISTENCE_FAILURE")
  /\ UNCHANGED <<anchors, sequence>>

\* MarkDownApplies as it must not be: the row is matched by its slug alone.
MarkDownBySlug(p) ==
  /\ At(p, "mark")
  /\ anchors[sync[p].current] # None
  /\ anchors' = [anchors EXCEPT ![sync[p].current] =
       [status |-> "DOWN", lastSyncOrder |-> sync[p].order, details |-> @.details]]
  /\ Report(p, "MARKED_DOWN")
  /\ UNCHANGED sequence

\* markAnchorDownIfExists: UPDATE ... WHERE slug = ... AND last_sync_order < order
MarkDownApplies(p) ==
  /\ At(p, "mark")
  /\ Register!MarkedDown(sync[p].current, sync[p].order)
  /\ Report(p, "MARKED_DOWN")
  /\ UNCHANGED sequence

MarkDownMatchesNothing(p) ==
  /\ At(p, "mark")
  /\ \/ anchors[sync[p].current] = None
     \/ ~Register!Newer(sync[p].current, sync[p].order)
  /\ Become(p, "probe", sync[p].current, sync[p].outcome)
  /\ UNCHANGED <<anchors, sequence>>

\* A second query tells why nothing matched, from the table as it is by then.
Probe(p) ==
  /\ At(p, "probe")
  /\ Report(p, IF anchors[sync[p].current] = None THEN "NOT_FOUND" ELSE "STALE")
  /\ UNCHANGED <<anchors, sequence>>

\* safelyMarkDown: either query fails, or the update commits unheard.
MarkDownFails(p) ==
  /\ At(p, "mark") \/ At(p, "probe")
  /\ \/ UNCHANGED anchors
     \/ At(p, "mark") /\ Register!MarkedDown(sync[p].current, sync[p].order)
  /\ Report(p, "FAILED")
  /\ UNCHANGED sequence

Crash(p) ==
  /\ ~At(p, "idle") /\ ~Finished(p)
  /\ sync' = [sync EXCEPT ![p] = Idle]
  /\ UNCHANGED <<anchors, sequence>>

------------------------------------------------------------------------------
Work(p) ==
  \/ \E a \in Anchors : Discover(p, a)
  \/ PersistApplies(p) \/ PersistRejected(p) \/ PersistFails(p) \/ Reread(p)
  \/ MarkDownApplies(p) \/ MarkDownMatchesNothing(p) \/ Probe(p)
  \/ MarkDownFails(p)

Next == \E p \in Syncs : AllocateOrder(p) \/ Work(p) \/ Crash(p)

Spec == Init /\ [][Next]_vars

------------------------------------------------------------------------------
(* Properties *)

TypeOK ==
  /\ anchors \in [Anchors -> Register!AnchorRow \cup {None}]
  /\ sequence \in 0 .. MaxOrder
  /\ sync \in [Syncs -> [pc : Steps, order : 0 .. MaxOrder,
                         current : Anchors \cup {None},
                         outcome : [Anchors -> Outcomes \cup {None}]]]

Working(p) == ~At(p, "idle")

\* Numbers identify jobs: no two working jobs hold the same one, and none is
\* ahead of the sequence.  The guards below compare nothing but these numbers.
OrdersAreUnique ==
  /\ \A p \in Syncs : Working(p) => sync[p].order \in 1 .. sequence
  /\ \A p, q \in Syncs :
       (Working(p) /\ Working(q) /\ p # q) => sync[p].order # sync[q].order

\* The columns of a row belong together: a LIVE row describes the anchor as the
\* job that made it LIVE discovered it, and a row marked DOWN keeps an older
\* description.  Rows from before the migration are exempt.
RowsAreWhole ==
  \A a \in Anchors : (anchors[a] # None /\ anchors[a].lastSyncOrder > 0) =>
    /\ anchors[a].lastSyncOrder <= sequence
    /\ anchors[a].status = "LIVE" => anchors[a].details = anchors[a].lastSyncOrder
    /\ anchors[a].status = "DOWN" => anchors[a].details < anchors[a].lastSyncOrder
    /\ anchors[a].status # "UNKNOWN"

\* A job that reports having applied something, or having been overtaken, is
\* right: the row carries its evidence or newer evidence, now and ever after.
\* STALE is not in the list: the probe may find a row an older job inserted
\* after the guarded update matched nothing.
ReportsAreTrue ==
  \A p \in Syncs, a \in Anchors :
    /\ sync[p].outcome[a] \in {"SUCCEEDED", "MARKED_DOWN"} =>
         anchors[a] # None /\ anchors[a].lastSyncOrder >= sync[p].order
    /\ sync[p].outcome[a] = "STALE_WRITE_REJECTED" =>
         anchors[a] # None /\ anchors[a].lastSyncOrder > sync[p].order

\* A row that carries the number of a working job was written by that job, which
\* is between the write and its report, reported it, or reported a failure whose
\* commit it could not see: never an outcome that denies the write.
WritesAreReported ==
  \A p \in Syncs, a \in Anchors :
    (Working(p) /\ anchors[a] # None /\ anchors[a].lastSyncOrder = sync[p].order) =>
      \/ At(p, "reread") /\ sync[p].current = a /\ anchors[a].status = "LIVE"
      \/ /\ anchors[a].status = "LIVE"
         /\ sync[p].outcome[a] \in {"SUCCEEDED", "PERSISTENCE_FAILURE"}
      \/ /\ anchors[a].status = "DOWN"
         /\ sync[p].outcome[a] \in {"MARKED_DOWN", "FAILED"}

\* However jobs interleave, fail and die, the table behaves as registers that
\* only move to newer evidence.
ImplementsRegister == Register!Spec

===============================================================================
