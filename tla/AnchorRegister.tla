---------------------------- MODULE AnchorRegister ----------------------------
(* What the anchors table promises to its readers, with no word about who     *)
(* synchronizes it: per anchor one register that only ever moves to evidence  *)
(* with a higher synchronization order, where a discovery replaces the whole  *)
(* row and a failed discovery replaces its status alone.                      *)
EXTENDS Naturals

CONSTANTS
  Anchors,
  Orders,  \* the synchronization orders there are, positive numbers
  None

VARIABLE anchors  \* anchors[a]: the row of a, or None

\* The statuses a row is given; anchor_status has DEGRADED, too, which nothing
\* writes.  UNKNOWN is the default of the column.
Statuses == {"LIVE", "DOWN", "UNKNOWN"}

\* lastSyncOrder orders the evidence; details is the order of the discovery that
\* the descriptive columns (name, domain, SEPs) come from.
AnchorRow == [status : Statuses, lastSyncOrder : Nat, details : Nat]

\* Rows written before the ordering migration carry order 0.
Init == anchors \in [Anchors -> {None} \cup
                       [status : Statuses, lastSyncOrder : {0}, details : {0}]]

\* Newer as it must not be: the guard of the statements is dropped.
NewerAlways(a, order) == TRUE

Newer(a, order) == anchors[a] # None => anchors[a].lastSyncOrder < order

Discovered(a, order) ==
  /\ Newer(a, order)
  /\ anchors' = [anchors EXCEPT ![a] =
       [status |-> "LIVE", lastSyncOrder |-> order, details |-> order]]

\* MarkedDown as it must not be: as if the description were new, too.
MarkedDownAnew(a, order) ==
  /\ anchors[a] # None
  /\ Newer(a, order)
  /\ anchors' = [anchors EXCEPT ![a] =
       [status |-> "DOWN", lastSyncOrder |-> order, details |-> order]]

MarkedDown(a, order) ==
  /\ anchors[a] # None
  /\ Newer(a, order)
  /\ anchors' = [anchors EXCEPT ![a] =
       [status |-> "DOWN", lastSyncOrder |-> order, details |-> @.details]]

Next ==
  \E a \in Anchors, order \in Orders :
    Discovered(a, order) \/ MarkedDown(a, order)

Spec == Init /\ [][Next]_anchors
===============================================================================
