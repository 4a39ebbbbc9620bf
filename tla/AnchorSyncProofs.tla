--------------------------- MODULE AnchorSyncProofs ---------------------------
(* Proofs about AnchorSync for any sets of anchors and jobs.                  *)
(*                                                                            *)
(* Every write to the table is one of the two writes of AnchorRegister with   *)
(* the number of the job (lemma TableStep), and every action but the start of *)
(* a job, of a discovery or of a second query ends in a report (lemma         *)
(* ReportStep).  The strengthening says what a job knows between two queries. *)
EXTENDS AnchorSync, TLAPS

Busy == {"persist", "reread", "mark", "probe"}

\* A job that is busy works on an anchor it has reported nothing of.
BusyCoherent ==
  \A p \in Syncs : sync[p].pc \in Busy =>
    /\ sync[p].current \in Anchors
    /\ sync[p].outcome[sync[p].current] = None

\* No row is ahead of the sequence.
RowsBounded ==
  \A a \in Anchors : anchors[a] # None => anchors[a].lastSyncOrder <= sequence

\* No row is described by evidence newer than its own.
DetailsBounded ==
  \A a \in Anchors :
    anchors[a] # None => anchors[a].details <= anchors[a].lastSyncOrder

\* Between its write and its second query a job's row is there, not older.
JustWritten ==
  \A p \in Syncs : sync[p].pc = "reread" =>
    /\ anchors[sync[p].current] # None
    /\ anchors[sync[p].current].lastSyncOrder >= sync[p].order

IInv ==
  /\ TypeOK /\ BusyCoherent /\ RowsBounded /\ DetailsBounded /\ JustWritten
  /\ OrdersAreUnique /\ RowsAreWhole /\ ReportsAreTrue /\ WritesAreReported

\* What a job does to the table in one step.
TableWrite(p) ==
  \/ UNCHANGED anchors
  \/ Register!Discovered(sync[p].current, sync[p].order)
  \/ Register!MarkedDown(sync[p].current, sync[p].order)

------------------------------------------------------------------------------
\* One write touches one row, and moves it to the job's number or not at all.
LEMMA TableStep ==
  ASSUME IInv, NEW p \in Syncs, sync[p].pc \in Busy,
         TableWrite(p), UNCHANGED sequence
  PROVE  /\ anchors' \in [Anchors -> Register!AnchorRow \cup {None}]
         /\ \A a \in Anchors :
              \/ anchors'[a] = anchors[a]
              \/ /\ a = sync[p].current
                 /\ anchors'[a] # None
                 /\ anchors'[a].lastSyncOrder = sync[p].order
         /\ \A a \in Anchors : anchors[a] # None =>
              /\ anchors'[a] # None
              /\ anchors[a].lastSyncOrder <= anchors'[a].lastSyncOrder
         /\ RowsAreWhole' /\ RowsBounded' /\ DetailsBounded'
  <1> DEFINE c == sync[p].current
             n == sync[p].order
  <1>1. /\ c \in Anchors
        /\ n \in 1 .. sequence /\ n \in Nat /\ sequence \in Nat
        /\ anchors \in [Anchors -> Register!AnchorRow \cup {None}]
    <2>1. c \in Anchors
      BY DEF IInv, BusyCoherent
    <2>2. n \in 1 .. sequence
      BY DEF IInv, OrdersAreUnique, Working, At, Busy
    <2> QED
      BY <2>1, <2>2, BoundAssumption DEF IInv, TypeOK
  <1>2. \A a \in Anchors : anchors[a] # None =>
          anchors[a] \in Register!AnchorRow /\ anchors[a].lastSyncOrder \in Nat
    BY <1>1 DEF Register!AnchorRow
  <1>3. CASE UNCHANGED anchors
    BY <1>1, <1>2, <1>3 DEF IInv, RowsAreWhole, RowsBounded, DetailsBounded
  <1>4. CASE Register!Discovered(c, n)
    <2> DEFINE row == [status |-> "LIVE", lastSyncOrder |-> n, details |-> n]
    <2>1. row \in Register!AnchorRow /\ row # None
      BY <1>1, NoneAssumption DEF Register!AnchorRow, Register!Statuses
    <2>2. anchors' = [anchors EXCEPT ![c] = row]
      BY <1>4 DEF Register!Discovered
    <2>3. anchors[c] # None => anchors[c].lastSyncOrder < n
      BY <1>4 DEF Register!Discovered, Register!Newer
    <2>4. anchors'[c] = row /\ \A a \in Anchors : a # c => anchors'[a] = anchors[a]
      BY <1>1, <2>2
    <2>5. anchors' \in [Anchors -> Register!AnchorRow \cup {None}]
      BY <1>1, <2>1, <2>2
    <2>6. RowsAreWhole' /\ RowsBounded' /\ DetailsBounded'
      BY <1>1, <2>1, <2>4 DEF IInv, RowsAreWhole, RowsBounded, DetailsBounded
    <2> QED
      BY <1>1, <1>2, <2>1, <2>3, <2>4, <2>5, <2>6
  <1>5. CASE Register!MarkedDown(c, n)
    <2> DEFINE row == [status |-> "DOWN", lastSyncOrder |-> n,
                       details |-> anchors[c].details]
    <2>1. anchors[c] # None /\ anchors[c].lastSyncOrder < n
      BY <1>5 DEF Register!MarkedDown, Register!Newer
    <2>2. anchors' = [anchors EXCEPT ![c] = row]
      BY <1>5 DEF Register!MarkedDown
    <2>3. anchors[c] \in Register!AnchorRow
      BY <1>1, <1>2, <2>1
    <2>4. anchors[c].details \in Nat /\ anchors[c].lastSyncOrder \in Nat
      BY <2>3 DEF Register!AnchorRow
    <2>5. row \in Register!AnchorRow /\ row # None
      BY <1>1, <2>4, NoneAssumption DEF Register!AnchorRow, Register!Statuses
    <2>6. anchors'[c] = row /\ \A a \in Anchors : a # c => anchors'[a] = anchors[a]
      BY <1>1, <2>2
    <2>7. anchors' \in [Anchors -> Register!AnchorRow \cup {None}]
      BY <1>1, <2>2, <2>5
    <2>8. anchors[c].details <= anchors[c].lastSyncOrder
      BY <1>1, <2>1, <2>3, <2>4 DEF IInv, DetailsBounded
    <2>9. RowsAreWhole' /\ RowsBounded' /\ DetailsBounded'
      BY <1>1, <2>1, <2>4, <2>5, <2>6, <2>8 DEF IInv, RowsAreWhole, RowsBounded, DetailsBounded
    <2> QED
      BY <1>1, <1>2, <2>1, <2>5, <2>6, <2>7, <2>9
  <1> QED
    BY <1>3, <1>4, <1>5 DEF TableWrite

\* A report keeps the invariant, whatever the step did to the table, provided
\* the report is true of the row.
LEMMA ReportStep ==
  ASSUME IInv, NEW p \in Syncs, sync[p].pc \in Busy,
         TableWrite(p), UNCHANGED sequence,
         NEW o \in Outcomes, Report(p, o),
         LET c == sync[p].current
             n == sync[p].order
         IN  /\ o \in {"SUCCEEDED", "MARKED_DOWN"} =>
                  anchors'[c] # None /\ anchors'[c].lastSyncOrder >= n
             /\ o = "STALE_WRITE_REJECTED" =>
                  anchors'[c] # None /\ anchors'[c].lastSyncOrder > n
             /\ (anchors'[c] # None /\ anchors'[c].lastSyncOrder = n) =>
                  \/ anchors'[c].status = "LIVE" /\ o \in {"SUCCEEDED", "PERSISTENCE_FAILURE"}
                  \/ anchors'[c].status = "DOWN" /\ o \in {"MARKED_DOWN", "FAILED"}
  PROVE  IInv'
  <1> DEFINE c == sync[p].current
             n == sync[p].order
  <1>1. /\ anchors' \in [Anchors -> Register!AnchorRow \cup {None}]
        /\ \A a \in Anchors :
             \/ anchors'[a] = anchors[a]
             \/ /\ a = c
                /\ anchors'[a] # None
                /\ anchors'[a].lastSyncOrder = n
        /\ \A a \in Anchors : anchors[a] # None =>
             /\ anchors'[a] # None
             /\ anchors[a].lastSyncOrder <= anchors'[a].lastSyncOrder
        /\ RowsAreWhole' /\ RowsBounded' /\ DetailsBounded'
    BY TableStep
  <1>2. c \in Anchors /\ sync[p].outcome[c] = None
    BY DEF IInv, BusyCoherent
  <1>3. /\ sync \in [Syncs -> [pc : Steps, order : 0 .. MaxOrder,
                               current : Anchors \cup {None},
                               outcome : [Anchors -> Outcomes \cup {None}]]]
        /\ sequence \in 0 .. MaxOrder
    BY DEF IInv, TypeOK
  <1>4. sync' = [sync EXCEPT ![p] =
          [pc |-> "next", order |-> n, current |-> None,
           outcome |-> [sync[p].outcome EXCEPT ![c] = o]]]
    BY <1>3 DEF Report, Become
  <1>5. /\ sync'[p] = [pc |-> "next", order |-> n, current |-> None,
                       outcome |-> [sync[p].outcome EXCEPT ![c] = o]]
        /\ \A q \in Syncs : q # p => sync'[q] = sync[q]
    BY <1>3, <1>4
  <1>6. /\ sync'[p].outcome[c] = o
        /\ \A a \in Anchors : a # c => sync'[p].outcome[a] = sync[p].outcome[a]
        /\ \A q \in Syncs : sync'[q].order = sync[q].order
        /\ sync'[p].pc = "next"
    BY <1>2, <1>3, <1>5
  <1>7. TypeOK'
    BY <1>1, <1>2, <1>3, <1>4 DEF TypeOK, Steps
  <1>8. BusyCoherent'
    BY <1>5 DEF IInv, BusyCoherent, Busy
  <1>9. \A a \in Anchors : (anchors[a] # None => anchors[a].lastSyncOrder \in Nat)
                        /\ (anchors'[a] # None => anchors'[a].lastSyncOrder \in Nat)
    BY <1>1 DEF IInv, TypeOK, Register!AnchorRow
  <1>10. \A q \in Syncs : sync[q].order \in Nat
    BY <1>3, BoundAssumption
  <1>11. JustWritten'
    <2> SUFFICES ASSUME NEW q \in Syncs, sync'[q].pc = "reread"
                 PROVE  /\ anchors'[sync'[q].current] # None
                        /\ anchors'[sync'[q].current].lastSyncOrder >= sync'[q].order
      BY DEF JustWritten
    <2>1. q # p /\ sync'[q] = sync[q]
      BY <1>5, <1>6
    <2>2. sync[q].current \in Anchors
      BY <2>1 DEF IInv, BusyCoherent, Busy
    <2> QED
      BY <1>1, <1>9, <1>10, <2>1, <2>2 DEF IInv, JustWritten
  <1>12. OrdersAreUnique'
    BY <1>5, <1>6 DEF IInv, OrdersAreUnique, Working, At, Busy
  <1>13. ReportsAreTrue'
    <2> SUFFICES ASSUME NEW q \in Syncs, NEW a \in Anchors
                 PROVE  /\ sync'[q].outcome[a] \in {"SUCCEEDED", "MARKED_DOWN"} =>
                             /\ anchors'[a] # None
                             /\ anchors'[a].lastSyncOrder >= sync'[q].order
                        /\ sync'[q].outcome[a] = "STALE_WRITE_REJECTED" =>
                             /\ anchors'[a] # None
                             /\ anchors'[a].lastSyncOrder > sync'[q].order
      BY DEF ReportsAreTrue
    <2>1. CASE q = p /\ a = c
      BY <1>6, <2>1
    <2>2. CASE ~(q = p /\ a = c)
      <3>1. sync'[q].outcome[a] = sync[q].outcome[a] /\ sync'[q].order = sync[q].order
        BY <1>5, <1>6, <2>2
      <3> QED
        BY <1>1, <1>9, <1>10, <3>1 DEF IInv, ReportsAreTrue
    <2> QED
      BY <2>1, <2>2
  <1>14. WritesAreReported'
    <2> SUFFICES ASSUME NEW q \in Syncs, NEW a \in Anchors,
                        sync'[q].pc # "idle", anchors'[a] # None,
                        anchors'[a].lastSyncOrder = sync'[q].order
                 PROVE  \/ sync'[q].pc = "reread" /\ sync'[q].current = a /\ anchors'[a].status = "LIVE"
                        \/ /\ anchors'[a].status = "LIVE"
                           /\ sync'[q].outcome[a] \in {"SUCCEEDED", "PERSISTENCE_FAILURE"}
                        \/ /\ anchors'[a].status = "DOWN"
                           /\ sync'[q].outcome[a] \in {"MARKED_DOWN", "FAILED"}
      BY DEF WritesAreReported, Working, At
    <2>1. CASE q = p /\ a = c
      BY <1>6, <2>1
    <2>2. CASE ~(q = p /\ a = c)
      <3>1. /\ sync'[q].outcome[a] = sync[q].outcome[a]
            /\ sync'[q].order = sync[q].order
            /\ sync[q].pc # "idle"
        BY <1>5, <1>6, <2>2 DEF Busy
      <3>2. anchors'[a] = anchors[a]
        <4>1. CASE a = c
          <5>1. q # p /\ sync[q].order # n
            BY <2>2, <3>1, <4>1 DEF IInv, OrdersAreUnique, Working, At, Busy
          <5> QED
            BY <1>1, <3>1, <4>1, <5>1
        <4>2. CASE a # c
          BY <1>1, <4>2
        <4> QED
          BY <4>1, <4>2
      <3>3. \/ sync[q].pc = "reread" /\ sync[q].current = a /\ anchors[a].status = "LIVE"
            \/ anchors[a].status = "LIVE" /\ sync[q].outcome[a] \in {"SUCCEEDED", "PERSISTENCE_FAILURE"}
            \/ anchors[a].status = "DOWN" /\ sync[q].outcome[a] \in {"MARKED_DOWN", "FAILED"}
        BY <3>1, <3>2 DEF IInv, WritesAreReported, Working, At
      <3>4. CASE q = p
        BY <2>2, <3>1, <3>2, <3>3, <3>4
      <3>5. CASE q # p
        BY <1>5, <3>1, <3>2, <3>3, <3>5
      <3> QED
        BY <3>4, <3>5
    <2> QED
      BY <2>1, <2>2
  <1> QED
    BY <1>1, <1>7, <1>8, <1>11, <1>12, <1>13, <1>14 DEF IInv

------------------------------------------------------------------------------
\* What a job may report without having spoken to the database.
Skips(old, new) ==
  \A a \in Anchors : new[a] = old[a] \/ (old[a] = None /\ new[a] = "NOT_ATTEMPTED")

\* A job that only decides what to do next keeps the invariant.
LEMMA QuietStep ==
  ASSUME IInv, NEW p \in Syncs, NEW row, UNCHANGED <<anchors, sequence>>,
         sync' = [sync EXCEPT ![p] = row],
         row \in [pc : Steps, order : 0 .. MaxOrder, current : Anchors \cup {None},
                  outcome : [Anchors -> Outcomes \cup {None}]],
         row.order = sync[p].order,
         row.pc # "idle", row.pc # "reread", sync[p].pc # "idle", sync[p].pc # "reread",
         row.pc \in Busy => row.current \in Anchors /\ row.outcome[row.current] = None,
         Skips(sync[p].outcome, row.outcome)
  PROVE  IInv'
  <1>1. /\ sync \in [Syncs -> [pc : Steps, order : 0 .. MaxOrder,
                               current : Anchors \cup {None},
                               outcome : [Anchors -> Outcomes \cup {None}]]]
        /\ anchors \in [Anchors -> Register!AnchorRow \cup {None}]
        /\ sequence \in 0 .. MaxOrder
        /\ anchors' = anchors /\ sequence' = sequence
    BY DEF IInv, TypeOK
  <1>2. /\ sync'[p] = row
        /\ \A q \in Syncs : q # p => sync'[q] = sync[q]
        /\ \A q \in Syncs : sync'[q].order = sync[q].order
        /\ \A q \in Syncs : sync'[q].pc = "idle" <=> sync[q].pc = "idle"
    BY <1>1
  <1>3. TypeOK'
    BY <1>1 DEF TypeOK
  <1>4. BusyCoherent'
    BY <1>2 DEF IInv, BusyCoherent
  <1>5. RowsBounded' /\ DetailsBounded' /\ RowsAreWhole'
    BY <1>1 DEF IInv, RowsBounded, DetailsBounded, RowsAreWhole
  <1>6. JustWritten'
    BY <1>1, <1>2 DEF IInv, JustWritten
  <1>7. OrdersAreUnique'
    BY <1>1, <1>2 DEF IInv, OrdersAreUnique, Working, At
  <1>8. ReportsAreTrue'
    <2> SUFFICES ASSUME NEW q \in Syncs, NEW a \in Anchors
                 PROVE  /\ sync'[q].outcome[a] \in {"SUCCEEDED", "MARKED_DOWN"} =>
                             anchors[a] # None /\ anchors[a].lastSyncOrder >= sync[q].order
                        /\ sync'[q].outcome[a] = "STALE_WRITE_REJECTED" =>
                             anchors[a] # None /\ anchors[a].lastSyncOrder > sync[q].order
      BY <1>1, <1>2 DEF ReportsAreTrue
    <2>1. /\ sync[q].outcome[a] \in {"SUCCEEDED", "MARKED_DOWN"} =>
               anchors[a] # None /\ anchors[a].lastSyncOrder >= sync[q].order
          /\ sync[q].outcome[a] = "STALE_WRITE_REJECTED" =>
               anchors[a] # None /\ anchors[a].lastSyncOrder > sync[q].order
      BY DEF IInv, ReportsAreTrue
    <2>2. sync'[q].outcome[a] \in {sync[q].outcome[a], "NOT_ATTEMPTED"}
      BY <1>2 DEF Skips
    <2> QED BY <2>1, <2>2
  <1>9. WritesAreReported'
    <2> SUFFICES ASSUME NEW q \in Syncs, NEW a \in Anchors,
                        sync'[q].pc # "idle", anchors[a] # None,
                        anchors[a].lastSyncOrder = sync'[q].order
                 PROVE  \/ sync'[q].pc = "reread" /\ sync'[q].current = a /\ anchors[a].status = "LIVE"
                        \/ /\ anchors[a].status = "LIVE"
                           /\ sync'[q].outcome[a] \in {"SUCCEEDED", "PERSISTENCE_FAILURE"}
                        \/ /\ anchors[a].status = "DOWN"
                           /\ sync'[q].outcome[a] \in {"MARKED_DOWN", "FAILED"}
      BY <1>1 DEF WritesAreReported, Working, At
    <2>1. \/ sync[q].pc = "reread" /\ sync[q].current = a /\ anchors[a].status = "LIVE"
          \/ anchors[a].status = "LIVE" /\ sync[q].outcome[a] \in {"SUCCEEDED", "PERSISTENCE_FAILURE"}
          \/ anchors[a].status = "DOWN" /\ sync[q].outcome[a] \in {"MARKED_DOWN", "FAILED"}
      BY <1>2 DEF IInv, WritesAreReported, Working, At
    <2> QED
      BY <1>2, <2>1, NoneAssumption DEF Outcomes, Skips
  <1> QED
    BY <1>3, <1>4, <1>5, <1>6, <1>7, <1>8, <1>9 DEF IInv

\* A job that starts with a new number, or dies, knows nothing of any anchor.
LEMMA FreshStep ==
  ASSUME IInv, NEW p \in Syncs, NEW pc \in {"idle", "next"}, NEW n \in 0 .. MaxOrder,
         UNCHANGED anchors,
         sync' = [sync EXCEPT ![p] =
           [pc |-> pc, order |-> n, current |-> None,
            outcome |-> [a \in Anchors |-> None]]],
         \/ pc = "idle" /\ sequence' = sequence
         \/ pc = "next" /\ n = sequence + 1 /\ sequence' = n
  PROVE  IInv'
  <1>1. /\ sync \in [Syncs -> [pc : Steps, order : 0 .. MaxOrder,
                               current : Anchors \cup {None},
                               outcome : [Anchors -> Outcomes \cup {None}]]]
        /\ anchors \in [Anchors -> Register!AnchorRow \cup {None}]
        /\ sequence \in 0 .. MaxOrder /\ sequence' \in 0 .. MaxOrder
        /\ anchors' = anchors /\ sequence <= sequence'
    BY BoundAssumption DEF IInv, TypeOK
  <1>2. /\ sync'[p] = [pc |-> pc, order |-> n, current |-> None,
                       outcome |-> [a \in Anchors |-> None]]
        /\ \A q \in Syncs : q # p => sync'[q] = sync[q]
    BY <1>1
  <1>3. \A a \in Anchors : anchors[a] # None =>
          anchors[a].lastSyncOrder \in Nat /\ anchors[a].lastSyncOrder <= sequence
    BY <1>1 DEF IInv, RowsBounded, Register!AnchorRow
  <1>4. TypeOK'
    BY <1>1 DEF TypeOK, Steps
  <1>5. BusyCoherent' /\ JustWritten'
    BY <1>1, <1>2 DEF IInv, BusyCoherent, JustWritten, Busy
  <1>6. RowsBounded' /\ DetailsBounded' /\ RowsAreWhole'
    BY <1>1, <1>3, BoundAssumption
    DEF IInv, RowsBounded, DetailsBounded, RowsAreWhole
  <1>7. OrdersAreUnique'
    <2>1. \A q \in Syncs : sync[q].pc # "idle" => sync[q].order \in 1 .. sequence
      BY DEF IInv, OrdersAreUnique, Working, At
    <2>2. \A q \in Syncs : sync'[q].pc # "idle" => sync'[q].order \in 1 .. sequence'
      BY <1>1, <1>2, <2>1, BoundAssumption
    <2> QED
      BY <1>1, <1>2, <2>1, <2>2 DEF IInv, OrdersAreUnique, Working, At
  <1>8. ReportsAreTrue'
    BY <1>1, <1>2, NoneAssumption DEF IInv, ReportsAreTrue, Outcomes
  <1>9. WritesAreReported'
    <2>1. \A a \in Anchors : (pc = "next" /\ anchors[a] # None) => anchors[a].lastSyncOrder # n
      BY <1>1, <1>3, BoundAssumption
    <2> QED
      BY <1>1, <1>2, <2>1 DEF IInv, WritesAreReported, Working, At
  <1> QED
    BY <1>4, <1>5, <1>6, <1>7, <1>8, <1>9 DEF IInv

------------------------------------------------------------------------------
LEMMA InitIInv == Init => IInv
  <1> SUFFICES ASSUME Init PROVE IInv
    OBVIOUS
  <1>1. /\ anchors \in [Anchors -> {None} \cup
             [status : Register!Statuses, lastSyncOrder : {0}, details : {0}]]
        /\ sequence = 0
        /\ sync = [p \in Syncs |-> Idle]
    BY DEF Init, Register!Init
  <1>2. /\ \A p \in Syncs : sync[p].pc = "idle" /\ sync[p].outcome = [a \in Anchors |-> None]
        /\ \A a \in Anchors : anchors[a] # None =>
             anchors[a].lastSyncOrder = 0 /\ anchors[a].details = 0
    BY <1>1 DEF Idle
  <1>3. TypeOK
    <2>1. anchors \in [Anchors -> Register!AnchorRow \cup {None}]
      BY <1>1 DEF Register!AnchorRow
    <2>2. Idle \in [pc : Steps, order : 0 .. MaxOrder, current : Anchors \cup {None},
                    outcome : [Anchors -> Outcomes \cup {None}]]
      BY BoundAssumption DEF Idle, Steps
    <2> QED
      BY <1>1, <2>1, <2>2, BoundAssumption DEF TypeOK
  <1>4. BusyCoherent /\ RowsBounded /\ DetailsBounded /\ JustWritten
    BY <1>1, <1>2 DEF BusyCoherent, RowsBounded, DetailsBounded, JustWritten, Busy
  <1>5. OrdersAreUnique /\ RowsAreWhole
    BY <1>1, <1>2 DEF OrdersAreUnique, RowsAreWhole, Working, At
  <1>6. ReportsAreTrue /\ WritesAreReported
    BY <1>1, <1>2, NoneAssumption
    DEF ReportsAreTrue, WritesAreReported, Working, At, Outcomes
  <1> QED
    BY <1>3, <1>4, <1>5, <1>6 DEF IInv

LEMMA NextIInv == IInv /\ [Next]_vars => IInv'
  <1> SUFFICES ASSUME IInv, [Next]_vars
               PROVE  IInv'
    OBVIOUS
  <1>0. /\ \A p \in Syncs : sync[p] \in
             [pc : Steps, order : 0 .. MaxOrder, current : Anchors \cup {None},
              outcome : [Anchors -> Outcomes \cup {None}]]
        /\ sequence \in 0 .. MaxOrder
    BY DEF IInv, TypeOK
  <1>1. ASSUME NEW p \in Syncs, AllocateOrder(p)
        PROVE  IInv'
    <2> DEFINE n == sequence + 1
    <2>1. /\ n \in 0 .. MaxOrder /\ n = sequence + 1
          /\ sequence' = n /\ UNCHANGED anchors
          /\ sync' = [sync EXCEPT ![p] =
                [pc |-> "next", order |-> n, current |-> None,
                 outcome |-> [a \in Anchors |-> None]]]
      BY <1>0, <1>1, BoundAssumption DEF AllocateOrder
    <2> HIDE DEF n
    <2> QED
      BY <2>1, FreshStep
  <1>2. ASSUME NEW p \in Syncs, NEW a \in Anchors, Discover(p, a)
        PROVE  IInv'
    <2>1. sync[p].pc = "next" /\ sync[p].outcome[a] = None
          /\ UNCHANGED <<anchors, sequence>>
      BY <1>2 DEF Discover, At
    <2>2. ASSUME NEW pc \in {"persist", "mark"},
                 Become(p, pc, a, sync[p].outcome)
          PROVE  IInv'
      <3> DEFINE row == [pc |-> pc, order |-> sync[p].order, current |-> a,
                         outcome |-> sync[p].outcome]
      <3>1. sync' = [sync EXCEPT ![p] = row]
        BY <2>2 DEF Become
      <3>2. row \in [pc : Steps, order : 0 .. MaxOrder, current : Anchors \cup {None},
                     outcome : [Anchors -> Outcomes \cup {None}]]
        BY <1>0 DEF Steps
      <3> HIDE DEF row
      <3>3. /\ row.order = sync[p].order /\ row.current = a /\ row.pc = pc
            /\ row.outcome = sync[p].outcome
        BY DEF row
      <3> QED
        BY <2>1, <3>1, <3>2, <3>3, QuietStep DEF Skips
    <2>3. ASSUME Become(p, "next", None, [sync[p].outcome EXCEPT ![a] = "NOT_ATTEMPTED"])
          PROVE  IInv'
      <3> DEFINE row == [pc |-> "next", order |-> sync[p].order, current |-> None,
                         outcome |-> [sync[p].outcome EXCEPT ![a] = "NOT_ATTEMPTED"]]
      <3>1. sync' = [sync EXCEPT ![p] = row]
        BY <2>3 DEF Become
      <3>2. row \in [pc : Steps, order : 0 .. MaxOrder, current : Anchors \cup {None},
                     outcome : [Anchors -> Outcomes \cup {None}]]
        BY <1>0 DEF Steps, Outcomes
      <3>3. Skips(sync[p].outcome, row.outcome)
        BY <1>0, <2>1 DEF Skips
      <3>4. /\ row.order = sync[p].order
            /\ row.pc # "idle" /\ row.pc # "reread" /\ row.pc \notin Busy
        BY DEF Busy
      <3>5. sync[p].pc # "idle" /\ sync[p].pc # "reread"
        BY <2>1
      <3>6. row.pc \in Busy => row.current \in Anchors /\ row.outcome[row.current] = None
        BY <3>4
      <3> HIDE DEF row
      <3> QED
        BY <2>1, <3>1, <3>2, <3>3, <3>4, <3>5, <3>6, QuietStep
    <2> QED
      BY <1>2, <2>2, <2>3 DEF Discover
  <1>3. ASSUME NEW p \in Syncs, PersistApplies(p)
        PROVE  IInv'
    <2> DEFINE c == sync[p].current
               n == sync[p].order
    <2>1. /\ sync[p].pc = "persist"
          /\ Register!Discovered(c, n)
          /\ sync' = [sync EXCEPT ![p] =
                [pc |-> "reread", order |-> n, current |-> c, outcome |-> sync[p].outcome]]
          /\ UNCHANGED sequence
      BY <1>3 DEF PersistApplies, Become, At
    <2>2. /\ anchors' \in [Anchors -> Register!AnchorRow \cup {None}]
          /\ \A a \in Anchors : a # c => anchors'[a] = anchors[a]
          /\ \A a \in Anchors : anchors[a] # None =>
               anchors'[a] # None /\ anchors[a].lastSyncOrder <= anchors'[a].lastSyncOrder
          /\ RowsAreWhole' /\ RowsBounded' /\ DetailsBounded'
      <3>1. sync[p].pc \in Busy /\ TableWrite(p)
        BY <2>1 DEF Busy, TableWrite
      <3>2. \A a \in Anchors : a # c => anchors'[a] = anchors[a]
        BY <2>1, <3>1, TableStep
      <3> QED
        BY <2>1, <3>1, <3>2, TableStep
    <2>3. c \in Anchors /\ sync[p].outcome[c] = None
      BY <2>1 DEF IInv, BusyCoherent, Busy
    <2>4. anchors'[c] = [status |-> "LIVE", lastSyncOrder |-> n, details |-> n]
          /\ anchors'[c] # None
      BY <2>1, <2>3, <1>0, NoneAssumption, BoundAssumption
      DEF Register!Discovered, Register!AnchorRow, Register!Statuses, IInv, TypeOK
    <2>5. /\ \A q \in Syncs : /\ sync'[q].order = sync[q].order
                              /\ sync'[q].outcome = sync[q].outcome
                              /\ sync'[q].current = sync[q].current
                              /\ sync'[q].pc = IF q = p THEN "reread" ELSE sync[q].pc
          /\ sync' \in [Syncs -> [pc : Steps, order : 0 .. MaxOrder,
                                  current : Anchors \cup {None},
                                  outcome : [Anchors -> Outcomes \cup {None}]]]
      BY <1>0, <2>1 DEF IInv, TypeOK, Steps
    <2>6. TypeOK'
      BY <1>0, <2>1, <2>2, <2>5 DEF TypeOK
    <2>7. BusyCoherent'
      BY <2>1, <2>5 DEF IInv, BusyCoherent, Busy
    <2>8. \A q \in Syncs : sync[q].order \in Nat
      BY <1>0, BoundAssumption
    <2>9. \A a \in Anchors : (anchors[a] # None => anchors[a].lastSyncOrder \in Nat)
                          /\ (anchors'[a] # None => anchors'[a].lastSyncOrder \in Nat)
      BY <2>2 DEF IInv, TypeOK, Register!AnchorRow
    <2>10. JustWritten'
      <3> SUFFICES ASSUME NEW q \in Syncs, sync'[q].pc = "reread"
                   PROVE  /\ anchors'[sync[q].current] # None
                          /\ anchors'[sync[q].current].lastSyncOrder >= sync[q].order
        BY <2>5 DEF JustWritten
      <3>1. CASE q = p
        BY <2>4, <2>8, <3>1
      <3>2. CASE q # p
        <4>1. sync[q].pc = "reread" /\ sync[q].current \in Anchors
          BY <2>5, <3>2 DEF IInv, BusyCoherent, Busy
        <4> QED
          BY <2>2, <2>8, <2>9, <4>1 DEF IInv, JustWritten
      <3> QED
        BY <3>1, <3>2
    <2>11. OrdersAreUnique'
      BY <2>1, <2>5 DEF IInv, OrdersAreUnique, Working, At
    <2>12. ReportsAreTrue'
      BY <2>2, <2>5, <2>8, <2>9 DEF IInv, ReportsAreTrue
    <2>13. WritesAreReported'
      <3> SUFFICES ASSUME NEW q \in Syncs, NEW a \in Anchors,
                          sync'[q].pc # "idle", anchors'[a] # None,
                          anchors'[a].lastSyncOrder = sync[q].order
                   PROVE  \/ sync'[q].pc = "reread" /\ sync[q].current = a /\ anchors'[a].status = "LIVE"
                          \/ /\ anchors'[a].status = "LIVE"
                             /\ sync[q].outcome[a] \in {"SUCCEEDED", "PERSISTENCE_FAILURE"}
                          \/ /\ anchors'[a].status = "DOWN"
                             /\ sync[q].outcome[a] \in {"MARKED_DOWN", "FAILED"}
        BY <2>5 DEF WritesAreReported, Working, At
      <3>1. sync[q].pc # "idle"
        BY <2>1, <2>5
      <3>2. CASE a = c
        <4>1. sync[q].order = n
          BY <2>4, <3>2
        <4>2. q = p
          BY <2>1, <3>1, <4>1 DEF IInv, OrdersAreUnique, Working, At
        <4> QED
          BY <2>4, <2>5, <3>2, <4>2
      <3>3. CASE a # c
        <4>1. anchors'[a] = anchors[a]
          BY <2>2, <3>3
        <4> QED
          BY <2>1, <2>5, <3>1, <4>1 DEF IInv, WritesAreReported, Working, At
      <3> QED
        BY <3>2, <3>3
    <2> QED
      BY <2>2, <2>6, <2>7, <2>10, <2>11, <2>12, <2>13 DEF IInv
  <1>4. ASSUME NEW p \in Syncs, PersistRejected(p)
        PROVE  IInv'
    <2>1. /\ sync[p].pc \in Busy /\ TableWrite(p) /\ UNCHANGED <<anchors, sequence>>
          /\ ~Register!Newer(sync[p].current, sync[p].order)
          /\ Report(p, "STALE_WRITE_REJECTED")
      BY <1>4 DEF PersistRejected, At, Busy, TableWrite
    <2>2. sync[p].current \in Anchors /\ sync[p].outcome[sync[p].current] = None
      BY <2>1 DEF IInv, BusyCoherent
    <2>3. /\ anchors[sync[p].current] # None
          /\ ~(anchors[sync[p].current].lastSyncOrder < sync[p].order)
      BY <2>1 DEF Register!Newer
    <2>4. anchors[sync[p].current].lastSyncOrder # sync[p].order
      BY <1>4, <2>2, <2>3, NoneAssumption
      DEF IInv, WritesAreReported, Working, At, PersistRejected, Outcomes
    <2>5. sync[p].order \in Nat /\ anchors[sync[p].current].lastSyncOrder \in Nat
      BY <1>0, <2>2, <2>3, BoundAssumption DEF IInv, TypeOK, Register!AnchorRow
    <2> QED
      BY <2>1, <2>3, <2>4, <2>5, ReportStep DEF Outcomes
  <1>5. ASSUME NEW p \in Syncs, PersistFails(p)
        PROVE  IInv'
    <2>1. /\ sync[p].pc = "persist" /\ sync[p].pc \in Busy
          /\ TableWrite(p) /\ UNCHANGED sequence
          /\ UNCHANGED anchors \/ Register!Discovered(sync[p].current, sync[p].order)
          /\ Report(p, "PERSISTENCE_FAILURE")
      BY <1>5 DEF PersistFails, At, Busy, TableWrite
    <2>2. sync[p].current \in Anchors /\ sync[p].outcome[sync[p].current] = None
      BY <2>1 DEF IInv, BusyCoherent
    <2>3. \/ UNCHANGED anchors
          \/ anchors'[sync[p].current].status = "LIVE"
      BY <2>1, <2>2 DEF Register!Discovered, IInv, TypeOK
    <2>4. UNCHANGED anchors =>
            \/ anchors[sync[p].current] = None
            \/ anchors[sync[p].current].lastSyncOrder # sync[p].order
      BY <2>1, <2>2, NoneAssumption
      DEF IInv, WritesAreReported, Working, At, Outcomes
    <2> QED
      BY <2>1, <2>3, <2>4, ReportStep DEF Outcomes
  <1>6. ASSUME NEW p \in Syncs, Reread(p)
        PROVE  IInv'
    <2>1. /\ sync[p].pc = "reread" /\ sync[p].pc \in Busy
          /\ TableWrite(p) /\ UNCHANGED <<anchors, sequence>>
          /\ Report(p, "SUCCEEDED") \/ Report(p, "PERSISTENCE_FAILURE")
      BY <1>6 DEF Reread, At, Busy, TableWrite
    <2>2. sync[p].current \in Anchors /\ sync[p].outcome[sync[p].current] = None
      BY <2>1 DEF IInv, BusyCoherent
    <2>3. /\ anchors[sync[p].current] # None
          /\ anchors[sync[p].current].lastSyncOrder >= sync[p].order
      BY <2>1 DEF IInv, JustWritten
    <2>4. anchors[sync[p].current].lastSyncOrder = sync[p].order
            => anchors[sync[p].current].status = "LIVE"
      BY <2>1, <2>2, <2>3, NoneAssumption DEF IInv, WritesAreReported, Working, At, Outcomes
    <2> QED
      BY <2>1, <2>3, <2>4, ReportStep DEF Outcomes
  <1>7. ASSUME NEW p \in Syncs, MarkDownApplies(p)
        PROVE  IInv'
    <2>1. /\ sync[p].pc \in Busy /\ TableWrite(p) /\ UNCHANGED sequence
          /\ Register!MarkedDown(sync[p].current, sync[p].order)
          /\ Report(p, "MARKED_DOWN")
      BY <1>7 DEF MarkDownApplies, At, Busy, TableWrite
    <2>2. sync[p].current \in Anchors
      BY <2>1 DEF IInv, BusyCoherent
    <2>3. /\ anchors'[sync[p].current] # None
          /\ anchors'[sync[p].current].lastSyncOrder = sync[p].order
          /\ anchors'[sync[p].current].status = "DOWN"
      <3>1. anchors[sync[p].current] \in Register!AnchorRow
        BY <2>1, <2>2 DEF Register!MarkedDown, IInv, TypeOK
      <3>2. /\ anchors'[sync[p].current].lastSyncOrder = sync[p].order
            /\ anchors'[sync[p].current].status = "DOWN"
        BY <2>1, <2>2 DEF Register!MarkedDown, IInv, TypeOK
      <3> QED
        BY <2>1, <2>2, <3>2, TableStep DEF Register!MarkedDown
    <2>4. sync[p].order \in Nat
      BY <1>0, BoundAssumption
    <2> QED
      BY <2>1, <2>3, <2>4, ReportStep DEF Outcomes
  <1>8. ASSUME NEW p \in Syncs, MarkDownMatchesNothing(p)
        PROVE  IInv'
    <2> DEFINE row == [pc |-> "probe", order |-> sync[p].order,
                       current |-> sync[p].current, outcome |-> sync[p].outcome]
    <2>1. /\ sync[p].pc = "mark" /\ UNCHANGED <<anchors, sequence>>
          /\ sync' = [sync EXCEPT ![p] = row]
      BY <1>8 DEF MarkDownMatchesNothing, Become, At
    <2>2. row \in [pc : Steps, order : 0 .. MaxOrder, current : Anchors \cup {None},
                   outcome : [Anchors -> Outcomes \cup {None}]]
      BY <1>0 DEF Steps
    <2>3. row.current \in Anchors /\ row.outcome[row.current] = None
      BY <2>1 DEF IInv, BusyCoherent, Busy
    <2>4. /\ row.order = sync[p].order /\ row.pc = "probe"
          /\ row.outcome = sync[p].outcome
      OBVIOUS
    <2> HIDE DEF row
    <2> QED
      BY <2>1, <2>2, <2>3, <2>4, QuietStep DEF Skips
  <1>9. ASSUME NEW p \in Syncs, Probe(p)
        PROVE  IInv'
    <2>1. /\ sync[p].pc = "probe" /\ sync[p].pc \in Busy
          /\ TableWrite(p) /\ UNCHANGED <<anchors, sequence>>
          /\ Report(p, "NOT_FOUND") \/ Report(p, "STALE")
      BY <1>9 DEF Probe, At, Busy, TableWrite
    <2>2. sync[p].current \in Anchors /\ sync[p].outcome[sync[p].current] = None
      BY <2>1 DEF IInv, BusyCoherent
    <2>3. \/ anchors[sync[p].current] = None
          \/ anchors[sync[p].current].lastSyncOrder # sync[p].order
      BY <2>1, <2>2, NoneAssumption
      DEF IInv, WritesAreReported, Working, At, Outcomes
    <2> QED
      BY <2>1, <2>3, ReportStep DEF Outcomes
  <1>10. ASSUME NEW p \in Syncs, MarkDownFails(p)
        PROVE  IInv'
    <2>1. /\ sync[p].pc \in {"mark", "probe"} /\ sync[p].pc \in Busy
          /\ TableWrite(p) /\ UNCHANGED sequence
          /\ UNCHANGED anchors \/ Register!MarkedDown(sync[p].current, sync[p].order)
          /\ Report(p, "FAILED")
      BY <1>10 DEF MarkDownFails, At, Busy, TableWrite
    <2>2. sync[p].current \in Anchors /\ sync[p].outcome[sync[p].current] = None
      BY <2>1 DEF IInv, BusyCoherent
    <2>3. \/ UNCHANGED anchors
          \/ anchors'[sync[p].current].status = "DOWN"
      BY <2>1, <2>2 DEF Register!MarkedDown, IInv, TypeOK
    <2>4. UNCHANGED anchors =>
            \/ anchors[sync[p].current] = None
            \/ anchors[sync[p].current].lastSyncOrder # sync[p].order
      BY <2>1, <2>2, NoneAssumption
      DEF IInv, WritesAreReported, Working, At, Outcomes
    <2> QED
      BY <2>1, <2>3, <2>4, ReportStep DEF Outcomes
  <1>11. ASSUME NEW p \in Syncs, Crash(p)
         PROVE  IInv'
    <2>1. /\ UNCHANGED <<anchors, sequence>>
          /\ sync' = [sync EXCEPT ![p] =
                [pc |-> "idle", order |-> 0, current |-> None,
                 outcome |-> [a \in Anchors |-> None]]]
      BY <1>11 DEF Crash, Idle
    <2>2. 0 \in 0 .. MaxOrder
      BY BoundAssumption
    <2> QED
      BY <2>1, <2>2, FreshStep
  <1>12. CASE UNCHANGED vars
    BY <1>12 DEF vars, IInv, TypeOK, BusyCoherent, RowsBounded, DetailsBounded,
      JustWritten, OrdersAreUnique, RowsAreWhole, ReportsAreTrue,
      WritesAreReported, Working, At
  <1> QED
    BY <1>1, <1>2, <1>3, <1>4, <1>5, <1>6, <1>7, <1>8, <1>9, <1>10, <1>11, <1>12
    DEF Next, Work

\* What every theorem below follows from.
LEMMA Invariance == Spec => []IInv
  BY InitIInv, NextIInv, PTL DEF Spec

------------------------------------------------------------------------------
\* Type correctness (TypeOK) of the synchronization's state.
THEOREM TypeCorrect == Spec => []TypeOK
  <1>1. IInv => TypeOK
    BY DEF IInv
  <1> QED
    BY Invariance, <1>1, PTL

\* No two working jobs hold one order number (OrdersAreUnique), the fact that
\* makes comparing order numbers a sound guard.
THEOREM UniqueOrders == Spec => []OrdersAreUnique
  <1>1. IInv => OrdersAreUnique
    BY DEF IInv
  <1> QED
    BY Invariance, <1>1, PTL

\* Interleaved discoveries and failures never mix in one row (RowsAreWhole).
THEOREM WholeRows == Spec => []RowsAreWhole
  <1>1. IInv => RowsAreWhole
    BY DEF IInv
  <1> QED
    BY Invariance, <1>1, PTL

\* What a job reports applied or rejected is and stays true (ReportsAreTrue).
THEOREM TrueReports == Spec => []ReportsAreTrue
  <1>1. IInv => ReportsAreTrue
    BY DEF IInv
  <1> QED
    BY Invariance, <1>1, PTL

\* No job's write goes unreported or denied (WritesAreReported).
THEOREM ReportedWrites == Spec => []WritesAreReported
  <1>1. IInv => WritesAreReported
    BY DEF IInv
  <1> QED
    BY Invariance, <1>1, PTL

\* The synchronization implements the monotone register (ImplementsRegister),
\* for any number of jobs, anchors and failures.
THEOREM Refinement == Spec => ImplementsRegister
  <1>1. Init => Register!Init
    BY DEF Init
  <1>2. IInv /\ [Next]_vars => [Register!Next]_anchors
    <2> SUFFICES ASSUME IInv, [Next]_vars, ~UNCHANGED anchors
                 PROVE  Register!Next
      OBVIOUS
    <2>1. PICK p \in Syncs :
            /\ sync[p].pc \in Busy
            /\ \/ Register!Discovered(sync[p].current, sync[p].order)
               \/ Register!MarkedDown(sync[p].current, sync[p].order)
      BY DEF Next, Work, vars, AllocateOrder, Discover, PersistApplies, PersistRejected,
        PersistFails, Reread, MarkDownApplies, MarkDownMatchesNothing, Probe,
        MarkDownFails, Crash, At, Busy
    <2>2. sync[p].current \in Anchors
      BY <2>1 DEF IInv, BusyCoherent
    <2>3. sync[p].order \in 1 .. MaxOrder
      BY <2>1, BoundAssumption DEF IInv, OrdersAreUnique, TypeOK, Working, At, Busy
    <2> QED
      BY <2>1, <2>2, <2>3 DEF Register!Next
  <1> QED
    BY <1>1, <1>2, Invariance, PTL DEF Spec, ImplementsRegister, Register!Spec
===============================================================================
