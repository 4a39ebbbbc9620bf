-------------------------- MODULE SuppressionProofs --------------------------
(* Proofs about Suppression for any sets of sources, recorders and operators  *)
(* and any threshold.  What a recorder read matters as much as what is        *)
(* stored: its write is computed from it, so the inductive invariant says of  *)
(* every row held by a recorder what it says of the stored rows.              *)
EXTENDS Suppression, TLAPS

\* The rows recorders hold are coherent too.
HeldCoherent ==
  \A r \in Recorders :
    (tx[r] # None /\ tx[r].base # None) => Coherent(tx[r].base)

\* No counter, stored or held, is ahead of the recordings committed.
NeverOvercounts ==
  /\ \A s \in Sources : CounterOf(rows[s]) <= recorded[s]
  /\ \A r \in Recorders :
       tx[r] # None => CounterOf(tx[r].base) <= recorded[tx[r].source]

IInv == TypeOK /\ RowsCoherent /\ HeldCoherent /\ NeverOvercounts

------------------------------------------------------------------------------
\* What the counter function returns: a coherent row, one count further at most.
LEMMA AdvanceRow ==
  ASSUME NEW row \in Row \cup {None}, row # None => Coherent(row)
  PROVE  /\ Advance(row) \in Row
         /\ Coherent(Advance(row))
         /\ CounterOf(Advance(row)) <= CounterOf(row) + 1
         /\ Suppressed(row) => CounterOf(Advance(row)) = CounterOf(row)
         /\ CounterOf(row) \in Nat
         /\ CounterOf(Advance(row)) <= Threshold \/ CounterOf(Advance(row)) = CounterOf(row)
  <1>1. CASE row = None
    <2>1. ~Suppressed(row) /\ CounterOf(row) = 0
      BY <1>1 DEF Suppressed, CounterOf
    <2>2. Advance(row) = [state |-> IF 1 >= Threshold THEN "SUPPRESSED" ELSE "ACTIVE",
                          consecutiveFailures |-> 1,
                          suppressedAt |-> IF 1 >= Threshold THEN "set" ELSE "null",
                          reactivatedAt |-> "null"]
      BY <2>1, ThresholdAssumption DEF Advance, NextRow
    <2>3. Advance(row) \in Row
      BY <2>2 DEF Row, States, Stamps
    <2> QED
      BY <2>1, <2>2, <2>3, ThresholdAssumption, NoneAssumption
      DEF Coherent, Suppressed, CounterOf
  <1>2. CASE row # None
    <2>1. row \in Row /\ CounterOf(row) = row.consecutiveFailures
      BY <1>2 DEF CounterOf
    <2>2. CounterOf(row) \in Nat
      BY <2>1 DEF Row
    <2>3. CASE Suppressed(row)
      <3>1. Advance(row) = [state |-> "SUPPRESSED",
                            consecutiveFailures |-> row.consecutiveFailures,
                            suppressedAt |-> "set",
                            reactivatedAt |-> "null"]
        BY <2>1, <2>3 DEF Advance, NextRow
      <3>2. Advance(row) \in Row
        BY <3>1, <2>1, <2>2 DEF Row, States, Stamps
      <3>3. row.consecutiveFailures >= Threshold
        BY <1>2, <2>3 DEF Coherent
      <3> QED
        BY <2>1, <2>2, <2>3, <3>1, <3>2, <3>3, ThresholdAssumption, NoneAssumption
        DEF Coherent, Suppressed, CounterOf
    <2>4. CASE ~Suppressed(row)
      <3> DEFINE n == row.consecutiveFailures + 1
      <3>1. Advance(row) = [state |-> IF n >= Threshold THEN "SUPPRESSED" ELSE "ACTIVE",
                            consecutiveFailures |-> n,
                            suppressedAt |-> IF n >= Threshold THEN "set" ELSE "null",
                            reactivatedAt |-> "null"]
        BY <2>1, <2>4 DEF Advance, NextRow
      <3>2. n \in Nat /\ n <= Threshold
        BY <1>2, <2>1, <2>2, <2>4, ThresholdAssumption DEF Coherent
      <3>3. Advance(row) \in Row
        BY <3>1, <3>2 DEF Row, States, Stamps
      <3> QED
        BY <2>1, <2>2, <2>4, <3>1, <3>2, <3>3, ThresholdAssumption, NoneAssumption
        DEF Coherent, Suppressed, CounterOf
    <2> QED
      BY <2>3, <2>4
  <1> QED
    BY <1>1, <1>2

\* A reactivated row is a coherent row with a cleared counter.
LEMMA ReactivatedRow ==
  /\ Reactivated \in Row
  /\ Coherent(Reactivated)
  /\ CounterOf(Reactivated) = 0
  /\ ~Suppressed(Reactivated)
  <1>1. Reactivated \in Row
    BY DEF Reactivated, Row, States, Stamps
  <1> QED
    BY <1>1, ThresholdAssumption, NoneAssumption
    DEF Reactivated, Coherent, Suppressed, CounterOf

------------------------------------------------------------------------------
LEMMA InitIInv == Init => IInv
  BY ThresholdAssumption, BoundAssumption
  DEF Init, IInv, TypeOK, RowsCoherent, HeldCoherent, NeverOvercounts, CounterOf

LEMMA NextIInv == IInv /\ [Next]_vars => IInv'
  <1> SUFFICES ASSUME IInv, [Next]_vars
               PROVE  IInv'
    OBVIOUS
  <1> USE DEF IInv
  <1>1. ASSUME NEW r \in Recorders, NEW s \in Sources, RecordRead(r, s)
        PROVE  IInv'
    <2> USE <1>1 DEF RecordRead
    <2>1. [source |-> s, base |-> rows[s]] \in Tx
      BY DEF TypeOK, Tx
    <2>2. TypeOK'
      BY <2>1 DEF TypeOK
    <2>3. RowsCoherent'
      BY DEF RowsCoherent
    <2>4. HeldCoherent'
      BY DEF HeldCoherent, RowsCoherent, TypeOK
    <2>5. NeverOvercounts'
      BY DEF NeverOvercounts, TypeOK
    <2> QED
      BY <2>2, <2>3, <2>4, <2>5
  <1>2. ASSUME NEW r \in Recorders, RecordWrite(r)
        PROVE  IInv'
    <2> DEFINE s == tx[r].source
               b == tx[r].base
    <2>1. tx[r] \in Tx /\ s \in Sources /\ b \in Row \cup {None}
      BY <1>2 DEF RecordWrite, TypeOK, Tx
    <2>2. b # None => Coherent(b)
      BY <1>2, <2>1 DEF RecordWrite, HeldCoherent
    <2>3. /\ Advance(b) \in Row
          /\ Coherent(Advance(b))
          /\ CounterOf(Advance(b)) <= CounterOf(b) + 1
          /\ CounterOf(b) \in Nat
          /\ CounterOf(Advance(b)) <= Threshold \/ CounterOf(Advance(b)) = CounterOf(b)
      BY <2>1, <2>2, AdvanceRow
    <2>4. /\ rows' = [rows EXCEPT ![s] = Advance(b)]
          /\ recorded' = [recorded EXCEPT ![s] = CountOne(recorded[s])]
          /\ credited' = [credited EXCEPT ![s] = CountOne(credited[s])]
          /\ tx' = [tx EXCEPT ![r] = None]
          /\ UNCHANGED <<op, reactivations>>
      BY <1>2 DEF RecordWrite
    <2>5. \A n \in 0 .. Threshold :
             CountOne(n) \in 0 .. Threshold /\ n <= CountOne(n)
      BY ThresholdAssumption DEF CountOne
    <2>6. TypeOK'
      BY <2>1, <2>3, <2>4, <2>5 DEF TypeOK
    <2>7. RowsCoherent'
      BY <2>1, <2>3, <2>4 DEF RowsCoherent, TypeOK
    <2>8. HeldCoherent'
      BY <2>4 DEF HeldCoherent, TypeOK
    <2>9. NeverOvercounts'
      <3>1. \A x \in Sources : recorded[x] <= recorded'[x]
        BY <2>1, <2>4, <2>5, ThresholdAssumption DEF TypeOK
      <3>2. CounterOf(b) <= recorded[s]
        BY <1>2, <2>1 DEF NeverOvercounts, RecordWrite
      <3>3. CounterOf(Advance(b)) \in Nat
        BY <2>3 DEF CounterOf, Row
      <3>4. CounterOf(Advance(b)) <= CountOne(recorded[s])
        BY <2>1, <2>3, <3>2, <3>3, ThresholdAssumption DEF CountOne, TypeOK
      <3>5. ASSUME NEW x \in Sources
            PROVE  CounterOf(rows'[x]) <= recorded'[x]
        <4>1. CASE x = s
          BY <2>1, <2>4, <3>4, <4>1 DEF TypeOK
        <4>2. CASE x # s
          BY <2>4, <4>2 DEF TypeOK, NeverOvercounts
        <4> QED
          BY <4>1, <4>2
      <3>6. ASSUME NEW q \in Recorders, tx'[q] # None
            PROVE  CounterOf(tx'[q].base) <= recorded'[tx'[q].source]
        <4>1. q # r /\ tx'[q] = tx[q]
          BY <2>4, <3>6 DEF TypeOK
        <4>2. tx[q].source \in Sources /\ tx[q].base \in Row \cup {None}
          BY <3>6, <4>1 DEF TypeOK, Tx
        <4>3. CounterOf(tx[q].base) \in Nat
          BY <4>2 DEF CounterOf, Row
        <4>4. CounterOf(tx[q].base) <= recorded[tx[q].source]
          BY <3>6, <4>1 DEF NeverOvercounts
        <4>5. /\ recorded[tx[q].source] \in Nat
              /\ recorded'[tx[q].source] \in Nat
          BY <2>6, <4>2, ThresholdAssumption DEF TypeOK
        <4> QED
          BY <3>1, <4>1, <4>2, <4>3, <4>4, <4>5
      <3> QED
        BY <3>5, <3>6 DEF NeverOvercounts, CounterOf
    <2> QED
      BY <2>6, <2>7, <2>8, <2>9
  <1>3. ASSUME NEW r \in Recorders, RecordAbort(r)
        PROVE  IInv'
    BY <1>3 DEF RecordAbort, TypeOK, RowsCoherent, HeldCoherent, NeverOvercounts,
                CounterOf
  <1>4. ASSUME NEW o \in Operators, NEW s \in Sources, ReactivateRead(o, s)
        PROVE  IInv'
    BY <1>4, BoundAssumption
    DEF ReactivateRead, TypeOK, RowsCoherent, HeldCoherent, NeverOvercounts,
        CounterOf
  <1>5. ASSUME NEW o \in Operators, ReactivateWrite(o)
        PROVE  IInv'
    <2> USE <1>5 DEF ReactivateWrite
    <2>1. op[o] \in Sources
      BY DEF TypeOK
    <2>2. TypeOK'
      BY <2>1, ReactivatedRow, ThresholdAssumption DEF TypeOK
    <2>3. RowsCoherent'
      BY <2>1, ReactivatedRow DEF RowsCoherent, TypeOK
    <2>4. HeldCoherent'
      BY DEF HeldCoherent
    <2>5. NeverOvercounts'
      <3>1. ASSUME NEW x \in Sources
            PROVE  CounterOf(rows'[x]) <= recorded'[x]
        <4>1. CASE x = op[o]
          <5>1. rows'[x] = Reactivated /\ recorded'[x] \in 0 .. Threshold
            BY <2>1, <4>1 DEF TypeOK
          <5> QED
            BY <5>1, ReactivatedRow, ThresholdAssumption
        <4>2. CASE x # op[o]
          BY <4>2 DEF TypeOK, NeverOvercounts
        <4> QED
          BY <4>1, <4>2
      <3> QED
        BY <3>1 DEF NeverOvercounts, CounterOf
    <2> QED
      BY <2>2, <2>3, <2>4, <2>5
  <1>6. ASSUME NEW o \in Operators, ReactivateAbort(o)
        PROVE  IInv'
    BY <1>6 DEF ReactivateAbort, TypeOK, RowsCoherent, HeldCoherent,
                NeverOvercounts, CounterOf
  <1>7. CASE UNCHANGED vars
    BY <1>7 DEF vars, TypeOK, RowsCoherent, HeldCoherent, NeverOvercounts,
                CounterOf
  <1> QED
    BY <1>1, <1>2, <1>3, <1>4, <1>5, <1>6, <1>7 DEF Next, Record, Reactivate

\* The inductive invariant holds of every behaviour.
LEMMA Invariance == Spec => []IInv
  BY InitIInv, NextIInv, PTL DEF Spec

------------------------------------------------------------------------------
\* Every variable keeps its type, counters included: the saturating histories
\* and the reactivation bound are never exceeded.
THEOREM TypeCorrect == Spec => []TypeOK
  <1>1. IInv => TypeOK
    BY DEF IInv
  <1> QED
    BY <1>1, Invariance, PTL

\* Whatever the interleaving of recorders and operators, the columns of a row
\* agree with one another.
THEOREM Coherence == Spec => []RowsCoherent
  <1>1. IInv => RowsCoherent
    BY DEF IInv
  <1> QED
    BY <1>1, Invariance, PTL

\* No interleaving suppresses a source before Threshold of its failures have
\* been committed.
THEOREM Earned == Spec => []SuppressionIsEarned
  <1>1. IInv => SuppressionIsEarned
    <2> SUFFICES ASSUME IInv, NEW s \in Sources, Suppressed(rows[s])
                 PROVE  recorded[s] >= Threshold
      BY DEF SuppressionIsEarned
    <2>1. rows[s] # None /\ rows[s] \in Row
      BY DEF Suppressed, IInv, TypeOK
    <2>2. rows[s].consecutiveFailures >= Threshold
      BY <2>1 DEF IInv, RowsCoherent, Coherent
    <2>3. rows[s].consecutiveFailures <= recorded[s]
      BY <2>1 DEF IInv, NeverOvercounts, CounterOf
    <2>4. rows[s].consecutiveFailures \in Nat /\ recorded[s] \in Nat
      BY <2>1, ThresholdAssumption DEF Row, IInv, TypeOK
    <2> QED
      BY <2>2, <2>3, <2>4, ThresholdAssumption
  <1> QED
    BY <1>1, Invariance, PTL

\* A recorder that overwrites nothing but what it read leaves a suppression as
\* it is: only stale writers and reactivations can lift one.
THEOREM CurrentRecorders == Spec => CurrentRecorderKeepsSuppression
  <1>1. ASSUME IInv, NEW r \in Recorders, RecordWrite(r),
               tx[r].base = rows[tx[r].source], Suppressed(rows[tx[r].source])
        PROVE  /\ Suppressed(rows'[tx[r].source])
               /\ rows'[tx[r].source].consecutiveFailures
                    = rows[tx[r].source].consecutiveFailures
    <2> DEFINE s == tx[r].source
    <2>1. s \in Sources /\ rows[s] \in Row
      BY <1>1 DEF IInv, TypeOK, Tx, RecordWrite, Suppressed
    <2>2. rows'[s] = Advance(rows[s])
      BY <1>1, <2>1 DEF RecordWrite, IInv, TypeOK
    <2>3. Advance(rows[s]) = [state |-> "SUPPRESSED",
                              consecutiveFailures |-> rows[s].consecutiveFailures,
                              suppressedAt |-> "set",
                              reactivatedAt |-> "null"]
      BY <1>1, <2>1 DEF Advance, NextRow, CounterOf, Suppressed
    <2>4. Advance(rows[s]) \in Row
      BY <2>1, <2>3 DEF Row, States, Stamps
    <2> QED
      BY <2>2, <2>3, <2>4, NoneAssumption DEF Suppressed
  <1>2. IInv /\ [Next]_vars =>
          [\A r \in Recorders :
             (RecordWrite(r) /\ tx[r].base = rows[tx[r].source]) =>
               (Suppressed(rows[tx[r].source]) =>
                  /\ Suppressed(rows'[tx[r].source])
                  /\ rows'[tx[r].source].consecutiveFailures
                       = rows[tx[r].source].consecutiveFailures)]_vars
    BY <1>1
  <1> QED
    BY <1>2, Invariance, PTL DEF Spec, CurrentRecorderKeepsSuppression
==============================================================================
