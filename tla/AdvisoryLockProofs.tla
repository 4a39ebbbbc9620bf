-------------------------- MODULE AdvisoryLockProofs --------------------------
(* Proofs about AdvisoryLock for any callers and any finite pool.             *)
(*                                                                            *)
(* Exclusion follows from the accounting of the locks and from PostgreSQL's   *)
(* rule that one session at most holds the key; the accounting is inductive   *)
(* only together with who uses which connection.  Every step of a call that   *)
(* has a connection is of one shape, lemma WorkStep.                          *)
EXTENDS AdvisoryLock, FiniteSetTheorems, TLAPS

Holding == {"acquire", "body", "unlock", "release"}
Locking == {"body", "unlock"}

\* What the local state of a call says of itself.
GoodCall(local) ==
  /\ local.pc \in Holding <=> local.connection # None
  /\ local.pc # "idle" => local.returned = None
  /\ local.pc \in {"checkout", "acquire", "body"} => local.completed = None
  /\ local.pc = "unlock" => local.completed \in {"result", "body_error"}

\* A call has its connection to itself.
Assigned ==
  \A c \in Callers : ConnectionOf(c) # None => user[ConnectionOf(c)] = c

\* Nothing is locked by a session that is not there.
ClosedIsClear ==
  \A k \in Connections : ~IsOpen(k) => depth[k] = 0 /\ orphans[k] = 0

\* The key is locked by one session at most.
OneHolder ==
  \A k, j \in Connections : (depth[k] > 0 /\ depth[j] > 0) => k = j

IInv ==
  /\ TypeOK /\ Assigned /\ ClosedIsClear /\ OneHolder /\ LocksAccounted
  /\ \A c \in Callers : GoodCall(call[c])

------------------------------------------------------------------------------
\* A step of call c on its connection k keeps the invariant, if what it makes of
\* the lock of k is what it makes of the call.
LEMMA WorkStep ==
  ASSUME IInv, NEW c \in Callers, NEW k \in Connections, ConnectionOf(c) = k,
         NEW l \in Call, GoodCall(l), l.connection \in {k, None},
         call' = [call EXCEPT ![c] = l],
         UNCHANGED session,
         depth' \in [Connections -> Nat], orphans' \in [Connections -> Nat],
         \A j \in Connections \ {k} : depth'[j] = depth[j] /\ orphans'[j] = orphans[j],
         \/ UNCHANGED user
         \/ l.connection = None /\ user' = [user EXCEPT ![k] = None],
         errors' \in 0 .. MaxErrors,
         IsOpen(k) => depth'[k] = orphans'[k] + (IF l.pc \in Locking THEN 1 ELSE 0),
         ~IsOpen(k) => depth'[k] = 0 /\ orphans'[k] = 0,
         depth'[k] > 0 => ~HeldElsewhere(k)
  PROVE  IInv'
  <1> USE DEF IInv
  <1>1. k # None /\ c # None
    BY NoneAssumption
  <1>2. /\ call'[c] = l
        /\ \A e \in Callers : e # c => call'[e] = call[e]
    BY DEF TypeOK
  <1>3. TypeOK'
    BY DEF TypeOK
  <1>4. \A e \in Callers : GoodCall(call'[e])
    BY <1>2
  <1>5. Assigned'
    <2> SUFFICES ASSUME NEW e \in Callers, call'[e].connection # None
                 PROVE  user'[call'[e].connection] = e
      BY DEF Assigned, ConnectionOf
    <2>1. CASE e = c
      BY <1>1, <1>2, <2>1 DEF Assigned, ConnectionOf
    <2>2. CASE e # c
      <3>1. user[call[e].connection] = e /\ call'[e] = call[e]
        BY <1>2, <2>2 DEF Assigned, ConnectionOf
      <3>2. call[e].connection # k
        BY <2>2, <3>1, <1>1 DEF Assigned, ConnectionOf
      <3>3. call[e].connection \in Connections
        BY <3>1 DEF TypeOK, Call
      <3> QED
        BY <3>1, <3>2, <3>3 DEF TypeOK
    <2> QED
      BY <2>1, <2>2
  <1>6. ClosedIsClear'
    BY <1>2 DEF ClosedIsClear, IsOpen
  <1>7. OneHolder'
    <2> SUFFICES ASSUME NEW i \in Connections, NEW j \in Connections,
                        depth'[i] > 0, depth'[j] > 0
                 PROVE  i = j
      BY DEF OneHolder
    <2>1. CASE i # k /\ j # k
      BY <1>2, <2>1 DEF OneHolder
    <2>2. CASE i = k \/ j = k
      BY <1>2, <2>2 DEF HeldElsewhere
    <2> QED
      BY <2>1, <2>2
  <1>8. LocksAccounted'
    <2> SUFFICES ASSUME NEW j \in Connections, IsOpen(j)
                 PROVE  depth'[j] = orphans'[j]
                          + (IF \E e \in Callers : Protects(e, j)' THEN 1 ELSE 0)
      BY DEF LocksAccounted, IsOpen
    <2>1. CASE j = k
      <3>1. ASSUME NEW e \in Callers, Protects(e, k)'
            PROVE  e = c
        <4>1. call'[e].connection = k
          BY <3>1 DEF Protects
        <4>2. e # c => call[e].connection = k
          BY <1>2, <4>1
        <4> QED
          BY <4>2, <1>1 DEF Assigned, ConnectionOf
      <3>2. Protects(c, k)' <=> l.pc \in Locking
        <4>1. l.pc \in Locking => l.connection = k
          BY <1>1 DEF GoodCall, Locking, Holding
        <4> QED
          BY <1>2, <2>1, <4>1 DEF Protects, IsOpen, Locking
      <3>3. (\E e \in Callers : Protects(e, k)') <=> l.pc \in Locking
        BY <3>1, <3>2
      <3> QED
        BY <1>2, <2>1, <3>3
    <2>2. CASE j # k
      <3>1. ASSUME NEW e \in Callers
            PROVE  Protects(e, j)' <=> Protects(e, j)
        <4>1. CASE e = c
          <5>1. call[c].connection # j /\ call'[c].connection # j
            BY <1>2, <2>2, NoneAssumption DEF ConnectionOf
          <5> QED
            BY <4>1, <5>1 DEF Protects
        <4>2. CASE e # c
          BY <1>2, <4>2 DEF Protects, IsOpen
        <4> QED
          BY <4>1, <4>2
      <3> QED
        BY <1>2, <2>2, <3>1 DEF LocksAccounted
    <2> QED
      BY <2>1, <2>2
  <1> QED
    BY <1>3, <1>4, <1>5, <1>6, <1>7, <1>8

\* A call without a connection changes nothing but itself.
LEMMA WaitingStep ==
  ASSUME IInv, NEW c \in Callers, ConnectionOf(c) = None,
         NEW l \in Call, GoodCall(l), l.connection = None,
         call' = [call EXCEPT ![c] = l],
         UNCHANGED <<session, depth, user, orphans>>,
         errors' \in 0 .. MaxErrors
  PROVE  IInv'
  <1> USE DEF IInv
  <1>1. /\ call'[c] = l
        /\ \A e \in Callers : e # c => call'[e] = call[e]
    BY DEF TypeOK
  <1>2. TypeOK'
    BY DEF TypeOK
  <1>3. Assigned'
    BY <1>1 DEF Assigned, ConnectionOf
  <1>4. ClosedIsClear' /\ OneHolder'
    BY DEF ClosedIsClear, OneHolder, IsOpen
  <1>5. \A e \in Callers, j \in Connections : Protects(e, j)' <=> Protects(e, j)
    BY <1>1, NoneAssumption DEF Protects, IsOpen, ConnectionOf
  <1>6. LocksAccounted'
    BY <1>5 DEF LocksAccounted, IsOpen
  <1> QED
    BY <1>1, <1>2, <1>3, <1>4, <1>6

------------------------------------------------------------------------------
\* Nothing is open, nobody has anything.
LEMMA ClearIInv ==
  ASSUME session' = [k \in Connections |-> "closed"],
         depth' = [k \in Connections |-> 0],
         user' = [k \in Connections |-> None],
         call' = [c \in Callers |-> Idle],
         orphans' = [k \in Connections |-> 0],
         errors' \in 0 .. MaxErrors
  PROVE  IInv'
  <1>1. Idle \in Call /\ GoodCall(Idle)
    BY NoneAssumption DEF Idle, Call, Steps, Results, GoodCall, Holding
  <1>2. TypeOK'
    BY <1>1 DEF TypeOK
  <1>3. \A c \in Callers : GoodCall(call'[c])
    BY <1>1
  <1>4. Assigned' /\ ClosedIsClear' /\ OneHolder' /\ LocksAccounted'
    BY DEF Assigned, ClosedIsClear, OneHolder, LocksAccounted, ConnectionOf, Idle, IsOpen
  <1> QED
    BY <1>2, <1>3, <1>4 DEF IInv

LEMMA InitIInv == Init => IInv
  <1> SUFFICES ASSUME Init PROVE IInv
    OBVIOUS
  <1> USE DEF Init
  <1>1. Idle \in Call /\ GoodCall(Idle)
    BY NoneAssumption DEF Idle, Call, Steps, Results, GoodCall, Holding
  <1>2. TypeOK
    BY <1>1, BoundAssumption DEF TypeOK
  <1>3. \A c \in Callers : GoodCall(call[c])
    BY <1>1
  <1>4. Assigned /\ ClosedIsClear /\ OneHolder /\ LocksAccounted
    BY DEF Assigned, ClosedIsClear, OneHolder, LocksAccounted, ConnectionOf, Idle, IsOpen
  <1> QED
    BY <1>2, <1>3, <1>4 DEF IInv

\* A free connection goes to a call that waits, with the session it has or a
\* new one.
LEMMA CheckoutIInv ==
  ASSUME IInv, NEW c \in Callers, NEW k \in Connections, Checkout(c, k)
  PROVE  IInv'
  <1> USE DEF IInv
  <1> DEFINE l == [call[c] EXCEPT !.pc = "acquire", !.connection = k]
  <1>1. call[c] \in Call /\ call[c].pc = "checkout" /\ GoodCall(call[c])
    BY DEF Checkout, At, TypeOK
  <1>2. k # None /\ c # None /\ ConnectionOf(c) = None
    BY <1>1, NoneAssumption DEF GoodCall, Holding, ConnectionOf
  <1>3. l \in Call /\ GoodCall(l) /\ l.pc = "acquire" /\ l.connection = k
    BY <1>1, <1>2 DEF Call, Steps, GoodCall, Holding
  <1>4. /\ call' = [call EXCEPT ![c] = l]
        /\ user[k] = None
        /\ user' = [user EXCEPT ![k] = c]
        /\ session' = [session EXCEPT ![k] = "open"]
        /\ UNCHANGED <<depth, orphans, errors>>
    BY DEF Checkout, TypeOK
  <1>5. /\ call'[c] = l
        /\ \A e \in Callers : e # c => call'[e] = call[e]
    BY <1>4 DEF TypeOK
  <1>6. TypeOK'
    BY <1>3, <1>4 DEF TypeOK
  <1>7. \A e \in Callers : GoodCall(call'[e])
    BY <1>3, <1>5
  <1>8. \A e \in Callers : call[e].connection # k
    BY <1>2, <1>4, NoneAssumption DEF Assigned, ConnectionOf, TypeOK
  <1>9. Assigned'
    <2> SUFFICES ASSUME NEW e \in Callers, call'[e].connection # None
                 PROVE  user'[call'[e].connection] = e
      BY DEF Assigned, ConnectionOf
    <2>1. CASE e = c
      BY <1>3, <1>4, <1>5, <2>1 DEF TypeOK
    <2>2. CASE e # c
      <3>1. call[e].connection \in Connections
        BY <1>5, <2>2 DEF TypeOK, Call
      <3> QED
        BY <1>4, <1>5, <1>8, <2>2, <3>1 DEF Assigned, ConnectionOf, TypeOK
    <2> QED
      BY <2>1, <2>2
  <1>10. ClosedIsClear' /\ OneHolder'
    BY <1>4 DEF ClosedIsClear, OneHolder, IsOpen, TypeOK
  <1>11. LocksAccounted'
    <2> SUFFICES ASSUME NEW j \in Connections, session'[j] = "open"
                 PROVE  depth[j] = orphans[j]
                          + (IF \E e \in Callers : Protects(e, j)' THEN 1 ELSE 0)
      BY <1>4 DEF LocksAccounted, IsOpen
    <2>1. CASE j = k
      <3>1. \A e \in Callers : ~Protects(e, k)' /\ ~Protects(e, k)
        BY <1>3, <1>5, <1>8 DEF Protects
      <3>2. depth[k] = orphans[k]
        BY <3>1 DEF LocksAccounted, ClosedIsClear, TypeOK
      <3> QED
        BY <2>1, <3>1, <3>2 DEF TypeOK
    <2>2. CASE j # k
      <3>1. session[j] = "open"
        BY <1>4, <2>2 DEF TypeOK
      <3>2. ASSUME NEW e \in Callers
            PROVE  Protects(e, j)' <=> Protects(e, j)
        <4>1. CASE e = c
          BY <1>2, <1>3, <1>5, <2>2, <4>1, NoneAssumption DEF Protects, ConnectionOf
        <4>2. CASE e # c
          BY <1>4, <1>5, <2>2, <4>2 DEF Protects, IsOpen, TypeOK
        <4> QED
          BY <4>1, <4>2
      <3> QED
        BY <3>1, <3>2 DEF LocksAccounted, IsOpen
    <2> QED
      BY <2>1, <2>2
  <1> QED
    BY <1>6, <1>7, <1>9, <1>10, <1>11

\* A session that ends takes its locks along, those of a running body included.
LEMMA SessionEndsIInv ==
  ASSUME IInv, NEW k \in Connections, SessionEnds(k)
  PROVE  IInv'
  <1> USE DEF IInv, SessionEnds
  <1>1. TypeOK'
    BY DEF TypeOK
  <1>2. Assigned' /\ (\A c \in Callers : GoodCall(call'[c]))
    BY DEF Assigned, ConnectionOf
  <1>3. ClosedIsClear' /\ OneHolder'
    BY DEF ClosedIsClear, OneHolder, IsOpen, TypeOK
  <1>4. LocksAccounted'
    <2> SUFFICES ASSUME NEW j \in Connections, session'[j] = "open"
                 PROVE  depth'[j] = orphans'[j]
                          + (IF \E e \in Callers : Protects(e, j)' THEN 1 ELSE 0)
      BY DEF LocksAccounted, IsOpen
    <2>1. j # k /\ session[j] = "open"
      BY DEF TypeOK
    <2>2. \A e \in Callers : Protects(e, j)' <=> Protects(e, j)
      BY <2>1 DEF Protects, IsOpen, TypeOK
    <2> QED
      BY <2>1, <2>2 DEF LocksAccounted, IsOpen, TypeOK
  <1> QED
    BY <1>1, <1>2, <1>3, <1>4

\* Every step of a call that has a connection is a WorkStep.
LEMMA ProceedIInv ==
  ASSUME IInv, NEW c \in Callers, Proceed(c)
  PROVE  IInv'
  <1> DEFINE k == ConnectionOf(c)
             local == call[c]
             To(pc, completed) == [local EXCEPT !.pc = pc, !.completed = completed]
             Back(returned) == [local EXCEPT !.pc = "idle", !.connection = None,
                                             !.returned = returned]
  <1>1. local \in Call /\ GoodCall(local)
    BY DEF IInv, TypeOK
  <1>2. local.pc \in Holding
    BY DEF Proceed, Acquire, AlreadyHeld, AcquireFails, BodyEnds, Unlock, UnlockFails,
           ReturnConnection, ReturnConnectionFails, At, Holding
  <1>3. k \in Connections /\ k # None /\ local.connection = k /\ local.returned = None
    BY <1>1, <1>2, NoneAssumption DEF GoodCall, Holding, ConnectionOf, Call
  <1>4. depth[k] \in Nat /\ orphans[k] \in Nat /\ errors \in 0 .. MaxErrors
    BY <1>3 DEF IInv, TypeOK
  <1>5. IsOpen(k) => depth[k] = orphans[k] + (IF local.pc \in Locking THEN 1 ELSE 0)
    <2>1. ASSUME NEW e \in Callers, Protects(e, k)
          PROVE  e = c
      BY <1>3, <2>1 DEF Protects, IInv, Assigned, ConnectionOf
    <2>2. ASSUME IsOpen(k)
          PROVE  Protects(c, k) <=> local.pc \in Locking
      BY <1>3, <2>2 DEF Protects, Locking
    <2> QED
      BY <1>3, <2>1, <2>2 DEF IInv, LocksAccounted
  <1>6. ~IsOpen(k) => depth[k] = 0 /\ orphans[k] = 0
    BY <1>3 DEF IInv, ClosedIsClear
  <1>7. depth[k] > 0 => ~HeldElsewhere(k)
    BY <1>3 DEF IInv, OneHolder, HeldElsewhere
  <1>8. ASSUME StatementFails(c) PROVE errors' \in 0 .. MaxErrors
    BY <1>4, <1>8, BoundAssumption DEF StatementFails, OneMoreError
  <1>9. ASSUME NEW pc \in Holding, Goto(c, pc)
        PROVE  call' = [call EXCEPT ![c] = To(pc, local.completed)]
    BY <1>1, <1>9 DEF Goto, IInv, TypeOK, Call
  <1>10. ASSUME NEW pc \in Holding,
                NEW completed \in {"result", "body_error", "operation_error"},
                Finish(c, pc, completed)
         PROVE  call' = [call EXCEPT ![c] = To(pc, completed)]
    BY <1>1, <1>10 DEF Finish, IInv, TypeOK
  <1>11. ASSUME NEW returned \in Results, Return(c, returned)
         PROVE  call' = [call EXCEPT ![c] = Back(returned)]
    BY <1>1, <1>11 DEF Return, IInv, TypeOK
  <1>12. depth \in [Connections -> Nat] /\ orphans \in [Connections -> Nat]
    BY DEF IInv, TypeOK
  <1>20. CASE Acquire(c)
    <2> DEFINE l == To("body", local.completed)
    <2>1. local.pc = "acquire" /\ IsOpen(k) /\ ~HeldElsewhere(k)
      BY <1>20 DEF Acquire, At
    <2>2. l \in Call /\ GoodCall(l) /\ l.pc = "body" /\ l.connection = k
      BY <1>1, <1>3, <2>1, NoneAssumption DEF Call, Steps, Results, GoodCall, Holding
    <2>3. call' = [call EXCEPT ![c] = l]
      BY <1>9, <1>20 DEF Acquire, Holding
    <2>4. depth' = [depth EXCEPT ![k] = depth[k] + 1]
      BY <1>20 DEF Acquire
    <2>5. /\ depth' \in [Connections -> Nat]
          /\ \A j \in Connections \ {k} : depth'[j] = depth[j]
          /\ depth'[k] = orphans[k] + (IF l.pc \in Locking THEN 1 ELSE 0)
      BY <1>3, <1>4, <1>5, <1>12, <2>1, <2>2, <2>4 DEF Locking
    <2>6. UNCHANGED <<session, user, orphans, errors>>
      BY <1>20 DEF Acquire
    <2> HIDE DEF l, k
    <2> QED
      BY <1>3, <1>4, <1>12, <2>1, <2>2, <2>3, <2>5, <2>6, WorkStep DEF k
  <1>21. CASE AlreadyHeld(c)
    <2> DEFINE l == To("release", local.completed)
    <2>1. local.pc = "acquire"
      BY <1>21 DEF AlreadyHeld, At
    <2>2. l \in Call /\ GoodCall(l) /\ l.pc = "release" /\ l.connection = k
      BY <1>1, <1>3, <2>1, NoneAssumption DEF Call, Steps, Results, GoodCall, Holding
    <2>3. call' = [call EXCEPT ![c] = l]
      BY <1>9, <1>21 DEF AlreadyHeld, Holding
    <2>4. UNCHANGED <<session, depth, user, orphans, errors>>
      BY <1>21 DEF AlreadyHeld
    <2>5. IsOpen(k) => depth[k] = orphans[k] + (IF l.pc \in Locking THEN 1 ELSE 0)
      BY <1>4, <1>5, <2>1, <2>2 DEF Locking
    <2> HIDE DEF l, k
    <2> QED
      BY <1>3, <1>4, <1>6, <1>7, <2>2, <2>3, <2>4, <2>5, <1>12, WorkStep DEF k
  <1>22. CASE AcquireFails(c)
    <2> DEFINE l == To("release", "operation_error")
    <2>1. local.pc = "acquire"
      BY <1>22 DEF AcquireFails, At
    <2>2. l \in Call /\ GoodCall(l) /\ l.pc = "release" /\ l.connection = k
      BY <1>1, <1>3, <2>1, NoneAssumption DEF Call, Steps, Results, GoodCall, Holding
    <2>3. call' = [call EXCEPT ![c] = l]
      BY <1>10, <1>22 DEF AcquireFails, Holding
    <2>4. UNCHANGED <<session, depth, user, orphans>> /\ errors' \in 0 .. MaxErrors
      BY <1>8, <1>22 DEF AcquireFails
    <2>5. IsOpen(k) => depth[k] = orphans[k] + (IF l.pc \in Locking THEN 1 ELSE 0)
      BY <1>4, <1>5, <2>1, <2>2 DEF Locking
    <2> HIDE DEF l, k
    <2> QED
      BY <1>3, <1>4, <1>6, <1>7, <2>2, <2>3, <2>4, <2>5, <1>12, WorkStep DEF k
  <1>23. CASE BodyEnds(c)
    <2> PICK completed \in {"result", "body_error"} : Finish(c, "unlock", completed)
      BY <1>23 DEF BodyEnds
    <2> DEFINE l == To("unlock", completed)
    <2>1. local.pc = "body"
      BY <1>23 DEF BodyEnds, At
    <2>2. l \in Call /\ GoodCall(l) /\ l.pc = "unlock" /\ l.connection = k
      BY <1>1, <1>3, <2>1, NoneAssumption DEF Call, Steps, Results, GoodCall, Holding
    <2>3. call' = [call EXCEPT ![c] = l]
      BY <1>10 DEF Holding
    <2>4. UNCHANGED <<session, depth, user, orphans, errors>>
      BY <1>23 DEF BodyEnds
    <2>5. IsOpen(k) => depth[k] = orphans[k] + (IF l.pc \in Locking THEN 1 ELSE 0)
      BY <1>4, <1>5, <2>1, <2>2 DEF Locking
    <2> HIDE DEF l, k
    <2> QED
      BY <1>3, <1>4, <1>6, <1>7, <2>2, <2>3, <2>4, <2>5, <1>12, WorkStep DEF k
  <1>24. CASE Unlock(c)
    <2> DEFINE l == To("release", local.completed)
    <2>1. local.pc = "unlock" /\ IsOpen(k)
      BY <1>24 DEF Unlock, At
    <2>2. l \in Call /\ GoodCall(l) /\ l.pc = "release" /\ l.connection = k
      BY <1>1, <1>3, <2>1, NoneAssumption DEF Call, Steps, Results, GoodCall, Holding
    <2>3. call' = [call EXCEPT ![c] = l]
      BY <1>9, <1>24 DEF Unlock, Holding
    <2>4. depth' = [depth EXCEPT ![k] = depth[k] - 1] /\ UNCHANGED <<session, user, orphans, errors>>
      BY <1>24 DEF Unlock
    <2>5. depth[k] = orphans[k] + 1
      BY <1>4, <1>5, <2>1 DEF Locking
    <2>6. ~HeldElsewhere(k)
      BY <1>4, <1>7, <2>5
    <2>7. /\ depth' \in [Connections -> Nat]
          /\ \A j \in Connections \ {k} : depth'[j] = depth[j]
          /\ depth'[k] = orphans[k] + (IF l.pc \in Locking THEN 1 ELSE 0)
      BY <1>3, <1>4, <1>12, <2>2, <2>4, <2>5 DEF Locking
    <2> HIDE DEF l, k
    <2> QED
      BY <1>3, <1>4, <1>12, <2>1, <2>2, <2>3, <2>4, <2>6, <2>7, WorkStep DEF k
  <1>25. CASE UnlockFails(c)
    <2> DEFINE l == To("release", local.completed)
               o == IF IsOpen(k) THEN orphans[k] + 1 ELSE orphans[k]
    <2>1. local.pc = "unlock"
      BY <1>25 DEF UnlockFails, At
    <2>2. l \in Call /\ GoodCall(l) /\ l.pc = "release" /\ l.connection = k
      BY <1>1, <1>3, <2>1, NoneAssumption DEF Call, Steps, Results, GoodCall, Holding
    <2>3. call' = [call EXCEPT ![c] = l]
      BY <1>9, <1>25 DEF UnlockFails, Holding
    <2>4. /\ UNCHANGED <<session, depth, user>> /\ errors' \in 0 .. MaxErrors
          /\ orphans' = [orphans EXCEPT ![k] = o]
      BY <1>8, <1>25 DEF UnlockFails
    <2>5. /\ orphans' \in [Connections -> Nat]
          /\ \A j \in Connections \ {k} : orphans'[j] = orphans[j]
          /\ IsOpen(k) => depth[k] = orphans'[k] + (IF l.pc \in Locking THEN 1 ELSE 0)
          /\ ~IsOpen(k) => orphans'[k] = 0
      BY <1>3, <1>4, <1>5, <1>6, <1>12, <2>1, <2>2, <2>4 DEF Locking
    <2> HIDE DEF l, k, o
    <2> QED
      BY <1>3, <1>4, <1>6, <1>7, <2>2, <2>3, <2>4, <2>5, <1>12, WorkStep DEF k
  <1>26. ASSUME NEW returned \in Results, local.pc = "release", Return(c, returned),
                UNCHANGED <<session, depth, orphans>>,
                UNCHANGED user \/ user' = [user EXCEPT ![k] = None],
                errors' \in 0 .. MaxErrors
         PROVE  IInv'
    <2> DEFINE l == Back(returned)
    <2>1. l \in Call /\ GoodCall(l) /\ l.pc = "idle" /\ l.connection = None
      BY <1>1, <1>26, NoneAssumption DEF Call, Steps, Results, GoodCall, Holding
    <2>2. call' = [call EXCEPT ![c] = l]
      BY <1>11, <1>26
    <2>3. IsOpen(k) => depth[k] = orphans[k] + (IF l.pc \in Locking THEN 1 ELSE 0)
      BY <1>4, <1>5, <1>26, <2>1 DEF Locking
    <2> HIDE DEF l, k
    <2> QED
      BY <1>3, <1>4, <1>6, <1>7, <1>26, <2>1, <2>2, <1>12, <2>3, WorkStep DEF k
  <1>27. Outcome(c) \in Results
    BY <1>1, NoneAssumption DEF Outcome, Call, Results
  <1>28. CASE ReturnConnection(c)
    BY <1>4, <1>26, <1>27, <1>28 DEF ReturnConnection, At
  <1>29. CASE ReturnConnectionFails(c)
    <2> DEFINE returned == IF Outcome(c) \in {"body_error", "operation_error"}
                             THEN Outcome(c) ELSE "cleanup_error"
    <2>1. returned \in Results
      BY <1>27 DEF Results
    <2>2. /\ local.pc = "release" /\ Return(c, returned)
          /\ UNCHANGED <<session, depth, user, orphans>>
      BY <1>29 DEF ReturnConnectionFails, At
    <2>3. errors' \in 0 .. MaxErrors
      BY <1>4, <1>29, BoundAssumption DEF ReturnConnectionFails, OneMoreError
    <2> QED
      BY <1>26, <2>1, <2>2, <2>3
  <1> QED
    BY <1>20, <1>21, <1>22, <1>23, <1>24, <1>25, <1>28, <1>29 DEF Proceed

LEMMA NextIInv == IInv /\ [Next]_vars => IInv'
  <1> SUFFICES ASSUME IInv, [Next]_vars
               PROVE  IInv'
    OBVIOUS
  <1>1. ASSUME NEW c \in Callers, Enter(c)
        PROVE  IInv'
    <2> DEFINE l == [Idle EXCEPT !.pc = "checkout"]
    <2>1. l \in Call /\ GoodCall(l) /\ l.connection = None
      BY NoneAssumption DEF Idle, Call, Steps, Results, GoodCall, Holding
    <2>2. ConnectionOf(c) = None
      BY <1>1 DEF Enter, At, ConnectionOf, IInv, GoodCall, Holding
    <2>3. call' = [call EXCEPT ![c] = l] /\ UNCHANGED <<session, depth, user, orphans>>
      BY <1>1 DEF Enter
    <2>4. errors' \in 0 .. MaxErrors
      BY <1>1 DEF Enter, IInv, TypeOK
    <2> HIDE DEF l
    <2> QED
      BY <1>1, <2>1, <2>2, <2>3, <2>4, WaitingStep
  <1>2. ASSUME NEW c \in Callers, CheckoutFails(c)
        PROVE  IInv'
    <2> DEFINE l == [call[c] EXCEPT !.pc = "idle", !.connection = None,
                                    !.returned = "operation_error"]
    <2>1. call[c] \in Call /\ GoodCall(call[c]) /\ call[c].pc = "checkout"
      BY <1>2 DEF CheckoutFails, At, IInv, TypeOK
    <2>2. l \in Call /\ GoodCall(l) /\ l.connection = None
      BY <2>1, NoneAssumption DEF Call, Steps, Results, GoodCall, Holding
    <2>3. ConnectionOf(c) = None
      BY <2>1 DEF ConnectionOf, GoodCall, Holding
    <2>4. call' = [call EXCEPT ![c] = l] /\ UNCHANGED <<session, depth, user, orphans>>
      BY <1>2, <2>1 DEF CheckoutFails, Return, IInv, TypeOK
    <2>5. errors' \in 0 .. MaxErrors
      BY <1>2, BoundAssumption DEF CheckoutFails, OneMoreError, IInv, TypeOK
    <2> HIDE DEF l
    <2> QED
      BY <1>2, <2>2, <2>3, <2>4, <2>5, WaitingStep
  <1>3. ASSUME ProcessDies
        PROVE  IInv'
    <2>1. errors' \in 0 .. MaxErrors
      BY <1>3 DEF ProcessDies, IInv, TypeOK
    <2> QED
      BY <1>3, <2>1, ClearIInv DEF ProcessDies
  <1>4. CASE UNCHANGED vars
    BY <1>4 DEF vars, IInv, TypeOK, Assigned, ClosedIsClear, OneHolder, LocksAccounted,
                ConnectionOf, IsOpen, Protects
  <1> QED
    BY <1>1, <1>2, <1>3, <1>4, ProceedIInv, CheckoutIInv, SessionEndsIInv DEF Next

\* The inductive invariant holds of every behaviour.
LEMMA Invariance == Spec => []IInv
  BY InitIInv, NextIInv, PTL DEF Spec

------------------------------------------------------------------------------
\* Every variable keeps its type; in particular no call unlocks what its session
\* does not hold: a depth is never negative.
THEOREM TypeCorrect == Spec => []TypeOK
  <1>1. IInv => TypeOK
    BY DEF IInv
  <1> QED
    BY <1>1, Invariance, PTL

\* No two bodies run at once while their sessions live, for any number of
\* callers and connections and whatever statements and sessions fail.
THEOREM Exclusion == Spec => []MutualExclusion
  <1>1. IInv => MutualExclusion
    <2> SUFFICES ASSUME IInv, NEW c \in Callers, NEW d \in Callers,
                        NEW k \in Connections, NEW j \in Connections,
                        Protects(c, k), Protects(d, j)
                 PROVE  c = d
      BY DEF MutualExclusion
    <2>1. depth[k] = orphans[k] + 1 /\ depth[j] = orphans[j] + 1
      BY DEF IInv, LocksAccounted, Protects
    <2>2. depth[k] > 0 /\ depth[j] > 0
      BY <2>1 DEF IInv, TypeOK
    <2>3. k = j
      BY <2>2 DEF IInv, OneHolder
    <2> QED
      BY <2>3, NoneAssumption DEF Protects, IInv, Assigned, ConnectionOf
  <1> QED
    BY <1>1, Invariance, PTL

\* Every lock a live session holds is one for its body and one for each unlock
\* that failed.
THEOREM AccountedLocks == Spec => []LocksAccounted
  <1>1. IInv => LocksAccounted
    BY DEF IInv
  <1> QED
    BY <1>1, Invariance, PTL

\* A result and already_held are reported with the connection back in the pool,
\* a lost connection is reported unless an error came before it, and of all errors
\* the first is the one reported.
THEOREM HonestOutcomes == Spec => OutcomesAreHonest
  <1> DEFINE Honest(c) ==
        LET completed == call[c].completed
            report == call'[c].returned
        IN  (report # call[c].returned /\ report # None) =>
              /\ report = "result" => completed = "result" /\ GaveBack(c)
              /\ report = "already_held" => completed = None /\ GaveBack(c)
              /\ report = "cleanup_error" => completed \in {"result", None} /\ StillHolds(c)
              /\ completed \in {"body_error", "operation_error"} => report = completed
  <1>1. IInv /\ [Next]_vars => [\A c \in Callers : Honest(c)]_vars
    <2> SUFFICES ASSUME IInv, [Next]_vars, NEW c \in Callers, call'[c].returned # None,
                        call'[c].returned # call[c].returned
                 PROVE  Honest(c)
      OBVIOUS
    <2>1. call[c] \in Call /\ GoodCall(call[c])
      BY DEF IInv, TypeOK
    <2>3. ASSUME NEW d \in Callers, NEW report \in Results, Return(d, report)
          PROVE  d = c /\ call'[c].returned = report
      BY <2>1, <2>3 DEF Return, IInv, TypeOK, Call
    <2>4. ASSUME NEW d \in Callers, CheckoutFails(d)
          PROVE  Honest(c)
      <3>1. d = c /\ call'[c].returned = "operation_error"
        BY <2>3, <2>4 DEF CheckoutFails, Results
      <3>2. call[c].completed = None
        BY <2>1, <2>4, <3>1 DEF CheckoutFails, At, GoodCall
      <3> QED
        BY <3>1, <3>2, NoneAssumption DEF Results
    <2>5. Outcome(c) \in Results /\ (call[c].completed # None => Outcome(c) = call[c].completed)
          /\ (call[c].completed = None => Outcome(c) = "already_held")
      BY <2>1, NoneAssumption DEF Outcome, Call, Results
    <2>6. ASSUME NEW d \in Callers
          PROVE  Outcome(d) \in Results
      BY NoneAssumption DEF Outcome, Call, Results, IInv, TypeOK
    <2>7. ASSUME NEW d \in Callers, At(d, "release")
          PROVE  ConnectionOf(d) \in Connections /\ user[ConnectionOf(d)] = d
      BY <2>7, NoneAssumption
      DEF At, ConnectionOf, GoodCall, Holding, IInv, TypeOK, Call, Assigned
    <2>8. ASSUME NEW d \in Callers, ReturnConnection(d)
          PROVE  Honest(c)
      <3>1. d = c /\ call'[c].returned = Outcome(c)
        BY <2>3, <2>6, <2>8 DEF ReturnConnection
      <3>2. GaveBack(c)
        BY <2>7, <2>8, <3>1 DEF ReturnConnection, GaveBack, IInv, TypeOK
      <3>3. call[c].completed \in {"result", "body_error", "operation_error", None}
        BY <2>1 DEF Call
      <3> QED
        BY <2>5, <3>1, <3>2, <3>3, NoneAssumption DEF Results
    <2>9. ASSUME NEW d \in Callers, ReturnConnectionFails(d)
          PROVE  Honest(c)
      <3> DEFINE report == IF Outcome(d) \in {"body_error", "operation_error"}
                             THEN Outcome(d) ELSE "cleanup_error"
      <3>1. report \in Results /\ Return(d, report)
        BY <2>6, <2>9 DEF ReturnConnectionFails, Results
      <3>2. d = c /\ call'[c].returned = report
        BY <2>3, <3>1
      <3>3. StillHolds(c)
        BY <2>7, <2>9, <3>2 DEF ReturnConnectionFails, StillHolds
      <3>4. call[c].completed \in {"result", "body_error", "operation_error", None}
        BY <2>1 DEF Call
      <3> QED
        BY <2>5, <3>2, <3>3, <3>4, NoneAssumption DEF Results
    <2>10. ASSUME NEW d \in Callers, Enter(d)
           PROVE  FALSE
      <3>1. call' = [call EXCEPT ![d] = [Idle EXCEPT !.pc = "checkout"]]
        BY <2>10 DEF Enter
      <3>2. call'[d].returned = None /\ \A e \in Callers : e # d => call'[e] = call[e]
        BY <3>1 DEF Idle, IInv, TypeOK
      <3> QED
        BY <3>2
    <2>11. ASSUME NEW d \in Callers, Proceed(d), ~ReturnConnection(d), ~ReturnConnectionFails(d)
           PROVE  FALSE
      <3>1. call[d] \in Call
        BY DEF IInv, TypeOK
      <3>2. /\ \A e \in Callers \ {d} : call'[e] = call[e]
            /\ call'[d].returned = call[d].returned
        BY <2>11, <3>1 DEF Proceed, Acquire, AlreadyHeld, AcquireFails, BodyEnds, Unlock,
                           UnlockFails, Goto, Finish, IInv, TypeOK, Call
      <3> QED
        BY <3>2
    <2>12. ASSUME NEW d \in Callers, NEW k \in Connections, Checkout(d, k)
           PROVE  FALSE
      <3>1. call[d] \in Call
        BY DEF IInv, TypeOK
      <3>2. /\ \A e \in Callers \ {d} : call'[e] = call[e]
            /\ call'[d].returned = call[d].returned
        BY <2>12, <3>1 DEF Checkout, IInv, TypeOK, Call
      <3> QED
        BY <3>2
    <2>13. ~ProcessDies /\ ~UNCHANGED vars /\ ~\E k \in Connections : SessionEnds(k)
      BY DEF ProcessDies, Idle, vars, SessionEnds
    <2> HIDE DEF Honest
    <2> QED
      BY <2>4, <2>8, <2>9, <2>10, <2>11, <2>12, <2>13 DEF Next
  <1>2. [][\A c \in Callers : Honest(c)]_vars => OutcomesAreHonest
    BY PTL DEF OutcomesAreHonest
  <1> QED
    BY <1>1, <1>2, Invariance, PTL DEF Spec

------------------------------------------------------------------------------
(* The connections: those in use by no call are as many as there were errors. *)

Lost == {k \in Connections : user[k] # None /\ ConnectionOf(user[k]) # k}

\* A step loses no connection, or one by an error.
LEMMA LostStep ==
  ASSUME IInv, [Next]_vars
  PROVE  \/ Lost' \subseteq Lost /\ errors <= errors'
         \/ errors' = errors + 1 /\ \E k \in Connections : Lost' \subseteq Lost \cup {k}
  <1> USE DEF IInv
  <1>1. ASSUME NEW c \in Callers, NEW k \in Connections, ConnectionOf(c) = k,
               \A e \in Callers \ {c} : call'[e] = call[e], UNCHANGED user
        PROVE  Lost' \subseteq Lost \cup {k}
    BY <1>1 DEF Lost, ConnectionOf, TypeOK
  <1>2. ASSUME NEW c \in Callers, \A e \in Callers \ {c} : call'[e] = call[e],
               \/ call'[c].connection = ConnectionOf(c) /\ UNCHANGED user
               \/ ConnectionOf(c) = None /\ UNCHANGED user
               \/ /\ ConnectionOf(c) \in Connections
                  /\ user' = [user EXCEPT ![ConnectionOf(c)] = None]
               \/ /\ ConnectionOf(c) = None /\ call'[c].connection \in Connections
                  /\ user' = [user EXCEPT ![call'[c].connection] = c]
        PROVE  Lost' \subseteq Lost
    BY <1>2, NoneAssumption DEF Lost, ConnectionOf, TypeOK
  <1>3. errors \in Nat
    BY BoundAssumption DEF TypeOK
  <1>4. ASSUME NEW c \in Callers, Enter(c) \/ CheckoutFails(c)
        PROVE  Lost' \subseteq Lost /\ errors <= errors'
    <2>1. ConnectionOf(c) = None
      BY <1>4 DEF Enter, CheckoutFails, At, ConnectionOf, GoodCall, Holding
    <2>2. (\A e \in Callers \ {c} : call'[e] = call[e]) /\ UNCHANGED user
      BY <1>4 DEF Enter, CheckoutFails, Return, TypeOK
    <2>3. errors <= errors'
      BY <1>3, <1>4 DEF Enter, CheckoutFails, OneMoreError
    <2> QED
      BY <1>2, <2>1, <2>2, <2>3
  <1>5. ASSUME NEW c \in Callers, NEW k \in Connections, Checkout(c, k)
        PROVE  Lost' \subseteq Lost /\ errors <= errors'
    <2>1. ConnectionOf(c) = None /\ call[c] \in Call
      BY <1>5 DEF Checkout, At, ConnectionOf, GoodCall, Holding, TypeOK
    <2>2. /\ \A e \in Callers \ {c} : call'[e] = call[e]
          /\ call'[c].connection = k
          /\ user' = [user EXCEPT ![k] = c]
      BY <1>5, <2>1 DEF Checkout, TypeOK, Call
    <2>3. errors <= errors'
      BY <1>3, <1>5 DEF Checkout
    <2>4. Lost' \subseteq Lost
      BY <1>2, <2>1, <2>2
    <2> QED
      BY <2>3, <2>4
  <1>6. ASSUME NEW c \in Callers, Proceed(c), ~ReturnConnection(c), ~ReturnConnectionFails(c)
        PROVE  Lost' \subseteq Lost /\ errors <= errors'
    <2>1. call[c] \in Call
      BY DEF TypeOK
    <2>2. /\ \A e \in Callers \ {c} : call'[e] = call[e]
          /\ call'[c].connection = ConnectionOf(c)
          /\ UNCHANGED user
      BY <1>6, <2>1 DEF Proceed, Acquire, AlreadyHeld, AcquireFails, BodyEnds, Unlock,
                        UnlockFails, Goto, Finish, ConnectionOf, TypeOK, Call
    <2>3. errors <= errors'
      BY <1>3, <1>6 DEF Proceed, Acquire, AlreadyHeld, AcquireFails, BodyEnds, Unlock,
                        UnlockFails, StatementFails, OneMoreError
    <2> QED
      BY <1>2, <2>2, <2>3
  <1>7. ASSUME NEW c \in Callers, ReturnConnection(c) \/ ReturnConnectionFails(c)
        PROVE  /\ ConnectionOf(c) \in Connections
               /\ \A e \in Callers \ {c} : call'[e] = call[e]
    BY <1>7, NoneAssumption
    DEF ReturnConnection, ReturnConnectionFails, At, Return, ConnectionOf, GoodCall,
        Holding, TypeOK, Call
  <1>8. ASSUME NEW c \in Callers, ReturnConnection(c)
        PROVE  Lost' \subseteq Lost /\ errors <= errors'
    <2>1. user' = [user EXCEPT ![ConnectionOf(c)] = None] /\ errors <= errors'
      BY <1>3, <1>8 DEF ReturnConnection
    <2> QED
      BY <1>2, <1>7, <1>8, <2>1
  <1>9. ASSUME NEW c \in Callers, ReturnConnectionFails(c)
        PROVE  errors' = errors + 1 /\ \E k \in Connections : Lost' \subseteq Lost \cup {k}
    BY <1>1, <1>7, <1>9 DEF ReturnConnectionFails, OneMoreError
  <1>10. ASSUME (\E k \in Connections : SessionEnds(k)) \/ UNCHANGED vars
         PROVE  Lost' \subseteq Lost /\ errors <= errors'
    BY <1>3, <1>10 DEF SessionEnds, vars, Lost, ConnectionOf
  <1>11. ASSUME ProcessDies
         PROVE  Lost' \subseteq Lost /\ errors <= errors'
    BY <1>3, <1>11 DEF ProcessDies, Lost
  <1> QED
    BY <1>4, <1>5, <1>6, <1>8, <1>9, <1>10, <1>11 DEF Next

\* The pool loses at most one connection for each error, and never one that a
\* call uses.
THEOREM AccountedConnections == Spec => []ConnectionsAccounted
  <1> DEFINE Few == Cardinality(Lost) <= errors
  <1>1. Init => Few
    <2> SUFFICES ASSUME Init PROVE Few
      OBVIOUS
    <2>1. Lost = {} /\ errors = 0
      BY DEF Init, Lost
    <2> QED
      BY <2>1, FS_EmptySet
  <1>2. IInv /\ Few /\ [Next]_vars => Few'
    <2> SUFFICES ASSUME IInv, Few, [Next]_vars PROVE Few'
      OBVIOUS
    <2>1. IsFiniteSet(Lost) /\ IsFiniteSet(Lost')
      BY PoolAssumption, FS_Subset DEF Lost
    <2>2. Cardinality(Lost) \in Nat /\ Cardinality(Lost') \in Nat
      BY <2>1, FS_CardinalityType
    <2>3. errors \in Nat /\ errors' \in Nat
      BY NextIInv, BoundAssumption DEF IInv, TypeOK
    <2>4. CASE Lost' \subseteq Lost /\ errors <= errors'
      <3>1. Cardinality(Lost') <= Cardinality(Lost)
        BY <2>1, <2>4, FS_Subset
      <3> QED
        BY <2>2, <2>3, <2>4, <3>1
    <2>5. ASSUME errors' = errors + 1, NEW k \in Connections, Lost' \subseteq Lost \cup {k}
          PROVE  Few'
      <3>1. IsFiniteSet(Lost \cup {k}) /\ Cardinality(Lost \cup {k}) <= Cardinality(Lost) + 1
        <4>1. /\ IsFiniteSet(Lost \cup {k})
              /\ Cardinality(Lost \cup {k}) = IF k \in Lost THEN Cardinality(Lost) ELSE Cardinality(Lost) + 1
          BY <2>1, FS_AddElement
        <4> QED BY <2>2, <4>1
      <3>2. Cardinality(Lost') <= Cardinality(Lost \cup {k})
        BY <2>5, <3>1, FS_Subset
      <3>3. Cardinality(Lost \cup {k}) \in Nat
        BY <3>1, FS_CardinalityType
      <3> QED
        BY <2>2, <2>3, <2>5, <3>1, <3>2, <3>3
    <2> QED
      BY <2>4, <2>5, LostStep
  <1>3. IInv /\ Few => ConnectionsAccounted
    BY DEF IInv, Assigned, ConnectionsAccounted, Lost
  <1> QED
    BY <1>1, <1>2, <1>3, Invariance, PTL DEF Spec

==============================================================================
