----------------------------- MODULE RefreshProofs -----------------------------
(* Proofs about ScheduledRefresh: any sources, anchors, processes, operators,  *)
(* thresholds and ages.                                                        *)
EXTENDS ScheduledRefresh, FiniteSetTheorems, WellFoundedInduction, TLAPS

(* ------------------------------- the store -------------------------------- *)

\* Every step of the refresh is an operation of the store or leaves it alone.
LEMMA StoreStep ==
  ASSUME [Next]_vars
  PROVE  [Sup!Next]_(Sup!vars)
<1> USE DEF supVars, Sup!vars
<1>1. CASE UNCHANGED vars
  BY <1>1 DEF vars
<1>2. CASE Tick
  BY <1>2 DEF Tick
<1>3. CASE Reactivation
  BY <1>3 DEF Reactivation, Sup!Next
<1>4. ASSUME NEW c \in Cycles, Trigger(c) PROVE UNCHANGED supVars
  BY <1>4 DEF Trigger
<1>5. ASSUME NEW c \in Cycles, Work(c) PROVE UNCHANGED supVars \/ Sup!Record(c)
  <2>1. CASE \/ ListSuppressed(c) \/ PrepareFails(c) \/ SkipDuplicate(c) \/ AttemptFails(c)
             \/ Observe(c) \/ Persist(c) \/ PersistFails(c)
    BY <2>1 DEF ListSuppressed, PrepareFails, SkipDuplicate, AttemptFails, Observe, Persist,
                PersistFails
  <2>2. CASE RecordBegin(c)
    BY <2>2 DEF RecordBegin, Sup!Record
  <2>3. CASE RecordCommit(c)
    BY <2>3 DEF RecordCommit, Sup!Record
  <2>4. CASE RecordFails(c)
    BY <2>4 DEF RecordFails, Sup!Record
  <2>5. CASE \/ ListAnchors(c) \/ ListAnchorsFails(c) \/ UpsertScore(c) \/ UpsertFails(c)
             \/ \E a \in Anchors : ReadEvidence(c, a) \/ ReadEvidenceFails(c, a)
    BY <2>5 DEF ListAnchors, ListAnchorsFails, UpsertScore, UpsertFails, ReadEvidence,
                ReadEvidenceFails
  <2> QED BY <1>5, <2>1, <2>2, <2>3, <2>4, <2>5 DEF Work
<1>6. ASSUME NEW c \in Cycles, Crash(c) PROVE UNCHANGED supVars \/ Sup!Record(c)
  BY <1>6 DEF Crash, Sup!Record
<1>7. CASE \E c \in Cycles : Trigger(c) \/ Work(c) \/ Crash(c)
  BY <1>4, <1>5, <1>6, <1>7 DEF Sup!Next
<1> QED BY <1>1, <1>2, <1>3, <1>7 DEF Next

\* The refresh uses the suppression store through its operations only
\* (lib/scheduled/refresh.ts): for any number of processes and sources, so that
\* what is proved of the store holds of the refresh.
THEOREM StoreIsUsed == Spec => UsesSuppressionStore
<1>1. Init => Sup!Init
  BY DEF Init
<1> QED BY <1>1, StoreStep, PTL DEF Spec, UsesSuppressionStore, Sup!Spec

(* ------------------------------ the evidence ------------------------------ *)

IsList(f) == \E S : f \in Seq(S)

\* What was attempted is stored, about to be stored, or reported.
Attempts(q, stored) ==
  q.prepared /\ q.failures = <<>> =>
    \A s \in q.seen : \/ q.pc = "persist" /\ s = q.observation.source
                      \/ \E o \in stored : o.source = s /\ o.run = q.run

\* Every anchor is still to be evaluated, or has a score as recent as the cycle.
Evaluates(q, kept) ==
  q.pc = "evaluate" /\ q.evaluated =>
    \A a \in Anchors : \/ a \in q.anchors
                       \/ q.reading # None /\ q.reading.anchor = a
                       \/ kept[a] # None /\ kept[a].computedAt >= q.startedAt

\* What a cycle has stored bears its run, and is among what it has seen; what it
\* is about to store is not there yet.
Stores(q, stored) ==
  /\ q.pc # "idle" => q.run # 0
  /\ q.persisted \subseteq stored
  /\ q.run # 0 => \A x \in stored : x.run = q.run => x.source \in q.seen
  /\ q.pc = "persist" =>
       /\ q.observation.run = q.run /\ q.observation.source \in q.seen
       /\ \A x \in stored : ~(x.run = q.run /\ x.source = q.observation.source)

Formed(q) ==
  /\ DOMAIN q = DOMAIN Idle
  /\ IsList(q.failures)
  /\ q.run \in 0 .. MaxRuns /\ q.startedAt \in 0 .. MaxTime
  /\ q.reading # None => q.reading \in Reading

Sound(q, stored, kept) ==
  Formed(q) /\ Stores(q, stored) /\ Attempts(q, stored) /\ Evaluates(q, kept)

RefreshInv ==
  /\ clock \in 0 .. MaxTime /\ runs \in 0 .. MaxRuns
  /\ cycle = [c \in Cycles |-> cycle[c]]
  /\ scores = [a \in Anchors |-> scores[a]]
  /\ \A a \in Anchors : scores[a] # None => scores[a] \in Score
  /\ \A c \in Cycles : Sound(cycle[c], snapshots, scores) /\ cycle[c].run <= runs
  /\ \A c, d \in Cycles : c # d /\ cycle[c].run # 0 => cycle[c].run # cycle[d].run
  /\ \A x \in snapshots : x.run \in 1 .. runs
  /\ NeverDuplicated

\* The scores stay, or move to later evaluations.
ScoresGrow ==
  /\ scores' = [a \in Anchors |-> scores'[a]]
  /\ \A a \in Anchors : scores'[a] # scores[a] =>
       /\ scores'[a] # None /\ scores'[a] \in Score
       /\ scores[a] # None => scores[a].computedAt < scores'[a].computedAt

\* What holds of one cycle is not disturbed by what another one stores.
LEMMA OthersKeep ==
  ASSUME NEW q, NEW run, q.run = 0 \/ q.run # run, RefreshInv, ScoresGrow,
         Sound(q, snapshots, scores),
         snapshots \subseteq snapshots',
         \A x \in snapshots' : x \in snapshots \/ x.run = run
  PROVE  Sound(q, snapshots', scores')
<1>1. Formed(q) /\ Stores(q, snapshots) /\ Attempts(q, snapshots) /\ Evaluates(q, scores)
  BY DEF Sound
<1>2. Stores(q, snapshots')
  BY <1>1 DEF Stores
<1>3. Attempts(q, snapshots')
  BY <1>1 DEF Attempts
<1>4. Evaluates(q, scores')
  <2>1. ASSUME NEW a \in Anchors, scores[a] # None, scores[a].computedAt >= q.startedAt
        PROVE  scores'[a] # None /\ scores'[a].computedAt >= q.startedAt
    <3>1. scores[a].computedAt \in Nat /\ q.startedAt \in Nat
      BY <1>1, <2>1, TimeAssumption DEF RefreshInv, Score, Formed
    <3>2. CASE scores'[a] = scores[a]
      BY <2>1, <3>2
    <3>3. CASE scores'[a] # scores[a]
      <4>1. scores'[a] # None /\ scores'[a] \in Score /\ scores[a].computedAt < scores'[a].computedAt
        BY <2>1, <3>3 DEF ScoresGrow
      <4>2. scores'[a].computedAt \in Nat
        BY <4>1, TimeAssumption DEF Score
      <4> QED BY <2>1, <3>1, <4>1, <4>2
    <3> QED BY <3>2, <3>3
  <2> QED BY <1>1, <2>1 DEF Evaluates
<1> QED BY <1>1, <1>2, <1>3, <1>4 DEF Sound

\* A step of one cycle.
LEMMA CycleStep ==
  ASSUME RefreshInv, ScoresGrow, NEW c \in Cycles, UNCHANGED <<clock, runs>>,
         cycle' = [d \in Cycles |-> cycle'[d]],
         \A d \in Cycles \ {c} : cycle'[d] = cycle[d],
         cycle'[c].run = cycle[c].run \/ cycle'[c].run = 0,
         Sound(cycle'[c], snapshots', scores'),
         \/ snapshots' = snapshots
         \/ cycle[c].pc = "persist" /\ snapshots' = snapshots \cup {cycle[c].observation}
  PROVE  RefreshInv'
<1>1. /\ Sound(cycle[c], snapshots, scores) /\ cycle[c].run \in 0 .. MaxRuns
      /\ cycle[c].run <= runs /\ runs \in Nat
  BY TimeAssumption DEF RefreshInv, Sound, Formed
<1>2. /\ snapshots \subseteq snapshots'
      /\ \A x \in snapshots' : x \in snapshots \/ x.run = cycle[c].run
      /\ cycle[c].pc = "persist" => cycle[c].run # 0 /\ cycle[c].observation.run = cycle[c].run
  BY <1>1 DEF Sound, Stores
<1>3. \A d \in Cycles \ {c} : Sound(cycle'[d], snapshots', scores')
  <2>1. ASSUME NEW d \in Cycles \ {c}
        PROVE  Sound(cycle'[d], snapshots', scores')
    <3>1. Sound(cycle[d], snapshots, scores) /\ (cycle[d].run = 0 \/ cycle[d].run # cycle[c].run)
      BY DEF RefreshInv
    <3>2. PICK run : run = cycle[c].run
      OBVIOUS
    <3>3. PICK q : q = cycle[d]
      OBVIOUS
    <3>4. Sound(q, snapshots', scores')
      BY <1>2, <3>1, <3>2, <3>3, OthersKeep
    <3> QED BY <3>3, <3>4
  <2> QED BY <2>1
<1>4. \A d \in Cycles : cycle'[d].run <= runs'
  BY <1>1 DEF RefreshInv
<1>5. \A d, e \in Cycles : d # e /\ cycle'[d].run # 0 => cycle'[d].run # cycle'[e].run
  BY DEF RefreshInv
<1>6. \A x \in snapshots' : x.run \in 1 .. runs'
  BY <1>1, <1>2 DEF RefreshInv
<1>7. NeverDuplicated'
  <2>1. CASE snapshots' = snapshots
    BY <2>1 DEF RefreshInv, NeverDuplicated
  <2>2. CASE cycle[c].pc = "persist" /\ snapshots' = snapshots \cup {cycle[c].observation}
    BY <1>1, <2>2 DEF RefreshInv, NeverDuplicated, Sound, Stores
  <2> QED BY <2>1, <2>2
<1>8. \A a \in Anchors : scores'[a] # None => scores'[a] \in Score
  BY DEF ScoresGrow, RefreshInv
<1> QED BY <1>3, <1>4, <1>5, <1>6, <1>7, <1>8 DEF RefreshInv, ScoresGrow

\* A cycle begins anew, or has ended without a summary.
LEMMA IdleIsSound ==
  ASSUME NEW stored, NEW kept
  PROVE  Sound(Idle, stored, kept)
<1>1. IsList(<<>>)
  <2>1. <<>> \in Seq({})
    OBVIOUS
  <2> QED BY <2>1 DEF IsList
<1>2. Formed(Idle)
  BY <1>1, TimeAssumption DEF Formed, Idle
<1>3. Stores(Idle, stored) /\ Attempts(Idle, stored) /\ Evaluates(Idle, kept)
  BY DEF Stores, Attempts, Evaluates, Idle
<1> QED BY <1>2, <1>3 DEF Sound

\* A cycle that goes back to its candidates, or forgets them.
LEMMA RatesStep ==
  ASSUME RefreshInv, NEW c \in Cycles, UNCHANGED <<clock, runs, snapshots, scores>>,
         cycle' = [d \in Cycles |-> cycle'[d]],
         \A d \in Cycles \ {c} : cycle'[d] = cycle[d],
         NEW q, q = cycle[c], NEW p, p = cycle'[c], DOMAIN p = DOMAIN Idle,
         p.pc = "rates", q.pc \in {"list", "rates"},
         p.run = q.run, p.startedAt = q.startedAt, p.seen = q.seen, p.reading = q.reading,
         \/ p.failures = q.failures /\ (p.prepared => q.prepared) /\ p.persisted = q.persisted
         \/ p.failures = <<>> /\ ~p.prepared /\ p.persisted = {}
  PROVE  RefreshInv'
<1>1. Formed(q) /\ Stores(q, snapshots) /\ Attempts(q, snapshots)
  BY DEF RefreshInv, Sound
<1>2. Formed(p)
  <2>1. IsList(p.failures)
    BY <1>1, IdleIsSound DEF Formed, Sound, Idle
  <2> QED BY <1>1, <2>1 DEF Formed
<1>3. Stores(p, snapshots)
  BY <1>1 DEF Stores
<1>4. Attempts(p, snapshots)
  <2>1. CASE ~p.prepared
    BY <2>1 DEF Attempts
  <2>2. CASE p.failures = q.failures /\ (p.prepared => q.prepared)
    <3> SUFFICES ASSUME p.prepared, p.failures = <<>>, NEW s \in p.seen
                 PROVE  \E o \in snapshots : o.source = s /\ o.run = p.run
      BY DEF Attempts
    <3>1. q.prepared /\ q.failures = <<>> /\ s \in q.seen /\ q.pc # "persist"
      BY <2>2
    <3>2. \E o \in snapshots : o.source = s /\ o.run = q.run
      BY <1>1, <3>1 DEF Attempts
    <3> QED BY <3>2
  <2> QED BY <2>1, <2>2
<1>5. Evaluates(p, scores)
  BY DEF Evaluates
<1>6. ScoresGrow
  BY DEF ScoresGrow, RefreshInv
<1> QED BY <1>2, <1>3, <1>4, <1>5, <1>6, CycleStep DEF Sound

\* The steps that list, skip and record.
LEMMA ListStep ==
  ASSUME RefreshInv, NEW c \in Cycles,
         \/ ListSuppressed(c) \/ PrepareFails(c) \/ SkipDuplicate(c)
         \/ RecordBegin(c) \/ RecordCommit(c) \/ RecordFails(c)
  PROVE  RefreshInv'
<1>1. PICK q : q = cycle[c]
  OBVIOUS
<1>2. /\ cycle = [d \in Cycles |-> cycle[d]]
      /\ DOMAIN q = DOMAIN Idle
  BY <1>1 DEF RefreshInv, Sound, Formed
<1>3. UNCHANGED <<clock, runs, snapshots, scores>> /\ q.pc \in {"list", "rates"}
  BY <1>1 DEF ListSuppressed, PrepareFails, SkipDuplicate, RecordBegin, RecordCommit, RecordFails,
              Recording, AtCandidate, evidence
<1>4. CASE ListSuppressed(c) \/ SkipDuplicate(c) \/ RecordCommit(c)
  <2>1. PICK pc, todo, unrecorded :
          /\ pc = "rates"
          /\ \/ cycle' = [cycle EXCEPT ![c].pc = pc, ![c].todo = todo]
             \/ cycle' = [cycle EXCEPT ![c].todo = todo] /\ q.pc = pc
             \/ cycle' = [cycle EXCEPT ![c].unrecorded = unrecorded] /\ q.pc = pc
    BY <1>1, <1>4 DEF ListSuppressed, SkipDuplicate, RecordCommit, Recording, AtCandidate
  <2>2. /\ cycle' = [d \in Cycles |-> cycle'[d]]
        /\ \A d \in Cycles \ {c} : cycle'[d] = cycle[d]
        /\ DOMAIN cycle'[c] = DOMAIN Idle
        /\ cycle'[c].pc = "rates"
        /\ cycle'[c].run = q.run /\ cycle'[c].startedAt = q.startedAt
        /\ cycle'[c].seen = q.seen /\ cycle'[c].reading = q.reading
        /\ cycle'[c].failures = q.failures /\ (cycle'[c].prepared => q.prepared)
        /\ cycle'[c].persisted = q.persisted
    BY <1>1, <1>2, <2>1 DEF Idle
  <2> QED BY <1>1, <1>3, <2>2, RatesStep
<1>5. CASE PrepareFails(c) \/ RecordFails(c)
  <2>1. cycle' = [cycle EXCEPT ![c] = PreparationFailure(q)]
    BY <1>1, <1>5 DEF PrepareFails, RecordFails
  <2>2. /\ cycle' = [d \in Cycles |-> cycle'[d]]
        /\ \A d \in Cycles \ {c} : cycle'[d] = cycle[d]
        /\ cycle'[c] = PreparationFailure(q)
    BY <1>2, <2>1
  <2> DEFINE p == PreparationFailure(q)
  <2>3. /\ DOMAIN p = DOMAIN Idle /\ p.pc = "rates"
        /\ p.run = q.run /\ p.startedAt = q.startedAt /\ p.seen = q.seen
        /\ p.reading = q.reading
        /\ p.failures = <<>> /\ ~p.prepared /\ p.persisted = {}
    BY <1>2 DEF PreparationFailure, Idle
  <2> HIDE DEF p
  <2> QED BY <1>1, <1>3, <2>2, <2>3, RatesStep DEF p
<1>6. CASE RecordBegin(c)
  BY <1>6 DEF RecordBegin, RefreshInv, evidence, NeverDuplicated
<1> QED BY <1>4, <1>5, <1>6

\* One more failure is never no failure.
LEMMA OneMoreFailure ==
  ASSUME NEW f, IsList(f), NEW x
  PROVE  IsList(Append(f, x)) /\ Append(f, x) # <<>>
<1>1. PICK S : f \in Seq(S)
  BY DEF IsList
<1>2. Append(f, x) \in Seq(S \cup {x}) /\ Append(f, x) # <<>>
  BY <1>1
<1> QED BY <1>2 DEF IsList

\* What a failure changes of a cycle.
LEMMA FailedFields ==
  ASSUME NEW q, DOMAIN q = DOMAIN Idle, NEW s, NEW phase, NEW permanent
  PROVE  LET p == Failed(q, s, phase, permanent)
         IN  /\ DOMAIN p = DOMAIN Idle
             /\ p.failures = Append(q.failures, [source |-> s, phase |-> phase])
             /\ p.pc = q.pc /\ p.run = q.run /\ p.startedAt = q.startedAt /\ p.seen = q.seen
             /\ p.persisted = q.persisted /\ p.reading = q.reading
BY DEF Failed, Idle

\* What an attempt changes of a cycle.
LEMMA AttemptedFields ==
  ASSUME NEW q, DOMAIN q = DOMAIN Idle
  PROVE  LET p == Attempted(q)
         IN  /\ DOMAIN p = DOMAIN Idle
             /\ p.seen = q.seen \cup {SourceList[Min(q.todo)]}
             /\ p.pc = q.pc /\ p.run = q.run /\ p.startedAt = q.startedAt
             /\ p.failures = q.failures /\ p.persisted = q.persisted /\ p.reading = q.reading
             /\ p.prepared => q.prepared
BY DEF Attempted, Idle

\* The attempt at a candidate fails, or yields an observation.
LEMMA AttemptStep ==
  ASSUME RefreshInv, NEW c \in Cycles, AttemptFails(c) \/ Observe(c)
  PROVE  RefreshInv'
<1>1. PICK q : q = cycle[c]
  OBVIOUS
<1>2. /\ cycle = [d \in Cycles |-> cycle[d]] /\ DOMAIN q = DOMAIN Idle
      /\ Formed(q) /\ Stores(q, snapshots) /\ Attempts(q, snapshots)
  BY <1>1 DEF RefreshInv, Sound, Formed
<1>3. UNCHANGED <<clock, runs, snapshots, scores>> /\ q.pc = "rates"
      /\ SourceList[Min(q.todo)] \notin q.seen
  BY <1>1 DEF AttemptFails, Observe, AtCandidate, Candidate, evidence
<1>4. ScoresGrow
  BY <1>3 DEF ScoresGrow, RefreshInv
<1>5. PICK q1 : q1 = Attempted(q)
  OBVIOUS
<1>6. /\ DOMAIN q1 = DOMAIN Idle /\ q1.seen = q.seen \cup {SourceList[Min(q.todo)]}
      /\ q1.pc = q.pc /\ q1.run = q.run /\ q1.startedAt = q.startedAt
      /\ q1.failures = q.failures /\ q1.persisted = q.persisted /\ q1.reading = q.reading
      /\ q1.prepared => q.prepared
  BY <1>2, <1>5, AttemptedFields
<1>7. CASE AttemptFails(c)
  <2>1. PICK phase, permanent :
          cycle' = [cycle EXCEPT ![c] = Failed(Attempted(@), Candidate(c), phase, permanent)]
    BY <1>7 DEF AttemptFails
  <2>2. PICK p : p = Failed(q1, SourceList[Min(q.todo)], phase, permanent)
    OBVIOUS
  <2>3. cycle' = [cycle EXCEPT ![c] = p]
    BY <1>1, <1>5, <2>1, <2>2 DEF Candidate
  <2>4. /\ cycle' = [d \in Cycles |-> cycle'[d]]
        /\ \A d \in Cycles \ {c} : cycle'[d] = cycle[d]
        /\ cycle'[c] = p
    BY <1>2, <2>3
  <2>5. /\ DOMAIN p = DOMAIN Idle
        /\ p.failures = Append(q.failures, [source |-> SourceList[Min(q.todo)], phase |-> phase])
        /\ p.pc = "rates" /\ p.run = q.run /\ p.startedAt = q.startedAt /\ p.seen = q1.seen
        /\ p.persisted = q.persisted /\ p.reading = q.reading
    BY <1>3, <1>6, <2>2, FailedFields
  <2>6. IsList(p.failures) /\ p.failures # <<>>
    BY <1>2, <2>5, OneMoreFailure DEF Formed
  <2>7. Formed(p)
    BY <1>2, <2>5, <2>6 DEF Formed
  <2>8. Stores(p, snapshots)
    BY <1>2, <1>3, <1>6, <2>5 DEF Stores
  <2>9. Attempts(p, snapshots) /\ Evaluates(p, scores)
    BY <2>5, <2>6 DEF Attempts, Evaluates
  <2> QED BY <1>1, <1>3, <1>4, <2>4, <2>5, <2>7, <2>8, <2>9, CycleStep DEF Sound
<1>8. CASE Observe(c)
  <2>1. PICK o : o = [source |-> SourceList[Min(q.todo)], run |-> q.run, capturedAt |-> clock]
    OBVIOUS
  <2>2. PICK p : p = [q1 EXCEPT !.pc = "persist", !.observation = o]
    OBVIOUS
  <2>3. cycle' = [cycle EXCEPT ![c] = p]
    BY <1>1, <1>5, <1>8, <2>1, <2>2 DEF Observe, Candidate
  <2>4. /\ cycle' = [d \in Cycles |-> cycle'[d]]
        /\ \A d \in Cycles \ {c} : cycle'[d] = cycle[d]
        /\ cycle'[c] = p
    BY <1>2, <2>3
  <2>5. /\ DOMAIN p = DOMAIN Idle /\ p.pc = "persist" /\ p.observation = o
        /\ p.run = q.run /\ p.startedAt = q.startedAt /\ p.seen = q.seen \cup {SourceList[Min(q.todo)]}
        /\ p.failures = q.failures /\ p.persisted = q.persisted /\ p.reading = q.reading
        /\ p.prepared => q.prepared
    BY <1>6, <2>2 DEF Idle
  <2>6. Formed(p)
    BY <1>2, <2>5 DEF Formed
  <2>7. Stores(p, snapshots)
    BY <1>2, <1>3, <2>1, <2>5 DEF Stores
  <2>8. Attempts(p, snapshots)
    <3> SUFFICES ASSUME p.prepared, p.failures = <<>>, NEW s \in p.seen
                 PROVE  \/ p.pc = "persist" /\ s = p.observation.source
                        \/ \E x \in snapshots : x.source = s /\ x.run = p.run
      BY DEF Attempts
    <3> SUFFICES ASSUME s # p.observation.source
                 PROVE  \E x \in snapshots : x.source = s /\ x.run = p.run
      BY <2>5
    <3>1. q.prepared /\ q.failures = <<>> /\ s \in q.seen /\ q.pc # "persist"
      BY <1>3, <2>1, <2>5
    <3>2. \E x \in snapshots : x.source = s /\ x.run = q.run
      BY <1>2, <3>1 DEF Attempts
    <3> QED BY <2>5, <3>2
  <2>9. Evaluates(p, scores)
    BY <2>5 DEF Evaluates
  <2> QED BY <1>1, <1>3, <1>4, <2>4, <2>5, <2>6, <2>7, <2>8, <2>9, CycleStep DEF Sound
<1> QED BY <1>7, <1>8

\* An observation is stored and counted; or it is stored or not, and not counted.
LEMMA PersistStep ==
  ASSUME RefreshInv, NEW c \in Cycles, Persist(c) \/ PersistFails(c)
  PROVE  RefreshInv'
<1>1. PICK q : q = cycle[c]
  OBVIOUS
<1>2. /\ cycle = [d \in Cycles |-> cycle[d]] /\ DOMAIN q = DOMAIN Idle
      /\ Formed(q) /\ Stores(q, snapshots) /\ Attempts(q, snapshots)
  BY <1>1 DEF RefreshInv, Sound, Formed
<1>3. UNCHANGED <<clock, runs, scores>> /\ q.pc = "persist"
  BY <1>1 DEF Persist, PersistFails
<1>4. ScoresGrow
  BY <1>3 DEF ScoresGrow, RefreshInv
<1>5. CASE Persist(c)
  <2>1. snapshots' = snapshots \cup {q.observation}
    BY <1>1, <1>5 DEF Persist
  <2>2. PICK p : p = cycle'[c]
    OBVIOUS
  <2>3. /\ cycle' = [d \in Cycles |-> cycle'[d]]
        /\ \A d \in Cycles \ {c} : cycle'[d] = cycle[d]
        /\ DOMAIN p = DOMAIN Idle /\ p.pc = "rates"
        /\ p.persisted = q.persisted \cup {q.observation}
        /\ p.run = q.run /\ p.startedAt = q.startedAt /\ p.seen = q.seen
        /\ p.failures = q.failures /\ p.reading = q.reading
        /\ p.prepared => q.prepared
    BY <1>1, <1>2, <1>5, <2>2 DEF Persist, Idle
  <2>4. Formed(p)
    BY <1>2, <2>3 DEF Formed
  <2>5. Stores(p, snapshots')
    BY <1>2, <1>3, <2>1, <2>3 DEF Stores
  <2>6. Attempts(p, snapshots')
    <3> SUFFICES ASSUME p.prepared, p.failures = <<>>, NEW s \in p.seen
                 PROVE  \E x \in snapshots' : x.source = s /\ x.run = p.run
      BY DEF Attempts
    <3>1. q.prepared /\ q.failures = <<>> /\ s \in q.seen
      BY <2>3
    <3>2. s = q.observation.source \/ \E x \in snapshots : x.source = s /\ x.run = q.run
      BY <1>2, <3>1 DEF Attempts
    <3>3. q.observation.run = q.run
      BY <1>2, <1>3 DEF Stores
    <3> QED BY <2>1, <2>3, <3>2, <3>3
  <2>7. Evaluates(p, scores')
    BY <2>3 DEF Evaluates
  <2> QED BY <1>1, <1>3, <1>4, <2>1, <2>2, <2>3, <2>4, <2>5, <2>6, <2>7, CycleStep DEF Sound
<1>6. CASE PersistFails(c)
  <2>1. snapshots' = snapshots \/ snapshots' = snapshots \cup {q.observation}
    BY <1>1, <1>6 DEF PersistFails
  <2>2. PICK q1 : q1 = Failed(q, q.observation.source, "PERSISTENCE", FALSE)
    OBVIOUS
  <2>3. /\ DOMAIN q1 = DOMAIN Idle
        /\ q1.failures = Append(q.failures, [source |-> q.observation.source,
                                             phase |-> "PERSISTENCE"])
        /\ q1.run = q.run /\ q1.startedAt = q.startedAt /\ q1.seen = q.seen
        /\ q1.persisted = q.persisted /\ q1.reading = q.reading
    BY <1>2, <2>2 DEF Failed, Idle
  <2>4. PICK p : p = [q1 EXCEPT !.pc = "rates", !.observation = None]
    OBVIOUS
  <2>5. cycle' = [cycle EXCEPT ![c] = p]
    BY <1>1, <1>6, <2>2, <2>4 DEF PersistFails
  <2>6. /\ cycle' = [d \in Cycles |-> cycle'[d]]
        /\ \A d \in Cycles \ {c} : cycle'[d] = cycle[d]
        /\ cycle'[c] = p
    BY <1>2, <2>5
  <2>7. /\ DOMAIN p = DOMAIN Idle /\ p.pc = "rates" /\ p.failures = q1.failures
        /\ p.run = q.run /\ p.startedAt = q.startedAt /\ p.seen = q.seen
        /\ p.persisted = q.persisted /\ p.reading = q.reading
    BY <2>3, <2>4 DEF Idle
  <2>8. IsList(p.failures) /\ p.failures # <<>>
    BY <1>2, <2>3, <2>7, OneMoreFailure DEF Formed
  <2>9. Formed(p)
    BY <1>2, <2>7, <2>8 DEF Formed
  <2>10. Stores(p, snapshots')
    BY <1>2, <1>3, <2>1, <2>7 DEF Stores
  <2>11. Attempts(p, snapshots') /\ Evaluates(p, scores')
    BY <2>7, <2>8 DEF Attempts, Evaluates
  <2> QED BY <1>1, <1>3, <1>4, <2>1, <2>6, <2>7, <2>9, <2>10, <2>11, CycleStep DEF Sound
<1> QED BY <1>5, <1>6

\* What an upsert makes of the scores: the anchor has a score at least as recent
\* as the cycle, and no score moves back.
LEMMA Upserts ==
  ASSUME RefreshInv, NEW c \in Cycles, cycle[c].pc = "evaluate", cycle[c].reading # None,
         scores' = Upserted(c)
  PROVE  /\ ScoresGrow
         /\ scores'[cycle[c].reading.anchor] # None
         /\ scores'[cycle[c].reading.anchor].computedAt >= cycle[c].startedAt
<1> DEFINE a == cycle[c].reading.anchor
           new == [run |-> cycle[c].run, computedAt |-> cycle[c].startedAt,
                   fresh |-> cycle[c].reading.fresh]
<1>1. /\ cycle[c].run \in 1 .. MaxRuns /\ cycle[c].startedAt \in 0 .. MaxTime
      /\ cycle[c].reading \in Reading
  BY TimeAssumption DEF RefreshInv, Sound, Formed, Stores
<1>2. a \in Anchors /\ new \in Score
  BY <1>1 DEF Reading, Score
<1>3. new # None /\ new.computedAt = cycle[c].startedAt
  BY <1>2, NoneAssumption
<1>4. /\ scores = [b \in Anchors |-> scores[b]]
      /\ scores[a] # None => scores[a] \in Score
  BY <1>2 DEF RefreshInv
<1>5. scores' = IF scores[a] = None \/ scores[a].computedAt < new.computedAt
                THEN [scores EXCEPT ![a] = new] ELSE scores
  BY DEF Upserted
<1> HIDE DEF a, new
<1>6. CASE scores[a] = None \/ scores[a].computedAt < new.computedAt
  <2>1. /\ scores' = [b \in Anchors |-> scores'[b]]
        /\ scores'[a] = new /\ \A b \in Anchors \ {a} : scores'[b] = scores[b]
    BY <1>2, <1>4, <1>5, <1>6
  <2>2. ScoresGrow
    BY <1>2, <1>3, <1>6, <2>1 DEF ScoresGrow
  <2>3. new.computedAt >= cycle[c].startedAt
    BY <1>1, <1>3, TimeAssumption
  <2> QED BY <1>3, <2>1, <2>2, <2>3 DEF a
<1>7. CASE scores[a] # None /\ ~(scores[a].computedAt < new.computedAt)
  <2>1. scores' = scores
    BY <1>5, <1>7
  <2>2. scores[a].computedAt >= cycle[c].startedAt
    BY <1>1, <1>3, <1>4, <1>7, TimeAssumption DEF Score
  <2>3. ScoresGrow
    BY <1>4, <2>1 DEF ScoresGrow
  <2> QED BY <1>7, <2>1, <2>2, <2>3 DEF a
<1> QED BY <1>6, <1>7

\* The evaluation of the anchors, one after the other.
LEMMA EvaluateStep ==
  ASSUME RefreshInv, NEW c \in Cycles,
         \/ ListAnchors(c) \/ UpsertScore(c) \/ UpsertFails(c)
         \/ \E a \in Anchors : ReadEvidence(c, a) \/ ReadEvidenceFails(c, a)
  PROVE  RefreshInv' /\ ScoresGrow
<1>1. PICK q : q = cycle[c]
  OBVIOUS
<1>2. PICK p : p = cycle'[c]
  OBVIOUS
<1>3. /\ cycle = [d \in Cycles |-> cycle[d]] /\ DOMAIN q = DOMAIN Idle
      /\ Formed(q) /\ Stores(q, snapshots) /\ Attempts(q, snapshots) /\ Evaluates(q, scores)
  BY <1>1 DEF RefreshInv, Sound, Formed
<1>4. UNCHANGED <<clock, runs, snapshots>> /\ q.pc \in {"rates", "evaluate"}
  BY <1>1 DEF ListAnchors, RatesDone, UpsertScore, UpsertFails, ReadEvidence, ReadEvidenceFails,
              evidence
<1>5. ASSUME cycle' = [d \in Cycles |-> cycle'[d]],
             \A d \in Cycles \ {c} : cycle'[d] = cycle[d],
             DOMAIN p = DOMAIN Idle, p.pc = "evaluate",
             p.run = q.run, p.startedAt = q.startedAt, p.seen = q.seen,
             p.failures = q.failures, p.persisted = q.persisted, p.prepared => q.prepared,
             p.reading # None => p.reading \in Reading,
             Evaluates(p, scores'), ScoresGrow
      PROVE  RefreshInv'
  <2>1. Formed(p)
    BY <1>3, <1>5 DEF Formed
  <2>2. Stores(p, snapshots)
    BY <1>3, <1>4, <1>5 DEF Stores
  <2>3. Attempts(p, snapshots)
    <3> SUFFICES ASSUME p.prepared, p.failures = <<>>, NEW s \in p.seen
                 PROVE  \E x \in snapshots : x.source = s /\ x.run = p.run
      BY DEF Attempts
    <3>1. q.prepared /\ q.failures = <<>> /\ s \in q.seen /\ q.pc # "persist"
      BY <1>4, <1>5
    <3>2. \E x \in snapshots : x.source = s /\ x.run = q.run
      BY <1>3, <3>1 DEF Attempts
    <3> QED BY <1>5, <3>2
  <2> QED BY <1>1, <1>2, <1>4, <1>5, <2>1, <2>2, <2>3, CycleStep DEF Sound
<1>6. CASE ListAnchors(c)
  <2>1. /\ cycle' = [d \in Cycles |-> cycle'[d]]
        /\ \A d \in Cycles \ {c} : cycle'[d] = cycle[d]
        /\ DOMAIN p = DOMAIN Idle /\ p.pc = "evaluate" /\ p.anchors = Anchors
        /\ p.run = q.run /\ p.startedAt = q.startedAt /\ p.seen = q.seen
        /\ p.failures = q.failures /\ p.persisted = q.persisted /\ p.reading = q.reading
        /\ p.prepared => q.prepared
    BY <1>1, <1>2, <1>3, <1>6 DEF ListAnchors, Idle
  <2>2. Evaluates(p, scores')
    BY <2>1 DEF Evaluates
  <2>3. ScoresGrow
    BY <1>6 DEF ListAnchors, evidence, ScoresGrow, RefreshInv
  <2>4. p.reading # None => p.reading \in Reading
    BY <1>3, <2>1 DEF Formed
  <2> QED BY <1>5, <2>1, <2>2, <2>3, <2>4
<1>7. CASE \E a \in Anchors : ReadEvidence(c, a) \/ ReadEvidenceFails(c, a)
  <2>1. PICK a \in Anchors : ReadEvidence(c, a) \/ ReadEvidenceFails(c, a)
    BY <1>7
  <2>2. q.pc = "evaluate" /\ q.reading = None /\ scores' = scores
    BY <1>1, <2>1 DEF ReadEvidence, ReadEvidenceFails, evidence
  <2>3. ScoresGrow
    BY <2>2 DEF ScoresGrow, RefreshInv
  <2>4. CASE ReadEvidence(c, a)
    <3>1. PICK reading \in Reading :
            /\ reading.anchor = a
            /\ cycle' = [cycle EXCEPT ![c].anchors = @ \ {a}, ![c].reading = reading]
      <4> DEFINE fresh == {s \in Sources : AnchorOf[s] = a /\ FreshAt(s, cycle[c].startedAt)}
      <4>1. cycle' = [cycle EXCEPT ![c].anchors = @ \ {a},
                                   ![c].reading = [anchor |-> a, fresh |-> fresh]]
        BY <2>4 DEF ReadEvidence
      <4>2. fresh \in SUBSET Sources
        OBVIOUS
      <4> HIDE DEF fresh
      <4>3. [anchor |-> a, fresh |-> fresh] \in Reading
        BY <4>2 DEF Reading
      <4> QED BY <4>1, <4>3
    <3>2. /\ cycle' = [d \in Cycles |-> cycle'[d]]
          /\ \A d \in Cycles \ {c} : cycle'[d] = cycle[d]
          /\ DOMAIN p = DOMAIN Idle /\ p.pc = "evaluate" /\ p.anchors = q.anchors \ {a}
          /\ p.reading = reading
          /\ p.run = q.run /\ p.startedAt = q.startedAt /\ p.seen = q.seen
          /\ p.failures = q.failures /\ p.persisted = q.persisted
          /\ p.prepared => q.prepared
          /\ p.evaluated => q.evaluated
      BY <1>1, <1>2, <1>3, <2>2, <3>1 DEF Idle
    <3>3. reading # None
      BY NoneAssumption
    <3>4. Evaluates(p, scores')
      <4> SUFFICES ASSUME p.evaluated, NEW b \in Anchors
                   PROVE  \/ b \in p.anchors
                          \/ p.reading # None /\ p.reading.anchor = b
                          \/ scores[b] # None /\ scores[b].computedAt >= p.startedAt
        BY <2>2 DEF Evaluates
      <4>1. q.evaluated
        BY <3>2
      <4>2. b \in q.anchors \/ (scores[b] # None /\ scores[b].computedAt >= q.startedAt)
        BY <1>3, <2>2, <4>1 DEF Evaluates
      <4> QED BY <3>1, <3>2, <3>3, <4>2
    <3> QED BY <1>5, <2>3, <3>2, <3>4
  <2>5. CASE ReadEvidenceFails(c, a)
    <3>1. /\ cycle' = [d \in Cycles |-> cycle'[d]]
          /\ \A d \in Cycles \ {c} : cycle'[d] = cycle[d]
          /\ DOMAIN p = DOMAIN Idle /\ p.pc = "evaluate" /\ ~p.evaluated
          /\ p.run = q.run /\ p.startedAt = q.startedAt /\ p.seen = q.seen
          /\ p.failures = q.failures /\ p.persisted = q.persisted /\ p.reading = q.reading
          /\ p.prepared => q.prepared
      BY <1>1, <1>2, <1>3, <2>2, <2>5 DEF ReadEvidenceFails, Idle
    <3>2. Evaluates(p, scores')
      BY <3>1 DEF Evaluates
    <3> QED BY <1>5, <2>2, <2>3, <3>1, <3>2
  <2> QED BY <2>1, <2>4, <2>5
<1>8. CASE UpsertScore(c) \/ UpsertFails(c)
  <2>1. /\ q.pc = "evaluate" /\ q.reading # None
        /\ scores' = Upserted(c) \/ (scores' = scores /\ UpsertFails(c))
    BY <1>1, <1>8 DEF UpsertScore, UpsertFails
  <2>2. ScoresGrow
    <3>1. CASE scores' = Upserted(c)
      BY <1>1, <2>1, <3>1, Upserts
    <3>2. CASE scores' = scores
      BY <3>2 DEF ScoresGrow, RefreshInv
    <3> QED BY <2>1, <3>1, <3>2
  <2>3. /\ cycle' = [d \in Cycles |-> cycle'[d]]
        /\ \A d \in Cycles \ {c} : cycle'[d] = cycle[d]
        /\ DOMAIN p = DOMAIN Idle /\ p.pc = "evaluate" /\ p.reading = None
        /\ p.run = q.run /\ p.startedAt = q.startedAt /\ p.seen = q.seen
        /\ p.failures = q.failures /\ p.persisted = q.persisted /\ p.anchors = q.anchors
        /\ p.prepared => q.prepared
    BY <1>1, <1>2, <1>3, <1>8, <2>1 DEF UpsertScore, UpsertFails, Idle
  <2>4. Evaluates(p, scores')
    <3>1. CASE UpsertFails(c)
      <4>1. ~p.evaluated
        BY <1>1, <1>2, <1>3, <3>1 DEF UpsertFails, Idle
      <4> QED BY <4>1 DEF Evaluates
    <3>2. CASE UpsertScore(c)
      <4>1. p.evaluated => q.evaluated
        BY <1>1, <1>2, <1>3, <3>2 DEF UpsertScore, Idle
      <4>2. scores' = Upserted(c)
        BY <3>2 DEF UpsertScore
      <4>3. /\ scores'[q.reading.anchor] # None
            /\ scores'[q.reading.anchor].computedAt >= q.startedAt
        BY <1>1, <2>1, <4>2, Upserts
      <4>4. Evaluates(q, scores')
        <5>1. Sound(q, snapshots, scores)
          BY <1>3 DEF Sound
        <5>2. Sound(q, snapshots', scores')
          BY <1>4, <2>2, <5>1, OthersKeep
        <5> QED BY <5>2 DEF Sound
      <4> SUFFICES ASSUME p.evaluated, NEW b \in Anchors
                   PROVE  \/ b \in p.anchors
                          \/ scores'[b] # None /\ scores'[b].computedAt >= p.startedAt
        BY DEF Evaluates
      <4>5. \/ b \in q.anchors
            \/ q.reading # None /\ q.reading.anchor = b
            \/ scores'[b] # None /\ scores'[b].computedAt >= q.startedAt
        BY <2>1, <4>1, <4>4 DEF Evaluates
      <4> QED BY <2>3, <4>3, <4>5
    <3> QED BY <1>8, <3>1, <3>2
  <2> QED BY <1>5, <2>2, <2>3, <2>4
<1> QED BY <1>6, <1>7, <1>8

\* A cycle is triggered: its run is a new one.
LEMMA TriggerStep ==
  ASSUME RefreshInv, NEW c \in Cycles, Trigger(c)
  PROVE  RefreshInv'
<1>1. PICK p : p = [Idle EXCEPT !.pc = "list", !.run = runs + 1, !.startedAt = clock]
  OBVIOUS
<1>2. /\ runs' = runs + 1 /\ runs \in 0 .. MaxRuns /\ runs < MaxRuns /\ clock \in 0 .. MaxTime
      /\ UNCHANGED <<clock, snapshots, scores>>
      /\ cycle = [d \in Cycles |-> cycle[d]]
      /\ \A x \in snapshots : x.run \in 1 .. runs
      /\ \A d \in Cycles : cycle[d].run \in 0 .. MaxRuns /\ cycle[d].run <= runs
  BY DEF Trigger, RefreshInv, evidence, Sound, Formed
<1>3. /\ cycle' = [d \in Cycles |-> cycle'[d]]
      /\ \A d \in Cycles \ {c} : cycle'[d] = cycle[d]
      /\ cycle'[c] = p
  BY <1>1, <1>2 DEF Trigger
<1>4. /\ DOMAIN p = DOMAIN Idle /\ p.pc = "list" /\ p.run = runs + 1 /\ p.startedAt = clock
      /\ p.seen = {} /\ p.failures = <<>> /\ p.persisted = {} /\ p.reading = None
  BY <1>1 DEF Idle
<1>5. Sound(p, snapshots, scores)
  <2>1. IsList(p.failures)
    BY <1>4, IdleIsSound DEF Sound, Formed, Idle
  <2>2. Formed(p)
    BY <1>2, <1>4, <2>1, TimeAssumption DEF Formed
  <2>3. Stores(p, snapshots)
    BY <1>2, <1>4, TimeAssumption DEF Stores
  <2>4. Attempts(p, snapshots) /\ Evaluates(p, scores)
    BY <1>4 DEF Attempts, Evaluates
  <2> QED BY <2>2, <2>3, <2>4 DEF Sound
<1>6. \A d \in Cycles : Sound(cycle'[d], snapshots, scores) /\ cycle'[d].run <= runs'
  BY <1>2, <1>3, <1>4, <1>5, TimeAssumption DEF RefreshInv
<1>7. \A d, e \in Cycles : d # e /\ cycle'[d].run # 0 => cycle'[d].run # cycle'[e].run
  BY <1>2, <1>3, <1>4, TimeAssumption DEF RefreshInv
<1>8. \A x \in snapshots : x.run \in 1 .. runs'
  BY <1>2, TimeAssumption
<1>9. NeverDuplicated'
  BY <1>2 DEF NeverDuplicated, RefreshInv
<1> QED BY <1>2, <1>3, <1>6, <1>7, <1>8, <1>9, TimeAssumption DEF RefreshInv

\* A cycle that ends without a summary, or whose process dies.
LEMMA EndStep ==
  ASSUME RefreshInv, NEW c \in Cycles, ListAnchorsFails(c) \/ Crash(c)
  PROVE  RefreshInv'
<1>1. /\ UNCHANGED <<clock, runs, snapshots, scores>>
      /\ cycle = [d \in Cycles |-> cycle[d]]
      /\ cycle' = [cycle EXCEPT ![c] = Idle]
  BY DEF ListAnchorsFails, Crash, RefreshInv, evidence
<1>2. /\ cycle' = [d \in Cycles |-> cycle'[d]]
      /\ \A d \in Cycles \ {c} : cycle'[d] = cycle[d]
      /\ cycle'[c] = Idle
  BY <1>1
<1>3. ScoresGrow
  BY <1>1 DEF ScoresGrow, RefreshInv
<1>4. Sound(Idle, snapshots', scores')
  BY IdleIsSound
<1>5. cycle'[c].run = 0
  BY <1>2 DEF Idle
<1> QED BY <1>1, <1>2, <1>3, <1>4, <1>5, CycleStep

\* Every step keeps the invariant and moves no score back.
LEMMA RefreshStep ==
  ASSUME RefreshInv, [Next]_vars
  PROVE  RefreshInv' /\ ScoresGrow
<1>1. ASSUME UNCHANGED scores PROVE ScoresGrow
  BY <1>1 DEF ScoresGrow, RefreshInv
<1>2. ASSUME UNCHANGED <<runs, cycle, snapshots, scores>>, clock' \in 0 .. MaxTime
      PROVE  RefreshInv' /\ ScoresGrow
  BY <1>1, <1>2 DEF RefreshInv, NeverDuplicated
<1>3. clock \in 0 .. MaxTime
  BY DEF RefreshInv
<1>4. CASE UNCHANGED vars
  BY <1>2, <1>3, <1>4 DEF vars, evidence
<1>5. CASE Tick
  BY <1>2, <1>3, <1>5, TimeAssumption DEF Tick, evidence
<1>6. CASE Reactivation
  BY <1>2, <1>3, <1>6 DEF Reactivation, evidence
<1>7. ASSUME NEW c \in Cycles, Trigger(c) PROVE RefreshInv' /\ ScoresGrow
  BY <1>1, <1>7, TriggerStep DEF Trigger, evidence
<1>8. ASSUME NEW c \in Cycles, ListAnchorsFails(c) \/ Crash(c) PROVE RefreshInv' /\ ScoresGrow
  BY <1>1, <1>8, EndStep DEF ListAnchorsFails, Crash, evidence
<1>9. ASSUME NEW c \in Cycles,
             \/ ListSuppressed(c) \/ PrepareFails(c) \/ SkipDuplicate(c)
             \/ RecordBegin(c) \/ RecordCommit(c) \/ RecordFails(c)
      PROVE  RefreshInv' /\ ScoresGrow
  BY <1>1, <1>9, ListStep DEF ListSuppressed, PrepareFails, SkipDuplicate, RecordBegin,
                              RecordCommit, RecordFails, evidence
<1>10. ASSUME NEW c \in Cycles, AttemptFails(c) \/ Observe(c) PROVE RefreshInv' /\ ScoresGrow
  BY <1>1, <1>10, AttemptStep DEF AttemptFails, Observe, evidence
<1>11. ASSUME NEW c \in Cycles, Persist(c) \/ PersistFails(c) PROVE RefreshInv' /\ ScoresGrow
  BY <1>1, <1>11, PersistStep DEF Persist, PersistFails
<1>12. CASE \E c \in Cycles : Trigger(c) \/ Work(c) \/ Crash(c)
  BY <1>7, <1>8, <1>9, <1>10, <1>11, <1>12, EvaluateStep DEF Work
<1> QED BY <1>4, <1>5, <1>6, <1>12 DEF Next

\* The invariant of the refresh.
THEOREM RefreshInvariant == Spec => []RefreshInv
<1>1. Init => RefreshInv
  <2> SUFFICES ASSUME Init PROVE RefreshInv
    OBVIOUS
  <2>1. Idle.run = 0
    BY DEF Idle
  <2>2. \A c \in Cycles : cycle[c] = Idle
    BY DEF Init
  <2>3. \A c \in Cycles : Sound(cycle[c], snapshots, scores) /\ cycle[c].run = 0
    BY <2>1, <2>2, IdleIsSound
  <2>4. /\ clock = 0 /\ runs = 0 /\ snapshots = {}
        /\ cycle = [c \in Cycles |-> cycle[c]] /\ scores = [a \in Anchors |-> None]
    BY DEF Init
  <2> QED BY <2>3, <2>4, TimeAssumption DEF RefreshInv, NeverDuplicated
<1> QED BY <1>1, RefreshStep, PTL DEF Spec

\* What a cycle counts as succeeded is in the table (lib/rates/snapshotRun.ts):
\* for any number of overlapping cycles, lost answers and crashes.
THEOREM WhatSucceededIsThere == Spec => []SucceededIsDurable
<1>1. RefreshInv => SucceededIsDurable
  BY DEF RefreshInv, Sound, Stores, SucceededIsDurable
<1> QED BY <1>1, RefreshInvariant, PTL

\* No run stores two observations of a source (lib/rates/rateEngine.ts): however
\* often a source is listed and whatever answers are lost.
THEOREM NothingTwice == Spec => []NeverDuplicated
<1>1. RefreshInv => NeverDuplicated
  BY DEF RefreshInv
<1> QED BY <1>1, RefreshInvariant, PTL

\* A summary that says ok is true (lib/scheduled/refresh.ts): what was attempted
\* is stored and every anchor has a score as recent as the cycle.
THEOREM OkIsTrue == Spec => []OkIsTruthful
<1>1. RefreshInv => OkIsTruthful
  <2> SUFFICES ASSUME RefreshInv, NEW c \in Cycles, Reported(c), Ok(c)
               PROVE  /\ \A s \in cycle[c].seen :
                           \E o \in snapshots : o.source = s /\ o.run = cycle[c].run
                      /\ \A a \in Anchors :
                           scores[a] # None /\ scores[a].computedAt >= cycle[c].startedAt
    BY DEF OkIsTruthful
  <2>1. /\ Attempts(cycle[c], snapshots) /\ Evaluates(cycle[c], scores)
        /\ cycle[c].pc = "evaluate" /\ cycle[c].anchors = {} /\ cycle[c].reading = None
    BY DEF RefreshInv, Sound, Reported
  <2>2. cycle[c].prepared /\ cycle[c].failures = <<>> /\ cycle[c].evaluated
    BY DEF Ok
  <2> QED BY <2>1, <2>2 DEF Attempts, Evaluates
<1> QED BY <1>1, RefreshInvariant, PTL

\* No score is replaced by one computed for an earlier time
\* (lib/reputation/repository.ts): for any overlap of cycles.
THEOREM ScoresOnlyMoveForward == Spec => ScoresMoveForward
<1>1. RefreshInv /\ [Next]_vars =>
        [\A a \in Anchors : scores'[a] # scores[a] =>
           /\ scores'[a] # None
           /\ scores[a] # None => scores[a].computedAt < scores'[a].computedAt]_vars
  BY RefreshStep DEF ScoresGrow
<1> QED BY <1>1, RefreshInvariant, PTL DEF Spec, ScoresMoveForward

(* ----------------------------- the recordings ------------------------------ *)

Elements(u) == {u[i] : i \in 1 .. Len(u)}

\* What a cycle has yet to record: failures of sources it has seen, each once.
Queue(u, seen) ==
  /\ IsList(u)
  /\ Elements(u) \subseteq seen
  /\ \A i, j \in 1 .. Len(u) : u[i] = u[j] => i = j

\* The cycles that have yet to record a failure of s.
Queued(s) == {c \in Cycles : s \in Elements(cycle[c].unrecorded)}

\* Every recording, and every one still to come, has a failure of its own.
\* (The counters saturate: then the failures suffice for any recording.)
Balanced(queued, rec, det) ==
  /\ IsFiniteSet(queued) /\ rec \in Nat /\ det \in Nat /\ rec <= Threshold
  /\ det >= Threshold \/ rec + Cardinality(queued) <= det

\* A cycle has nothing before it that is withheld from it, and an open
\* transaction is the one of its next recording.
Pending(q, t, withheld) ==
  /\ Queue(q.unrecorded, q.seen)
  /\ q.todo \subseteq 1 .. Len(SourceList)
  /\ \A i \in q.todo : SourceList[i] \notin withheld
  /\ t # None => /\ q.pc = "rates" /\ q.todo = {} /\ q.unrecorded # <<>>
                 /\ t.source = Head(q.unrecorded)

PendingInv ==
  /\ tx = [c \in Cycles |-> tx[c]]
  /\ blocked = [c \in Cycles |-> blocked[c]]
  /\ recorded = [s \in Sources |-> recorded[s]]
  /\ deterministic = [s \in Sources |-> deterministic[s]]
  /\ \A c \in Cycles : blocked[c] \subseteq SuppressedSources
  /\ \A c \in Cycles : Pending(cycle[c], tx[c], blocked[c])
  /\ \A s \in Sources : Balanced(Queued(s), recorded[s], deterministic[s])

\* The first of some positions is one of them.
LEMMA FirstPosition ==
  ASSUME NEW positions, positions \subseteq 1 .. Len(SourceList), positions # {}
  PROVE  Min(positions) \in positions
<1>1. positions \subseteq Nat
  BY SourceListAssumption
<1>2. \E i \in positions : \A j \in positions : ~ (<<j, i>> \in OpToRel(<, Nat))
  BY <1>1, NatLessThanWellFounded, WFMin
<1>3. PICK i \in positions : \A j \in positions : ~ (<<j, i>> \in OpToRel(<, Nat))
  BY <1>2
<1>4. \A j \in positions : ~ (j < i)
  BY <1>1, <1>3 DEF OpToRel
<1>5. \A j \in positions : i <= j
  BY <1>1, <1>4
<1> QED BY <1>5 DEF Min

\* One more failure to record, of a source not seen before.
LEMMA QueueGrows ==
  ASSUME NEW u, NEW seen, Queue(u, seen), NEW s, s \notin seen
  PROVE  /\ Queue(Append(u, s), seen \cup {s})
         /\ Elements(Append(u, s)) = Elements(u) \cup {s}
         /\ s \notin Elements(u)
<1>1. PICK S : u \in Seq(S)
  BY DEF Queue, IsList
<1>2. PICK v : v = Append(u, s)
  OBVIOUS
<1>3. /\ v \in Seq(S \cup {s}) /\ Len(u) \in Nat /\ Len(v) = Len(u) + 1
      /\ \A i \in 1 .. Len(u) : v[i] = u[i]
      /\ v[Len(u) + 1] = s
  BY <1>1, <1>2
<1>4. \A i \in 1 .. Len(v) : i \in 1 .. Len(u) \/ i = Len(u) + 1
  BY <1>3
<1>5. Elements(v) = Elements(u) \cup {s}
  <2>1. ASSUME NEW x \in Elements(v) PROVE x \in Elements(u) \cup {s}
    BY <1>3, <1>4, <2>1 DEF Elements
  <2>2. s \in Elements(v)
    BY <1>3 DEF Elements
  <2>3. ASSUME NEW x \in Elements(u) PROVE x \in Elements(v)
    <3>1. PICK i \in 1 .. Len(u) : u[i] = x
      BY DEF Elements
    <3>2. i \in 1 .. Len(v) /\ v[i] = x
      BY <1>3, <3>1
    <3> QED BY <3>2 DEF Elements
  <2> QED BY <2>1, <2>2, <2>3
<1>6. s \notin Elements(u)
  BY DEF Queue
<1>7. \A i, j \in 1 .. Len(v) : v[i] = v[j] => i = j
  <2>1. \A i \in 1 .. Len(u) : u[i] # s
    BY <1>6 DEF Elements
  <2> QED BY <1>3, <1>4, <2>1 DEF Queue
<1> QED BY <1>2, <1>3, <1>5, <1>6, <1>7 DEF Queue, IsList

\* The first failure to record, and what remains after it.
LEMMA QueueAdvances ==
  ASSUME NEW u, NEW seen, Queue(u, seen), u # <<>>
  PROVE  /\ Queue(Tail(u), seen)
         /\ Elements(Tail(u)) \subseteq Elements(u) \ {Head(u)}
         /\ Head(u) \in Elements(u)
<1>1. PICK S : u \in Seq(S)
  BY DEF Queue, IsList
<1>2. PICK v : v = Tail(u)
  OBVIOUS
<1>3. /\ v \in Seq(S) /\ Len(u) \in Nat \ {0} /\ Len(v) = Len(u) - 1
      /\ \A i \in 1 .. Len(v) : v[i] = u[i + 1]
      /\ Head(u) = u[1]
  BY <1>1, <1>2
<1>4. Head(u) \in Elements(u)
  BY <1>3 DEF Elements
<1>5. ASSUME NEW i \in 1 .. Len(v) PROVE v[i] \in Elements(u) /\ v[i] # u[1]
  <2>1. i + 1 \in 1 .. Len(u) /\ i + 1 # 1 /\ 1 \in 1 .. Len(u)
    BY <1>3
  <2>2. v[i] = u[i + 1]
    BY <1>3
  <2> QED BY <2>1, <2>2 DEF Elements, Queue
<1>6. Elements(v) \subseteq Elements(u) \ {Head(u)}
  BY <1>3, <1>5 DEF Elements
<1>7. \A i, j \in 1 .. Len(v) : v[i] = v[j] => i = j
  <2> SUFFICES ASSUME NEW i \in 1 .. Len(v), NEW j \in 1 .. Len(v), v[i] = v[j] PROVE i = j
    OBVIOUS
  <2>1. i + 1 \in 1 .. Len(u) /\ j + 1 \in 1 .. Len(u)
    BY <1>3
  <2>2. u[i + 1] = u[j + 1]
    BY <1>3
  <2>3. i + 1 = j + 1
    BY <2>1, <2>2 DEF Queue
  <2> QED BY <2>3
<1> QED BY <1>2, <1>3, <1>4, <1>6, <1>7 DEF Queue, IsList

\* Nothing to record.
LEMMA EmptyQueue == Elements(<<>>) = {} /\ \A seen : Queue(<<>>, seen)
<1>1. IsList(<<>>)
  <2>1. <<>> \in Seq({})
    OBVIOUS
  <2> QED BY <2>1 DEF IsList
<1>2. Elements(<<>>) = {}
  BY DEF Elements
<1> QED BY <1>1, <1>2 DEF Queue

\* A failure that will not be recorded any more is forgotten.
LEMMA BalanceForgets ==
  ASSUME NEW Q, NEW P, NEW rec, NEW det, Balanced(Q, rec, det), P \subseteq Q
  PROVE  Balanced(P, rec, det)
<1>1. /\ IsFiniteSet(P) /\ Cardinality(P) \in Nat /\ Cardinality(Q) \in Nat
      /\ Cardinality(P) <= Cardinality(Q)
  BY FS_Subset, FS_CardinalityType DEF Balanced
<1> QED BY <1>1, ThresholdAssumption DEF Balanced

\* A failure is met: it is counted and has yet to be recorded.
LEMMA BalanceMeets ==
  ASSUME NEW Q, NEW c, NEW rec, NEW det, Balanced(Q, rec, det), c \notin Q
  PROVE  Balanced(Q \cup {c}, rec, Sup!CountOne(det))
<1>1. /\ IsFiniteSet(Q \cup {c}) /\ Cardinality(Q) \in Nat
      /\ Cardinality(Q \cup {c}) = Cardinality(Q) + 1
  BY FS_AddElement, FS_CardinalityType DEF Balanced
<1> QED BY <1>1, ThresholdAssumption DEF Balanced, Sup!CountOne

\* A failure is recorded: it is not to be recorded again.
LEMMA BalanceRecords ==
  ASSUME NEW Q, NEW P, NEW c, NEW rec, NEW det, Balanced(Q, rec, det),
         c \in Q, P \subseteq Q \ {c}
  PROVE  Balanced(P, Sup!CountOne(rec), det)
<1>1. /\ IsFiniteSet(Q \ {c}) /\ Cardinality(Q \ {c}) \in Nat /\ Cardinality(Q) \in Nat
      /\ Cardinality(Q \ {c}) = Cardinality(Q) - 1
  BY FS_RemoveElement, FS_CardinalityType DEF Balanced
<1>2. Balanced(Q \ {c}, Sup!CountOne(rec), det)
  BY <1>1, ThresholdAssumption DEF Balanced, Sup!CountOne
<1> QED BY <1>2, BalanceForgets

\* A step of one cycle: it meets no failure and records none, meets one, or
\* records one.
LEMMA PendingStep ==
  ASSUME PendingInv, NEW c \in Cycles,
         \A d \in Cycles \ {c} : cycle'[d] = cycle[d],
         tx' = [d \in Cycles |-> tx'[d]], \A d \in Cycles \ {c} : tx'[d] = tx[d],
         blocked' = [d \in Cycles |-> blocked'[d]],
         \A d \in Cycles : blocked'[d] \subseteq SuppressedSources',
         \A d \in Cycles \ {c} : blocked'[d] \subseteq blocked[d],
         recorded' = [s \in Sources |-> recorded'[s]],
         deterministic' = [s \in Sources |-> deterministic'[s]],
         NEW q, q = cycle[c], NEW p, p = cycle'[c], Pending(p, tx'[c], blocked'[c]),
         \/ /\ recorded' = recorded /\ deterministic' = deterministic
            /\ Elements(p.unrecorded) \subseteq Elements(q.unrecorded)
         \/ \E x : /\ recorded' = recorded /\ x \notin Elements(q.unrecorded)
                   /\ Elements(p.unrecorded) = Elements(q.unrecorded) \cup {x}
                   /\ \A s \in Sources : deterministic'[s] =
                        IF s = x THEN Sup!CountOne(deterministic[s]) ELSE deterministic[s]
         \/ \E x : /\ deterministic' = deterministic /\ x \in Elements(q.unrecorded)
                   /\ Elements(p.unrecorded) \subseteq Elements(q.unrecorded) \ {x}
                   /\ \A s \in Sources : recorded'[s] =
                        IF s = x THEN Sup!CountOne(recorded[s]) ELSE recorded[s]
  PROVE  PendingInv'
<1>1. \A d \in Cycles : Pending(cycle'[d], tx'[d], blocked'[d])
  BY DEF PendingInv, Pending
<1>2. ASSUME NEW s \in Sources PROVE Balanced(Queued(s)', recorded'[s], deterministic'[s])
  <2>1. /\ s \in Elements(p.unrecorded) => Queued(s)' = Queued(s) \cup {c}
        /\ s \notin Elements(p.unrecorded) => Queued(s)' = Queued(s) \ {c}
        /\ c \in Queued(s) <=> s \in Elements(q.unrecorded)
    BY DEF Queued
  <2>2. Balanced(Queued(s), recorded[s], deterministic[s])
    BY DEF PendingInv
  <2>3. CASE /\ s \in Elements(p.unrecorded) => s \in Elements(q.unrecorded)
             /\ recorded'[s] = recorded[s] /\ deterministic'[s] = deterministic[s]
    <3>1. Queued(s)' \subseteq Queued(s)
      BY <2>1, <2>3
    <3> QED BY <2>2, <2>3, <3>1, BalanceForgets
  <2>4. CASE /\ s \in Elements(p.unrecorded) /\ s \notin Elements(q.unrecorded)
             /\ recorded'[s] = recorded[s]
             /\ deterministic'[s] = Sup!CountOne(deterministic[s])
    BY <2>1, <2>2, <2>4, BalanceMeets
  <2>5. CASE /\ s \notin Elements(p.unrecorded) /\ s \in Elements(q.unrecorded)
             /\ recorded'[s] = Sup!CountOne(recorded[s])
             /\ deterministic'[s] = deterministic[s]
    BY <2>1, <2>2, <2>5, BalanceRecords
  <2> QED BY <2>3, <2>4, <2>5
<1> QED BY <1>1, <1>2 DEF PendingInv

\* A step of one cycle that leaves the store and the counters alone.
LEMMA BesideStore ==
  ASSUME PendingInv, NEW c \in Cycles,
         \A d \in Cycles \ {c} : cycle'[d] = cycle[d],
         UNCHANGED <<supVars, deterministic, blocked>>,
         NEW q, q = cycle[c], NEW p, p = cycle'[c], Pending(p, tx[c], blocked[c]),
         Elements(p.unrecorded) \subseteq Elements(q.unrecorded)
  PROVE  PendingInv'
<1>1. SuppressedSources' = SuppressedSources
  BY DEF supVars, SuppressedSources
<1>2. UNCHANGED <<tx, recorded>>
  BY DEF supVars
<1>3. /\ tx = [d \in Cycles |-> tx[d]] /\ blocked = [d \in Cycles |-> blocked[d]]
      /\ recorded = [s \in Sources |-> recorded[s]]
      /\ deterministic = [s \in Sources |-> deterministic[s]]
      /\ \A d \in Cycles : blocked[d] \subseteq SuppressedSources
  BY DEF PendingInv
<1>4. PICK t, b : t = tx[c] /\ b = blocked[c]
  OBVIOUS
<1>5. Pending(p, tx'[c], blocked'[c])
  BY <1>2
<1> QED BY <1>1, <1>2, <1>3, <1>5, PendingStep

\* What is suppressed is listed, and what is not comes before the cycle.
LEMMA ListKeepsPending ==
  ASSUME RefreshInv, PendingInv, NEW c \in Cycles, ListSuppressed(c)
  PROVE  PendingInv'
<1>1. PICK q : q = cycle[c]
  OBVIOUS
<1>2. PICK p : p = cycle'[c]
  OBVIOUS
<1>3. cycle = [d \in Cycles |-> cycle[d]] /\ DOMAIN q = DOMAIN Idle
  BY <1>1 DEF RefreshInv, Sound, Formed
<1>4. Pending(q, tx[c], blocked[c]) /\ q.pc = "list" /\ blocked[c] \subseteq SuppressedSources
  BY <1>1 DEF PendingInv, ListSuppressed
<1>5. PICK todo : todo = {i \in DOMAIN SourceList : SourceList[i] \notin SuppressedSources}
  OBVIOUS
<1>6. cycle' = [cycle EXCEPT ![c].pc = "rates", ![c].todo = todo]
  BY <1>5 DEF ListSuppressed
<1>7. /\ \A d \in Cycles \ {c} : cycle'[d] = cycle[d]
      /\ p.todo = todo /\ p.seen = q.seen /\ p.unrecorded = q.unrecorded
  BY <1>1, <1>2, <1>3, <1>6 DEF Idle
<1>8. todo \subseteq 1 .. Len(SourceList) /\ \A i \in todo : SourceList[i] \notin blocked[c]
  <2>1. DOMAIN SourceList = 1 .. Len(SourceList)
    BY SourceListAssumption
  <2> QED BY <1>4, <1>5, <2>1
<1>9. Pending(p, tx[c], blocked[c])
  BY <1>4, <1>7, <1>8 DEF Pending
<1>10. UNCHANGED <<supVars, deterministic, blocked>>
  BY DEF ListSuppressed, history
<1> QED BY <1>1, <1>2, <1>7, <1>9, <1>10, BesideStore

\* A cycle goes on beside the store, and takes nothing new before it.
LEMMA GoesOnBesideStore ==
  ASSUME RefreshInv, PendingInv, NEW c \in Cycles,
         UNCHANGED <<supVars, deterministic, blocked>>,
         NEW p, cycle' = [cycle EXCEPT ![c] = p], tx[c] = None,
         p.todo \subseteq cycle[c].todo,
         \/ p.unrecorded = cycle[c].unrecorded /\ cycle[c].seen \subseteq p.seen
         \/ p.unrecorded = <<>>
  PROVE  PendingInv'
<1>1. /\ \A d \in Cycles \ {c} : cycle'[d] = cycle[d]
      /\ cycle'[c] = p
  BY DEF RefreshInv
<1>2. Pending(cycle[c], tx[c], blocked[c])
  BY DEF PendingInv
<1>3. Elements(p.unrecorded) \subseteq Elements(cycle[c].unrecorded) /\ Queue(p.unrecorded, p.seen)
  BY <1>2, EmptyQueue DEF Pending, Queue
<1>4. Pending(p, tx[c], blocked[c])
  BY <1>2, <1>3 DEF Pending
<1> QED BY <1>1, <1>3, <1>4, BesideStore

\* What a cycle does beside the store.
LEMMA WorkKeepsPending ==
  ASSUME RefreshInv, PendingInv, NEW c \in Cycles,
         \/ PrepareFails(c) \/ SkipDuplicate(c) \/ Observe(c) \/ Persist(c) \/ PersistFails(c)
         \/ ListAnchors(c) \/ ListAnchorsFails(c) \/ UpsertScore(c) \/ UpsertFails(c)
         \/ \E a \in Anchors : ReadEvidence(c, a) \/ ReadEvidenceFails(c, a)
  PROVE  PendingInv'
<1>1. PICK q : q = cycle[c]
  OBVIOUS
<1>2. /\ cycle = [d \in Cycles |-> cycle[d]] /\ DOMAIN q = DOMAIN Idle
      /\ Pending(q, tx[c], blocked[c])
  BY <1>1 DEF RefreshInv, Sound, Formed, PendingInv
<1>3. UNCHANGED <<supVars, deterministic, blocked>>
  BY DEF PrepareFails, SkipDuplicate, Observe, Persist, PersistFails, ListAnchors,
         ListAnchorsFails, UpsertScore, UpsertFails, ReadEvidence, ReadEvidenceFails, history
<1>4. tx[c] = None
  <2>1. q.pc # "rates" \/ q.todo # {} \/ q.unrecorded = <<>>
    BY <1>1 DEF PrepareFails, SkipDuplicate, Observe, Persist, PersistFails, ListAnchors,
         ListAnchorsFails, UpsertScore, UpsertFails, ReadEvidence, ReadEvidenceFails,
         AtCandidate, RatesDone
  <2> QED BY <1>2, <2>1 DEF Pending
<1>5. ASSUME NEW p, cycle' = [cycle EXCEPT ![c] = p], p.todo \subseteq q.todo,
             \/ p.unrecorded = q.unrecorded /\ q.seen \subseteq p.seen
             \/ p.unrecorded = <<>>
      PROVE  PendingInv'
  BY <1>1, <1>3, <1>4, <1>5, GoesOnBesideStore
<1>6. CASE PrepareFails(c)
  <2>1. PICK p : p = PreparationFailure(q)
    OBVIOUS
  <2>2. cycle' = [cycle EXCEPT ![c] = p]
    BY <1>1, <1>6, <2>1 DEF PrepareFails
  <2>3. p.todo = {} /\ p.unrecorded = <<>>
    BY <1>2, <2>1 DEF PreparationFailure, Idle
  <2> QED BY <1>5, <2>2, <2>3
<1>7. CASE SkipDuplicate(c)
  <2>1. PICK todo : todo = q.todo \ {Min(q.todo)}
    OBVIOUS
  <2>2. PICK p : p = [q EXCEPT !.todo = todo]
    OBVIOUS
  <2>3. cycle' = [cycle EXCEPT ![c] = p]
    BY <1>1, <1>2, <1>7, <2>1, <2>2 DEF SkipDuplicate
  <2>4. p.todo = todo /\ p.unrecorded = q.unrecorded /\ p.seen = q.seen
    BY <1>2, <2>2 DEF Idle
  <2> QED BY <1>5, <2>1, <2>3, <2>4
<1>8. CASE Observe(c)
  <2>1. PICK q1 : q1 = Attempted(q)
    OBVIOUS
  <2>2. /\ DOMAIN q1 = DOMAIN Idle /\ q1.unrecorded = q.unrecorded
        /\ q1.todo \subseteq q.todo /\ q.seen \subseteq q1.seen
    BY <1>2, <2>1 DEF Attempted, Idle
  <2>3. PICK o : o = [source |-> Candidate(c), run |-> q.run, capturedAt |-> clock]
    OBVIOUS
  <2>4. PICK p : p = [q1 EXCEPT !.pc = "persist", !.observation = o]
    OBVIOUS
  <2>5. cycle' = [cycle EXCEPT ![c] = p]
    BY <1>1, <1>8, <2>1, <2>3, <2>4 DEF Observe
  <2>6. p.todo = q1.todo /\ p.unrecorded = q1.unrecorded /\ p.seen = q1.seen
    BY <2>2, <2>4 DEF Idle
  <2> QED BY <1>5, <2>2, <2>5, <2>6
<1>9. CASE Persist(c)
  <2>1. PICK persisted : persisted = q.persisted \cup {q.observation}
    OBVIOUS
  <2>2. PICK p : p = [q EXCEPT !.pc = "rates", !.observation = None, !.persisted = persisted]
    OBVIOUS
  <2>3. cycle' = [cycle EXCEPT ![c] = p]
    BY <1>1, <1>2, <1>9, <2>1, <2>2 DEF Persist
  <2>4. p.todo = q.todo /\ p.unrecorded = q.unrecorded /\ p.seen = q.seen
    BY <1>2, <2>2 DEF Idle
  <2> QED BY <1>5, <2>3, <2>4
<1>10. CASE PersistFails(c)
  <2>1. PICK q1 : q1 = Failed(q, q.observation.source, "PERSISTENCE", FALSE)
    OBVIOUS
  <2>2. /\ DOMAIN q1 = DOMAIN Idle /\ q1.unrecorded = q.unrecorded
        /\ q1.todo = q.todo /\ q1.seen = q.seen
    BY <1>2, <2>1 DEF Failed, Idle
  <2>3. PICK p : p = [q1 EXCEPT !.pc = "rates", !.observation = None]
    OBVIOUS
  <2>4. cycle' = [cycle EXCEPT ![c] = p]
    BY <1>1, <1>10, <2>1, <2>3 DEF PersistFails
  <2>5. p.todo = q.todo /\ p.unrecorded = q.unrecorded /\ p.seen = q.seen
    BY <2>2, <2>3 DEF Idle
  <2> QED BY <1>5, <2>4, <2>5
<1>11. CASE ListAnchorsFails(c)
  BY <1>5, <1>11 DEF ListAnchorsFails, Idle
<1>12. CASE ListAnchors(c)
  <2>1. PICK p : p = [q EXCEPT !.pc = "evaluate", !.anchors = Anchors]
    OBVIOUS
  <2>2. cycle' = [cycle EXCEPT ![c] = p]
    BY <1>1, <1>2, <1>12, <2>1 DEF ListAnchors
  <2>3. p.todo = q.todo /\ p.unrecorded = q.unrecorded /\ p.seen = q.seen
    BY <1>2, <2>1 DEF Idle
  <2> QED BY <1>5, <2>2, <2>3
<1>13. CASE \E a \in Anchors : ReadEvidence(c, a) \/ ReadEvidenceFails(c, a)
  <2>1. PICK a \in Anchors : ReadEvidence(c, a) \/ ReadEvidenceFails(c, a)
    BY <1>13
  <2>2. CASE ReadEvidence(c, a)
    <3>1. PICK fresh : cycle' = [cycle EXCEPT ![c].anchors = @ \ {a}, ![c].reading = [anchor |-> a, fresh |-> fresh]]
      BY <2>2 DEF ReadEvidence
    <3>2. PICK reading : reading = [anchor |-> a, fresh |-> fresh]
      OBVIOUS
    <3>3. PICK p : p = [q EXCEPT !.anchors = @ \ {a}, !.reading = reading]
      OBVIOUS
    <3>4. cycle' = [cycle EXCEPT ![c] = p]
      BY <1>1, <1>2, <3>1, <3>2, <3>3
    <3>5. p.todo = q.todo /\ p.unrecorded = q.unrecorded /\ p.seen = q.seen
      BY <1>2, <3>3 DEF Idle
    <3> QED BY <1>5, <3>4, <3>5
  <2>3. CASE ReadEvidenceFails(c, a)
    <3>1. PICK p : p = [q EXCEPT !.anchors = @ \ {a}, !.evaluated = FALSE]
      OBVIOUS
    <3>2. cycle' = [cycle EXCEPT ![c] = p]
      BY <1>1, <1>2, <2>3, <3>1 DEF ReadEvidenceFails
    <3>3. p.todo = q.todo /\ p.unrecorded = q.unrecorded /\ p.seen = q.seen
      BY <1>2, <3>1 DEF Idle
    <3> QED BY <1>5, <3>2, <3>3
  <2> QED BY <2>1, <2>2, <2>3
<1>14. CASE UpsertScore(c)
  <2>1. PICK p : p = [q EXCEPT !.reading = None]
    OBVIOUS
  <2>2. cycle' = [cycle EXCEPT ![c] = p]
    BY <1>1, <1>2, <1>14, <2>1 DEF UpsertScore
  <2>3. p.todo = q.todo /\ p.unrecorded = q.unrecorded /\ p.seen = q.seen
    BY <1>2, <2>1 DEF Idle
  <2> QED BY <1>5, <2>2, <2>3
<1>15. CASE UpsertFails(c)
  <2>1. PICK p : p = [q EXCEPT !.reading = None, !.evaluated = FALSE]
    OBVIOUS
  <2>2. cycle' = [cycle EXCEPT ![c] = p]
    BY <1>1, <1>2, <1>15, <2>1 DEF UpsertFails
  <2>3. p.todo = q.todo /\ p.unrecorded = q.unrecorded /\ p.seen = q.seen
    BY <1>2, <2>1 DEF Idle
  <2> QED BY <1>5, <2>2, <2>3
<1> QED BY <1>6, <1>7, <1>8, <1>9, <1>10, <1>11, <1>12, <1>13, <1>14, <1>15

\* A cycle is triggered: what is suppressed is withheld from it, and nothing is
\* before it yet.
LEMMA TriggerKeepsPending ==
  ASSUME RefreshInv, PendingInv, NEW c \in Cycles, Trigger(c)
  PROVE  PendingInv'
<1>1. PICK p : p = [Idle EXCEPT !.pc = "list", !.run = runs + 1, !.startedAt = clock]
  OBVIOUS
<1>2. p.todo = {} /\ p.unrecorded = <<>>
  BY <1>1 DEF Idle
<1>3. /\ \A d \in Cycles \ {c} : cycle'[d] = cycle[d]
      /\ cycle'[c] = p
  BY <1>1 DEF Trigger, RefreshInv
<1>4. UNCHANGED <<rows, tx, recorded, deterministic>> /\ SuppressedSources' = SuppressedSources
  BY DEF Trigger, history, supVars, SuppressedSources
<1>5. /\ tx = [d \in Cycles |-> tx[d]] /\ blocked = [d \in Cycles |-> blocked[d]]
      /\ recorded = [s \in Sources |-> recorded[s]]
      /\ deterministic = [s \in Sources |-> deterministic[s]]
      /\ \A d \in Cycles : blocked[d] \subseteq SuppressedSources
      /\ Pending(cycle[c], tx[c], blocked[c])
  BY DEF PendingInv
<1>6. tx[c] = None
  BY <1>5 DEF Trigger, Running, Reported, Pending
<1>7. blocked' = [blocked EXCEPT ![c] = SuppressedSources]
  BY DEF Trigger
<1>8. /\ blocked' = [d \in Cycles |-> blocked'[d]]
      /\ \A d \in Cycles : blocked'[d] \subseteq SuppressedSources'
      /\ \A d \in Cycles \ {c} : blocked'[d] = blocked[d]
  BY <1>4, <1>5, <1>7
<1>9. Pending(p, tx'[c], blocked'[c])
  BY <1>2, <1>4, <1>6, EmptyQueue DEF Pending
<1>10. Elements(p.unrecorded) \subseteq Elements(cycle[c].unrecorded)
  BY <1>2, EmptyQueue
<1> QED BY <1>3, <1>4, <1>5, <1>8, <1>9, <1>10, PendingStep

\* An attempt fails: a permanent failure is met and has yet to be recorded.
LEMMA AttemptKeepsPending ==
  ASSUME RefreshInv, PendingInv, NEW c \in Cycles, AttemptFails(c)
  PROVE  PendingInv'
<1>1. PICK q : q = cycle[c]
  OBVIOUS
<1>2. /\ cycle = [d \in Cycles |-> cycle[d]] /\ DOMAIN q = DOMAIN Idle
      /\ Pending(q, tx[c], blocked[c])
      /\ tx = [d \in Cycles |-> tx[d]] /\ blocked = [d \in Cycles |-> blocked[d]]
      /\ recorded = [s \in Sources |-> recorded[s]]
      /\ deterministic = [s \in Sources |-> deterministic[s]]
      /\ \A d \in Cycles : blocked[d] \subseteq SuppressedSources
  BY <1>1 DEF RefreshInv, Sound, Formed, PendingInv
<1>3. PICK s : s = SourceList[Min(q.todo)]
  OBVIOUS
<1>4. s \notin q.seen /\ tx[c] = None /\ UNCHANGED <<supVars, blocked>>
  BY <1>1, <1>2, <1>3 DEF AttemptFails, AtCandidate, Candidate, Pending
<1>5. PICK phase \in {"QUOTE", "NORMALIZATION"}, permanent \in BOOLEAN :
        /\ cycle' = [cycle EXCEPT ![c] = Failed(Attempted(@), Candidate(c), phase, permanent)]
        /\ IF permanent
           THEN /\ deterministic' =
                     [deterministic EXCEPT ![Candidate(c)] = Sup!CountOne(@)]
                /\ streak' = [streak EXCEPT ![Candidate(c)] = Sup!CountOne(@)]
           ELSE UNCHANGED history
  BY DEF AttemptFails
<1>6. PICK p : p = Failed(Attempted(q), s, phase, permanent)
  OBVIOUS
<1>7. cycle' = [cycle EXCEPT ![c] = p]
  BY <1>1, <1>3, <1>5, <1>6 DEF Candidate
<1>8. /\ p.seen = q.seen \cup {s} /\ p.todo \subseteq q.todo
      /\ permanent => p.unrecorded = Append(q.unrecorded, s)
      /\ ~permanent => p.unrecorded = q.unrecorded
  <2>1. PICK q1 : q1 = Attempted(q)
    OBVIOUS
  <2>2. /\ DOMAIN q1 = DOMAIN Idle /\ q1.seen = q.seen \cup {s} /\ q1.todo \subseteq q.todo
        /\ q1.unrecorded = q.unrecorded
    BY <1>2, <1>3, <2>1 DEF Attempted, Idle
  <2>3. /\ p.seen = q1.seen /\ p.todo = q1.todo
        /\ p.unrecorded = IF permanent THEN Append(q1.unrecorded, s) ELSE q1.unrecorded
    BY <1>6, <2>1, <2>2 DEF Failed, Idle
  <2> QED BY <2>2, <2>3
<1>9. CASE ~permanent
  <2>1. deterministic' = deterministic
    BY <1>5, <1>9 DEF history
  <2> QED BY <1>1, <1>4, <1>7, <1>8, <1>9, <2>1, GoesOnBesideStore
<1>10. CASE permanent
  <2>1. /\ Queue(p.unrecorded, p.seen)
        /\ Elements(p.unrecorded) = Elements(q.unrecorded) \cup {s}
        /\ s \notin Elements(q.unrecorded)
    <3>1. Queue(q.unrecorded, q.seen)
      BY <1>2 DEF Pending
    <3>2. /\ Queue(Append(q.unrecorded, s), q.seen \cup {s})
          /\ Elements(Append(q.unrecorded, s)) = Elements(q.unrecorded) \cup {s}
          /\ s \notin Elements(q.unrecorded)
      BY <1>4, <3>1, QueueGrows
    <3> QED BY <1>8, <1>10, <3>2
  <2>2. deterministic' = [deterministic EXCEPT ![s] = Sup!CountOne(@)]
    BY <1>1, <1>3, <1>5, <1>10 DEF Candidate
  <2>3. /\ deterministic' = [t \in Sources |-> deterministic'[t]]
        /\ \A t \in Sources : deterministic'[t] =
             IF t = s THEN Sup!CountOne(deterministic[t]) ELSE deterministic[t]
    BY <1>2, <2>2
  <2>4. UNCHANGED <<tx, recorded>> /\ SuppressedSources' = SuppressedSources
    BY <1>4 DEF supVars, SuppressedSources
  <2>5. Pending(p, tx'[c], blocked'[c])
    BY <1>2, <1>4, <1>8, <2>1, <2>4 DEF Pending
  <2>6. (\A d \in Cycles \ {c} : cycle'[d] = cycle[d]) /\ cycle'[c] = p
    BY <1>2, <1>7
  <2> QED BY <1>1, <1>2, <1>4, <2>1, <2>3, <2>4, <2>5, <2>6, PendingStep
<1> QED BY <1>5, <1>9, <1>10

\* The recordings, one transaction of the store after the other.
LEMMA RecordKeepsPending ==
  ASSUME RefreshInv, PendingInv, NEW c \in Cycles,
         RecordBegin(c) \/ RecordCommit(c) \/ RecordFails(c)
  PROVE  PendingInv'
<1>1. PICK q : q = cycle[c]
  OBVIOUS
<1>2. /\ cycle = [d \in Cycles |-> cycle[d]] /\ DOMAIN q = DOMAIN Idle
      /\ Pending(q, tx[c], blocked[c])
      /\ tx = [d \in Cycles |-> tx[d]] /\ blocked = [d \in Cycles |-> blocked[d]]
      /\ recorded = [s \in Sources |-> recorded[s]]
      /\ deterministic = [s \in Sources |-> deterministic[s]]
      /\ \A d \in Cycles : blocked[d] \subseteq SuppressedSources
  BY <1>1 DEF RefreshInv, Sound, Formed, PendingInv
<1>3. /\ q.pc = "rates" /\ q.todo = {} /\ q.unrecorded # <<>> /\ deterministic' = deterministic
  BY <1>1 DEF RecordBegin, RecordCommit, RecordFails, Recording, history
<1>4. CASE RecordBegin(c)
  <2>1. PICK s : /\ s = Head(q.unrecorded)
                 /\ tx' = [tx EXCEPT ![c] = [source |-> s, base |-> rows[s]]]
    BY <1>1, <1>4 DEF RecordBegin, Sup!RecordRead
  <2>2. UNCHANGED <<cycle, blocked, rows, recorded>>
    BY <1>4 DEF RecordBegin, Sup!RecordRead
  <2>3. /\ tx' = [d \in Cycles |-> tx'[d]] /\ \A d \in Cycles \ {c} : tx'[d] = tx[d]
        /\ tx'[c].source = Head(q.unrecorded)
    BY <1>2, <2>1
  <2>4. Pending(q, tx'[c], blocked'[c])
    BY <1>2, <1>3, <2>2, <2>3 DEF Pending
  <2>5. SuppressedSources' = SuppressedSources
    BY <2>2 DEF SuppressedSources
  <2> QED BY <1>1, <1>2, <1>3, <2>2, <2>3, <2>4, <2>5, PendingStep
<1>5. ASSUME Unblock
      PROVE  /\ blocked' = [d \in Cycles |-> blocked'[d]]
             /\ \A d \in Cycles : blocked'[d] \subseteq SuppressedSources'
             /\ \A d \in Cycles : blocked'[d] \subseteq blocked[d]
  BY <1>5 DEF Unblock
<1>6. ASSUME Sup!RecordWrite(c)
      PROVE  /\ tx' = [d \in Cycles |-> tx'[d]] /\ \A d \in Cycles \ {c} : tx'[d] = tx[d]
             /\ tx'[c] = None
             /\ recorded' = [s \in Sources |-> recorded'[s]]
             /\ \A s \in Sources : recorded'[s] =
                  IF s = Head(q.unrecorded) THEN Sup!CountOne(recorded[s]) ELSE recorded[s]
  <2>1. tx[c] # None /\ tx[c].source = Head(q.unrecorded)
    BY <1>2, <1>6 DEF Sup!RecordWrite, Pending
  <2>2. /\ recorded' = [recorded EXCEPT ![Head(q.unrecorded)] = Sup!CountOne(@)]
        /\ tx' = [tx EXCEPT ![c] = None]
    BY <1>6, <2>1 DEF Sup!RecordWrite
  <2> QED BY <1>2, <2>2
<1>7. /\ Queue(Tail(q.unrecorded), q.seen)
      /\ Elements(Tail(q.unrecorded)) \subseteq Elements(q.unrecorded) \ {Head(q.unrecorded)}
      /\ Head(q.unrecorded) \in Elements(q.unrecorded)
  BY <1>2, <1>3, QueueAdvances DEF Pending
<1>8. PICK u, x : u = Tail(q.unrecorded) /\ x = Head(q.unrecorded)
  OBVIOUS
<1>9. CASE RecordCommit(c)
  <2>1. PICK p : p = [q EXCEPT !.unrecorded = u]
    OBVIOUS
  <2>2. cycle' = [cycle EXCEPT ![c] = p]
    BY <1>1, <1>2, <1>8, <1>9, <2>1 DEF RecordCommit
  <2>3. p.unrecorded = u /\ p.seen = q.seen /\ p.todo = q.todo
    BY <1>2, <2>1 DEF Idle
  <2>4. Sup!RecordWrite(c) /\ Unblock
    BY <1>9 DEF RecordCommit
  <2>5. (\A d \in Cycles \ {c} : cycle'[d] = cycle[d]) /\ cycle'[c] = p
    BY <1>2, <2>2
  <2>6. Pending(p, tx'[c], blocked'[c])
    BY <1>2, <1>3, <1>5, <1>6, <1>7, <1>8, <2>3, <2>4 DEF Pending
  <2>7. \E y : /\ deterministic' = deterministic /\ y \in Elements(q.unrecorded)
               /\ Elements(p.unrecorded) \subseteq Elements(q.unrecorded) \ {y}
               /\ \A s \in Sources : recorded'[s] =
                    IF s = y THEN Sup!CountOne(recorded[s]) ELSE recorded[s]
    <3> WITNESS x
    <3> QED BY <1>3, <1>6, <1>7, <1>8, <2>3, <2>4
  <2>8. /\ tx' = [d \in Cycles |-> tx'[d]] /\ \A d \in Cycles \ {c} : tx'[d] = tx[d]
        /\ recorded' = [s \in Sources |-> recorded'[s]]
        /\ blocked' = [d \in Cycles |-> blocked'[d]]
        /\ \A d \in Cycles : blocked'[d] \subseteq SuppressedSources'
        /\ \A d \in Cycles \ {c} : blocked'[d] \subseteq blocked[d]
        /\ deterministic' = [s \in Sources |-> deterministic'[s]]
    BY <1>2, <1>3, <1>5, <1>6, <2>4
  <2> QED BY <1>1, <2>5, <2>6, <2>7, <2>8, PendingStep
<1>10. CASE RecordFails(c)
  <2>1. PICK p : p = PreparationFailure(q)
    OBVIOUS
  <2>2. cycle' = [cycle EXCEPT ![c] = p]
    BY <1>1, <1>10, <2>1 DEF RecordFails
  <2>3. p.unrecorded = <<>> /\ p.todo = {}
    BY <1>2, <2>1 DEF PreparationFailure, Idle
  <2>4. (\A d \in Cycles \ {c} : cycle'[d] = cycle[d]) /\ cycle'[c] = p
    BY <1>2, <2>2
  <2>5. Unblock
    BY <1>10 DEF RecordFails
  <2>6. Elements(p.unrecorded) = {} /\ Queue(p.unrecorded, p.seen)
    BY <2>3, EmptyQueue
  <2>7. ASSUME tx'[c] = None PROVE Pending(p, tx'[c], blocked'[c])
    BY <2>3, <2>6, <2>7 DEF Pending
  <2>8. CASE \/ tx[c] = None /\ UNCHANGED supVars
             \/ Sup!RecordAbort(c)
    <3>1. /\ tx' = [d \in Cycles |-> tx'[d]] /\ \A d \in Cycles \ {c} : tx'[d] = tx[d]
          /\ tx'[c] = None /\ recorded' = recorded
      BY <1>2, <2>8 DEF supVars, Sup!RecordAbort
    <3> QED BY <1>1, <1>2, <1>3, <1>5, <2>4, <2>5, <2>6, <2>7, <3>1, PendingStep
  <2>9. CASE Sup!RecordWrite(c)
    <3>1. \E y : /\ deterministic' = deterministic /\ y \in Elements(q.unrecorded)
                 /\ Elements(p.unrecorded) \subseteq Elements(q.unrecorded) \ {y}
                 /\ \A s \in Sources : recorded'[s] =
                      IF s = y THEN Sup!CountOne(recorded[s]) ELSE recorded[s]
      <4> WITNESS x
      <4> QED BY <1>3, <1>6, <1>7, <1>8, <2>6, <2>9
    <3>2. /\ tx' = [d \in Cycles |-> tx'[d]] /\ \A d \in Cycles \ {c} : tx'[d] = tx[d]
          /\ recorded' = [s \in Sources |-> recorded'[s]]
          /\ blocked' = [d \in Cycles |-> blocked'[d]]
          /\ \A d \in Cycles : blocked'[d] \subseteq SuppressedSources'
          /\ \A d \in Cycles \ {c} : blocked'[d] \subseteq blocked[d]
          /\ deterministic' = [s \in Sources |-> deterministic'[s]]
          /\ Pending(p, tx'[c], blocked'[c])
      BY <1>2, <1>3, <1>5, <1>6, <2>5, <2>7, <2>9
    <3> QED BY <1>1, <2>4, <3>1, <3>2, PendingStep
  <2> QED BY <1>10, <2>8, <2>9 DEF RecordFails
<1> QED BY <1>4, <1>9, <1>10

\* The process dies, with its transaction and what it had yet to record.
LEMMA CrashKeepsPending ==
  ASSUME RefreshInv, PendingInv, NEW c \in Cycles, Crash(c)
  PROVE  PendingInv'
<1>1. /\ \A d \in Cycles \ {c} : cycle'[d] = cycle[d]
      /\ cycle'[c] = Idle /\ UNCHANGED <<deterministic, blocked>>
  BY DEF Crash, RefreshInv, history
<1>2. /\ tx = [d \in Cycles |-> tx[d]] /\ blocked = [d \in Cycles |-> blocked[d]]
      /\ recorded = [s \in Sources |-> recorded[s]]
      /\ deterministic = [s \in Sources |-> deterministic[s]]
      /\ \A d \in Cycles : blocked[d] \subseteq SuppressedSources
  BY DEF PendingInv
<1>3. /\ tx' = [d \in Cycles |-> tx'[d]] /\ \A d \in Cycles \ {c} : tx'[d] = tx[d]
      /\ tx'[c] = None /\ UNCHANGED <<recorded, rows>>
  <2>1. CASE tx[c] = None
    BY <1>2, <2>1 DEF Crash, supVars
  <2>2. CASE tx[c] # None
    BY <1>2, <2>2 DEF Crash, Sup!RecordAbort
  <2> QED BY <2>1, <2>2
<1>4. SuppressedSources' = SuppressedSources
  BY <1>3 DEF SuppressedSources
<1>5. Idle.unrecorded = <<>> /\ Idle.todo = {}
  BY DEF Idle
<1>6. Pending(Idle, tx'[c], blocked'[c])
  BY <1>3, <1>5, EmptyQueue DEF Pending
<1>7. Elements(Idle.unrecorded) \subseteq Elements(cycle[c].unrecorded)
  BY <1>5, EmptyQueue
<1> QED BY <1>1, <1>2, <1>3, <1>4, <1>6, <1>7, PendingStep

\* An operator reactivates a source, which nothing withholds any more.
LEMMA ReactivationKeepsPending ==
  ASSUME PendingInv, Reactivation
  PROVE  PendingInv'
<1>1. /\ UNCHANGED <<cycle, deterministic>>
      /\ blocked' = [d \in Cycles |-> blocked[d] \cap SuppressedSources']
  BY DEF Reactivation, Unblock, history
<1>2. UNCHANGED <<tx, recorded>>
  BY DEF Reactivation, Sup!Reactivate, Sup!ReactivateRead, Sup!ReactivateWrite,
         Sup!ReactivateAbort
<1>3. \A d \in Cycles : Pending(cycle'[d], tx'[d], blocked'[d])
  BY <1>1, <1>2 DEF PendingInv, Pending
<1>4. \A s \in Sources : Balanced(Queued(s)', recorded'[s], deterministic'[s])
  BY <1>1, <1>2 DEF PendingInv, Queued
<1> QED BY <1>1, <1>2, <1>3, <1>4 DEF PendingInv

\* Nothing withheld comes before a cycle, and every recording has its failure.
THEOREM PendingInvariant == Spec => []PendingInv
<1>1. Init => PendingInv
  <2> SUFFICES ASSUME Init PROVE PendingInv
    OBVIOUS
  <2>1. Idle.unrecorded = <<>> /\ Idle.todo = {}
    BY DEF Idle
  <2>2. /\ \A c \in Cycles : cycle[c] = Idle /\ tx[c] = None /\ blocked[c] = {}
        /\ \A s \in Sources : recorded[s] = 0 /\ deterministic[s] = 0
        /\ tx = [c \in Cycles |-> tx[c]] /\ blocked = [c \in Cycles |-> blocked[c]]
        /\ recorded = [s \in Sources |-> recorded[s]]
        /\ deterministic = [s \in Sources |-> deterministic[s]]
    BY DEF Init, Sup!Init
  <2>3. \A c \in Cycles : Pending(cycle[c], tx[c], blocked[c])
    BY <2>1, <2>2, EmptyQueue DEF Pending
  <2>4. \A s \in Sources : Queued(s) = {}
    BY <2>1, <2>2, EmptyQueue DEF Queued
  <2>5. Balanced({}, 0, 0)
    BY FS_EmptySet, ThresholdAssumption DEF Balanced
  <2> QED BY <2>2, <2>3, <2>4, <2>5 DEF PendingInv
<1>2. RefreshInv /\ PendingInv /\ [Next]_vars => PendingInv'
  <2> SUFFICES ASSUME RefreshInv, PendingInv, [Next]_vars PROVE PendingInv'
    OBVIOUS
  <2>1. CASE UNCHANGED <<cycle, supVars, deterministic, blocked>>
    BY <2>1 DEF PendingInv, supVars, SuppressedSources, Queued
  <2>2. CASE Tick \/ UNCHANGED vars
    BY <2>1, <2>2 DEF Tick, vars, history
  <2>3. CASE \E c \in Cycles : Trigger(c) \/ Work(c) \/ Crash(c)
    BY <2>3, TriggerKeepsPending, CrashKeepsPending, ListKeepsPending, AttemptKeepsPending,
       RecordKeepsPending, WorkKeepsPending DEF Work
  <2> QED BY <2>2, <2>3, ReactivationKeepsPending DEF Next
<1> QED BY <1>1, <1>2, RefreshInvariant, PTL DEF Spec

\* Only deterministic failures that a cycle met are recorded
\* (lib/scheduled/refresh.ts): for any number of overlapping cycles, whatever
\* commits lose their answer and whichever processes die.
THEOREM OnlyDeterministicCounts == Spec => []TransientNeverCounts
<1>1. PendingInv => TransientNeverCounts
  <2> SUFFICES ASSUME PendingInv, NEW s \in Sources PROVE recorded[s] <= deterministic[s]
    BY DEF TransientNeverCounts
  <2>1. Balanced(Queued(s), recorded[s], deterministic[s])
    BY DEF PendingInv
  <2>2. Cardinality(Queued(s)) \in Nat
    BY <2>1, FS_CardinalityType DEF Balanced
  <2> QED BY <2>1, <2>2, ThresholdAssumption DEF Balanced
<1> QED BY <1>1, PendingInvariant, PTL

\* What has been suppressed since before a cycle was triggered is not captured
\* by it (lib/rates/snapshotRun.ts): for any sources, listed however often.
THEOREM SuppressedIsNotCaptured == Spec => SuppressedNotCaptured
<1> DEFINE Withheld == \A c \in Cycles : Observe(c) => Candidate(c) \notin blocked[c]
<1>1. PendingInv => Withheld
  <2> SUFFICES ASSUME PendingInv, NEW c \in Cycles, Observe(c)
               PROVE  Candidate(c) \notin blocked[c]
    OBVIOUS
  <2>1. Pending(cycle[c], tx[c], blocked[c]) /\ cycle[c].todo # {}
    BY DEF PendingInv, Observe, AtCandidate
  <2>2. Min(cycle[c].todo) \in cycle[c].todo
    BY <2>1, FirstPosition DEF Pending
  <2> QED BY <2>1, <2>2 DEF Pending, Candidate
<1>2. PendingInv /\ [Next]_vars => [Withheld]_vars
  BY <1>1
<1> HIDE DEF Withheld
<1>3. Spec => [][Withheld]_vars
  BY <1>2, PendingInvariant, PTL DEF Spec
<1> QED BY <1>3 DEF SuppressedNotCaptured, Withheld
===============================================================================
