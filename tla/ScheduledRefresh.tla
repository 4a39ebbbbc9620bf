--------------------------- MODULE ScheduledRefresh ---------------------------
(***************************************************************************)
(* The scheduled refresh (lib/scheduled/refresh.ts) with everything it     *)
(* calls: the reviewed rate run (lib/rates/snapshotRun.ts, rateEngine.ts,  *)
(* snapshot.ts), the suppression store (module Suppression) and the        *)
(* reputation run (lib/reputation/run.ts, engine.ts, repository.ts).       *)
(*                                                                         *)
(* A cycle is one authorised request of the cron route.  Nothing excludes  *)
(* a second one, so cycles overlap; each step below is what a cycle does   *)
(* between two awaits.  A step that talks to the database or to an anchor  *)
(* may fail, may commit and lose the answer, or may be the last step of a  *)
(* process that dies.                                                      *)
(*                                                                         *)
(* Simplifications: an observation is its source, its run and the clock    *)
(* when it was captured; what a quote says is not kept.  Anchors and       *)
(* corridors are registered.  A reputation score keeps when it was         *)
(* computed and which sources were fresh, which is what freshness and      *)
(* coverage are computed from.                                             *)
(***************************************************************************)
EXTENDS Naturals, Sequences, FiniteSetsExt

CONSTANTS
  Sources,          \* reviewed (anchor, corridor) identities
  SourceList,       \* REVIEWED_LIVE_RATE_SOURCES, in order
  Anchors,
  AnchorOf,         \* AnchorOf[s]: the anchor of source s
  Cycles,           \* server processes that may run a cycle at once
  Operators,        \* runs of the reactivation script
  Threshold,        \* PERMANENT_FAILURE_SUPPRESSION_THRESHOLD
  FreshFor,         \* RATE_FRESHNESS_THRESHOLD_MS, in ticks
  MaxReactivations, \* bound: reactivations started
  MaxRuns,          \* bound: cycles triggered
  MaxTime,          \* bound: clock ticks
  None

ASSUME SourceListAssumption == SourceList \in Seq(Sources)
ASSUME AnchorOfAssumption == AnchorOf \in [Sources -> Anchors]
ASSUME ThresholdAssumption == Threshold \in Nat \ {0}
ASSUME TimeAssumption == FreshFor \in Nat /\ MaxRuns \in Nat /\ MaxTime \in Nat

VARIABLES
  clock,         \* the wall clock the processes share
  runs,          \* cycles triggered so far
  cycle,         \* cycle[c]: the local state of the cycle c is running
  snapshots,     \* the rate_snapshots table
  scores,        \* scores[a]: the reputation_scores row of a, or None
  deterministic, \* history: deterministic failures met for s (saturating)
  streak,        \* history: those met since the last success of s (saturating)
  blocked,       \* history: blocked[c], the sources suppressed ever since the
                 \* cycle of c was triggered
  rows, tx, op, recorded, credited, reactivations  \* see Suppression

supVars == <<rows, tx, op, recorded, credited, reactivations>>
evidence == <<snapshots, scores>>
history == <<deterministic, streak>>
vars == <<clock, runs, cycle, evidence, history, blocked, supVars>>

Sup == INSTANCE Suppression WITH Recorders <- Cycles

Phases == {"QUOTE", "NORMALIZATION", "PERSISTENCE"}
Failure == [source : Sources, phase : Phases]
Snapshot == [source : Sources, run : 1 .. MaxRuns, capturedAt : 0 .. MaxTime]
Score == [run : 1 .. MaxRuns, computedAt : 0 .. MaxTime, fresh : SUBSET Sources]
Reading == [anchor : Anchors, fresh : SUBSET Sources]

ASSUME NoneAssumption == None \notin Score /\ None \notin Reading

\* todo: the positions in SourceList of the candidates still to come.
Idle == [pc |-> "idle", run |-> 0, startedAt |-> 0, todo |-> {}, seen |-> {},
         failures |-> <<>>, unrecorded |-> <<>>, persisted |-> {},
         observation |-> None, prepared |-> TRUE, anchors |-> {},
         reading |-> None, evaluated |-> TRUE]

\* The summary of the cycle is returned.
Reported(c) ==
  /\ cycle[c].pc = "evaluate"
  /\ cycle[c].anchors = {}
  /\ cycle[c].reading = None

Running(c) == cycle[c].pc # "idle" /\ ~Reported(c)

------------------------------------------------------------------------------
Init ==
  /\ clock = 0
  /\ runs = 0
  /\ cycle = [c \in Cycles |-> Idle]
  /\ snapshots = {}
  /\ scores = [a \in Anchors |-> None]
  /\ deterministic = [s \in Sources |-> 0]
  /\ streak = [s \in Sources |-> 0]
  /\ blocked = [c \in Cycles |-> {}]
  /\ Sup!Init

SuppressedSources == {s \in Sources : Sup!Suppressed(rows[s])}

\* Keeps the history of what is suppressed throughout a cycle.
Unblock == blocked' = [c \in Cycles |-> blocked[c] \cap SuppressedSources']

Tick ==
  /\ clock < MaxTime
  /\ clock' = clock + 1
  /\ UNCHANGED <<runs, cycle, evidence, history, blocked, supVars>>

\* runScheduledRefresh reads the clock once: startedAt is the time of the whole
\* cycle.
Trigger(c) ==
  /\ ~Running(c)
  /\ runs < MaxRuns
  /\ runs' = runs + 1
  /\ cycle' = [cycle EXCEPT ![c] = [Idle EXCEPT !.pc = "list", !.run = runs + 1,
                                                !.startedAt = clock]]
  /\ blocked' = [blocked EXCEPT ![c] = SuppressedSources]
  /\ UNCHANGED <<clock, evidence, history, supVars>>

\* The catch of runScheduledRefresh: the summary forgets the rate run, and the
\* reputation run goes ahead.
PreparationFailure(local) ==
  [local EXCEPT !.pc = "rates", !.prepared = FALSE, !.todo = {},
                !.failures = <<>>, !.unrecorded = <<>>, !.persisted = {}]

\* ListSuppressed as it must not be: the filter is lost.
ListAll(c) ==
  /\ cycle[c].pc = "list"
  /\ cycle' = [cycle EXCEPT ![c].pc = "rates", ![c].todo = DOMAIN SourceList]
  /\ UNCHANGED <<clock, runs, evidence, history, blocked, supVars>>

\* listSuppressed and the filter of the reviewed sources; then every remaining
\* source is discovered and its pair checked.
ListSuppressed(c) ==
  /\ cycle[c].pc = "list"
  /\ cycle' = [cycle EXCEPT ![c].pc = "rates",
                            ![c].todo = {i \in DOMAIN SourceList :
                                           SourceList[i] \notin SuppressedSources}]
  /\ UNCHANGED <<clock, runs, evidence, history, blocked, supVars>>

\* One throw, of the list or of any source, fails the whole preparation.
PrepareFails(c) ==
  /\ cycle[c].pc = "list"
  /\ cycle' = [cycle EXCEPT ![c] = PreparationFailure(@)]
  /\ UNCHANGED <<clock, runs, evidence, history, blocked, supVars>>

------------------------------------------------------------------------------
(* runRateEngine, one candidate after the other *)

Candidate(c) == SourceList[Min(cycle[c].todo)]

AtCandidate(c) == cycle[c].pc = "rates" /\ cycle[c].todo # {}

\* A candidate seen before in this run is skipped without a quote.
SkipDuplicate(c) ==
  /\ AtCandidate(c)
  /\ Candidate(c) \in cycle[c].seen
  /\ cycle' = [cycle EXCEPT ![c].todo = @ \ {Min(@)}]
  /\ UNCHANGED <<clock, runs, evidence, history, blocked, supVars>>

Attempted(local) ==
  [local EXCEPT !.seen = @ \cup {SourceList[Min(local.todo)]}, !.todo = @ \ {Min(@)}]

\* classifyPermanentScheduledFailure keeps the permanent ones for recording.
Failed(local, s, phase, permanent) ==
  [local EXCEPT
     !.failures = Append(@, [source |-> s, phase |-> phase]),
     !.unrecorded = IF permanent THEN Append(@, s) ELSE @]

\* The quote, or the normalization of what came back, fails.  Normalization
\* fails with one of the permanent codes or with NORMALIZATION_FAILURE.
AttemptFails(c) ==
  /\ AtCandidate(c)
  /\ Candidate(c) \notin cycle[c].seen
  /\ \E phase \in {"QUOTE", "NORMALIZATION"}, permanent \in BOOLEAN :
       /\ permanent => phase = "NORMALIZATION"
       /\ cycle' = [cycle EXCEPT
            ![c] = Failed(Attempted(@), Candidate(c), phase, permanent)]
       /\ IF permanent
          THEN /\ deterministic' =
                    [deterministic EXCEPT ![Candidate(c)] = Sup!CountOne(@)]
               /\ streak' = [streak EXCEPT ![Candidate(c)] = Sup!CountOne(@)]
          ELSE UNCHANGED history
  /\ UNCHANGED <<clock, runs, evidence, blocked, supVars>>

\* A good quote is normalized with the clock of this moment as capturedAt.
Observe(c) ==
  /\ AtCandidate(c)
  /\ Candidate(c) \notin cycle[c].seen
  /\ cycle' = [cycle EXCEPT ![c] =
       [Attempted(@) EXCEPT
          !.pc = "persist",
          !.observation = [source |-> Candidate(c), run |-> cycle[c].run,
                           capturedAt |-> clock]]]
  /\ UNCHANGED <<clock, runs, evidence, history, blocked, supVars>>

\* Persist as it must not be: a success resets the counter beside the store.
PersistAndReset(c) ==
  /\ cycle[c].pc = "persist"
  /\ snapshots' = snapshots \cup {cycle[c].observation}
  /\ streak' = [streak EXCEPT ![cycle[c].observation.source] = 0]
  /\ cycle' = [cycle EXCEPT ![c].pc = "rates", ![c].observation = None,
                            ![c].persisted = @ \cup {cycle[c].observation}]
  /\ rows' = [rows EXCEPT ![cycle[c].observation.source] = None]
  /\ UNCHANGED <<clock, runs, scores, deterministic, blocked>>
  /\ UNCHANGED <<tx, op, recorded, credited, reactivations>>

\* persistRateSnapshot inserts the row and reports it.
Persist(c) ==
  /\ cycle[c].pc = "persist"
  /\ snapshots' = snapshots \cup {cycle[c].observation}
  /\ streak' = [streak EXCEPT ![cycle[c].observation.source] = 0]
  /\ cycle' = [cycle EXCEPT ![c].pc = "rates", ![c].observation = None,
                            ![c].persisted = @ \cup {cycle[c].observation}]
  /\ UNCHANGED <<clock, runs, scores, deterministic, blocked, supVars>>

\* PersistFails as it must not be: the row counts before the insert is done.
PersistFailsCounted(c) ==
  /\ cycle[c].pc = "persist"
  /\ \/ UNCHANGED snapshots
     \/ snapshots' = snapshots \cup {cycle[c].observation}
  /\ cycle' = [cycle EXCEPT ![c].pc = "rates", ![c].observation = None,
                            ![c].persisted = @ \cup {cycle[c].observation}]
  /\ UNCHANGED <<clock, runs, scores, history, blocked, supVars>>

\* A lookup or the insert fails, or the insert commits and its answer is lost.
PersistFails(c) ==
  /\ cycle[c].pc = "persist"
  /\ \/ UNCHANGED snapshots
     \/ snapshots' = snapshots \cup {cycle[c].observation}
  /\ cycle' = [cycle EXCEPT ![c] =
       [Failed(@, cycle[c].observation.source, "PERSISTENCE", FALSE) EXCEPT
          !.pc = "rates", !.observation = None]]
  /\ UNCHANGED <<clock, runs, scores, history, blocked, supVars>>

------------------------------------------------------------------------------
(* recordDeterministicFailures, one transaction of the store per failure *)

Recording(c) ==
  /\ cycle[c].pc = "rates"
  /\ cycle[c].todo = {}
  /\ cycle[c].unrecorded # <<>>

RecordBegin(c) ==
  /\ Recording(c)
  /\ \E s \in Sources : s = Head(cycle[c].unrecorded) /\ Sup!RecordRead(c, s)
  /\ UNCHANGED <<clock, runs, cycle, evidence, history, blocked>>

RecordCommit(c) ==
  /\ Recording(c)
  /\ Sup!RecordWrite(c)
  /\ cycle' = [cycle EXCEPT ![c].unrecorded = Tail(@)]
  /\ Unblock
  /\ UNCHANGED <<clock, runs, evidence, history>>

\* The transaction fails, or commits and its answer is lost: the exception
\* leaves the loop and becomes a preparation failure, although rows of this
\* cycle may be in the table.
RecordFails(c) ==
  /\ Recording(c)
  /\ \/ tx[c] = None /\ UNCHANGED supVars
     \/ Sup!RecordAbort(c)
     \/ Sup!RecordWrite(c)
  /\ cycle' = [cycle EXCEPT ![c] = PreparationFailure(@)]
  /\ Unblock
  /\ UNCHANGED <<clock, runs, evidence, history>>

------------------------------------------------------------------------------
(* evaluatePersistedAnchorReputations, at startedAt *)

RatesDone(c) ==
  /\ cycle[c].pc = "rates"
  /\ cycle[c].todo = {}
  /\ cycle[c].unrecorded = <<>>

ListAnchors(c) ==
  /\ RatesDone(c)
  /\ cycle' = [cycle EXCEPT ![c].pc = "evaluate", ![c].anchors = Anchors]
  /\ UNCHANGED <<clock, runs, evidence, history, blocked, supVars>>

\* A throw of the listing reaches the HTTP boundary: a 500 and no summary.
ListAnchorsFails(c) ==
  /\ RatesDone(c)
  /\ cycle' = [cycle EXCEPT ![c] = Idle]
  /\ UNCHANGED <<clock, runs, evidence, history, blocked, supVars>>

CapturedAt(s) == {o.capturedAt : o \in {x \in snapshots : x.source = s}}

\* The newest observation of s alone decides: getRateFreshness calls it future,
\* fresh or stale at the time of the evaluation.
FreshAt(s, at) ==
  \E newest \in CapturedAt(s) :
    /\ \A t \in CapturedAt(s) : t <= newest
    /\ newest <= at
    /\ at - newest <= FreshFor

\* One REPEATABLE READ snapshot of the evidence of one anchor.
ReadEvidence(c, a) ==
  /\ cycle[c].pc = "evaluate"
  /\ cycle[c].reading = None
  /\ a \in cycle[c].anchors
  /\ LET fresh == {s \in Sources : AnchorOf[s] = a /\ FreshAt(s, cycle[c].startedAt)}
     IN  cycle' = [cycle EXCEPT ![c].anchors = @ \ {a},
                                ![c].reading = [anchor |-> a, fresh |-> fresh]]
  /\ UNCHANGED <<clock, runs, evidence, history, blocked, supVars>>

ReadEvidenceFails(c, a) ==
  /\ cycle[c].pc = "evaluate"
  /\ cycle[c].reading = None
  /\ a \in cycle[c].anchors
  /\ cycle' = [cycle EXCEPT ![c].anchors = @ \ {a}, ![c].evaluated = FALSE]
  /\ UNCHANGED <<clock, runs, evidence, history, blocked, supVars>>

\* INSERT ... ON CONFLICT DO UPDATE ... WHERE computed_at < EXCLUDED.computed_at
Upserted(c) ==
  LET a == cycle[c].reading.anchor
      new == [run |-> cycle[c].run, computedAt |-> cycle[c].startedAt,
              fresh |-> cycle[c].reading.fresh]
  IN  IF scores[a] = None \/ scores[a].computedAt < new.computedAt
      THEN [scores EXCEPT ![a] = new]
      ELSE scores

UpsertScore(c) ==
  /\ cycle[c].pc = "evaluate"
  /\ cycle[c].reading # None
  /\ scores' = Upserted(c)
  /\ cycle' = [cycle EXCEPT ![c].reading = None]
  /\ UNCHANGED <<clock, runs, snapshots, history, blocked, supVars>>

UpsertFails(c) ==
  /\ cycle[c].pc = "evaluate"
  /\ cycle[c].reading # None
  /\ scores' \in {scores, Upserted(c)}
  /\ cycle' = [cycle EXCEPT ![c].reading = None, ![c].evaluated = FALSE]
  /\ UNCHANGED <<clock, runs, snapshots, history, blocked, supVars>>

\* The process dies between two steps; its transaction is rolled back.
Crash(c) ==
  /\ Running(c)
  /\ cycle' = [cycle EXCEPT ![c] = Idle]
  /\ IF tx[c] = None THEN UNCHANGED supVars ELSE Sup!RecordAbort(c)
  /\ UNCHANGED <<clock, runs, evidence, history, blocked>>

------------------------------------------------------------------------------
Work(c) ==
  \/ ListSuppressed(c) \/ PrepareFails(c)
  \/ SkipDuplicate(c) \/ AttemptFails(c) \/ Observe(c)
  \/ Persist(c) \/ PersistFails(c)
  \/ RecordBegin(c) \/ RecordCommit(c) \/ RecordFails(c)
  \/ ListAnchors(c) \/ ListAnchorsFails(c)
  \/ \E a \in Anchors : ReadEvidence(c, a) \/ ReadEvidenceFails(c, a)
  \/ UpsertScore(c) \/ UpsertFails(c)

Reactivation ==
  /\ \E o \in Operators : Sup!Reactivate(o)
  /\ Unblock
  /\ UNCHANGED <<clock, runs, cycle, evidence, history>>

Next ==
  \/ Tick
  \/ \E c \in Cycles : Trigger(c) \/ Work(c) \/ Crash(c)
  \/ Reactivation

Spec == Init /\ [][Next]_vars

------------------------------------------------------------------------------
(* Properties *)

Local == [pc : {"idle", "list", "rates", "persist", "evaluate"},
          run : 0 .. MaxRuns, startedAt : 0 .. MaxTime,
          todo : SUBSET (1 .. Len(SourceList)), seen : SUBSET Sources,
          failures : Seq(Failure), unrecorded : Seq(Sources),
          persisted : SUBSET Snapshot, observation : Snapshot \cup {None},
          prepared : BOOLEAN, anchors : SUBSET Anchors,
          reading : Reading \cup {None},
          evaluated : BOOLEAN]

TypeOK ==
  /\ clock \in 0 .. MaxTime
  /\ runs \in 0 .. MaxRuns
  /\ cycle \in [Cycles -> Local]
  /\ snapshots \subseteq Snapshot
  /\ scores \in [Anchors -> Score \cup {None}]
  /\ deterministic \in [Sources -> 0 .. Threshold]
  /\ streak \in [Sources -> 0 .. Threshold]
  /\ blocked \in [Cycles -> SUBSET Sources]
  /\ Sup!TypeOK

\* Ok as it must not be: the reputation run is not looked at.
OkForRates(c) == cycle[c].prepared /\ cycle[c].failures = <<>>

\* The "ok" of the summary: no rate failure, no reputation failure.
Ok(c) == cycle[c].prepared /\ cycle[c].failures = <<>> /\ cycle[c].evaluated

\* A cycle counts as succeeded only rows that are in the table, whatever other
\* cycles, lost answers and crashes did (fault-injection matrix, invariant 1).
SucceededIsDurable ==
  \A c \in Cycles : cycle[c].persisted \subseteq snapshots

\* No run stores two observations of one source, even when the source is listed
\* twice or the answer of an insert is lost (invariant 4).
NeverDuplicated ==
  \A x, y \in snapshots : (x.source = y.source /\ x.run = y.run) => x = y

\* Quote, network and persistence failures never advance a suppression: every
\* recording stands for a deterministic failure a cycle met.
TransientNeverCounts ==
  \A s \in Sources : recorded[s] <= deterministic[s]

\* A cycle captures nothing of a source that has been suppressed since before
\* the cycle was triggered.
SuppressedNotCaptured ==
  [][\A c \in Cycles : Observe(c) => Candidate(c) \notin blocked[c]]_vars

\* A summary that says ok is the truth: what it attempted is in the table, and
\* every anchor has a score at least as recent as the cycle.
OkIsTruthful ==
  \A c \in Cycles : (Reported(c) /\ Ok(c)) =>
    /\ \A s \in cycle[c].seen :
         \E o \in snapshots : o.source = s /\ o.run = cycle[c].run
    /\ \A a \in Anchors :
         scores[a] # None /\ scores[a].computedAt >= cycle[c].startedAt

\* Overlapping cycles that finish out of order never replace a score by one
\* computed for an earlier time.
ScoresMoveForward ==
  [][\A a \in Anchors : scores'[a] # scores[a] =>
       /\ scores'[a] # None
       /\ scores[a] # None => scores[a].computedAt < scores'[a].computedAt]_vars

\* The refresh uses the store only through its operations.
UsesSuppressionStore == Sup!Spec

\* What docs/DEPLOYMENT.md says of the threshold: the failures that suppress a
\* source are consecutive.
SuppressionIsConsecutive ==
  \A s \in Sources : Sup!Suppressed(rows[s]) => streak[s] >= Threshold

\* What the comment of runScheduledRefresh says of its order: the evaluation of
\* a run uses the observations the same run wrote.
SameRunEvidenceIsUsed ==
  \A c \in Cycles : Reported(c) =>
    \A o \in cycle[c].persisted :
      LET score == scores[AnchorOf[o.source]]
      IN  (score # None /\ score.run = cycle[c].run) => o.source \in score.fresh

===============================================================================
