---------------------------- MODULE ReputationStore ----------------------------
(***************************************************************************)
(* How one anchor's reputation is evaluated against a database that        *)
(* changes: the evidence is read in a read-only REPEATABLE READ            *)
(* transaction (lib/reputation/snapshot.ts, repository.ts), the score is   *)
(* computed (score.ts) and upserted by one statement that reports what it  *)
(* did.  ScheduledRefresh has the cycles around it.                        *)
(*                                                                         *)
(* Simplifications: a rate is fresh or stale for every evaluation of the   *)
(* run; an outcome is counted and not dated, so that the windows of the    *)
(* metrics and their percentiles are left out.                             *)
(***************************************************************************)
EXTENDS Naturals, FiniteSets

CONSTANTS
  ScoredCorridors, \* corridors of the registry
  Evaluations,     \* evaluations, each run once
  MinOutcomes,     \* MIN_REPUTATION_OUTCOMES
  MaxFacts         \* bound: changes of the evidence

\* The evidence begins two outcomes short of enough; "nobody" is nobody's name.
ASSUME ScoreAssumption ==
  /\ MinOutcomes \in Nat \ {0, 1} /\ MaxFacts \in Nat
  /\ IsFiniteSet(ScoredCorridors) /\ "nobody" \notin Evaluations

VARIABLES
  facts,       \* what the database holds about the anchor
  happened,    \* the number of its changes, which dates evaluations too
  score,       \* the row of reputation_scores, or NoScore
  evaluation

scoreVars == <<facts, happened, score, evaluation>>

MaxAttempts == 3
NoScore == [at |-> 0, by |-> "nobody", points |-> 0]
Unread == [of |-> {}, value |-> <<>>]

ReputationInit ==
  /\ facts \in {[status |-> f[1], corridors |-> ScoredCorridors, completed |-> MinOutcomes - 2, failed |-> 1,
                rates |-> [c \in ScoredCorridors |-> f[2]]] : f \in {<<"ABSENT", "none">>, <<"LIVE", "stale">>}}
  /\ happened = 0
  /\ score = NoScore
  /\ evaluation = [e \in Evaluations |->
                     [pc |-> "idle", at |-> 0, attempt |-> 0, snapshot |-> Unread, read |-> Unread,
                      seen |-> NoScore, points |-> 0, result |-> "none"]]

(* ----------------------------- score.ts ---------------------------------- *)

RoundDiv(n, d) == (n + (d \div 2)) \div d
RatioBasisPoints(n, d) == IF n = 0 \/ d = 0 THEN 0 ELSE RoundDiv(n * 10000, d)
AvailabilityScore == [LIVE |-> 100, DEGRADED |-> 50, DOWN |-> 0, ABSENT |-> 0]
Weights == [availability |-> 20, rateFreshness |-> 15, coverage |-> 15, reliability |-> 50]

Insufficient == 101

\* calculateReputation: a number up to 100, or Insufficient.
CalculateReputation(f) ==
  LET latest == {c \in f.corridors : f.rates[c] # "none"}
      fresh == Cardinality({c \in f.corridors : f.rates[c] = "fresh"})
      outcomes == f.completed + f.failed
  IN  IF outcomes < MinOutcomes \/ f.corridors = {} \/ latest = {} THEN Insufficient
      ELSE RoundDiv(AvailabilityScore[f.status] * 100 * Weights.availability
                      + RatioBasisPoints(fresh, Cardinality(latest)) * Weights.rateFreshness
                      + RatioBasisPoints(fresh, Cardinality(f.corridors)) * Weights.coverage
                      + RatioBasisPoints(f.completed, outcomes) * Weights.reliability, 10000)

(* ------------------------------ the database ------------------------------ *)

\* What may be recorded next: a status, an association, a rate, an outcome.
Recorded(f) ==
  {[f EXCEPT !.status = s] : s \in {"LIVE", "DEGRADED"}}
    \cup {[f EXCEPT !.corridors = @ \ {c}] : c \in ScoredCorridors}
    \cup {[f EXCEPT !.rates[c] = "fresh"] : c \in f.corridors}
    \cup {[f EXCEPT !.completed = @ + 1], [f EXCEPT !.failed = @ + 1]}

FactsChange ==
  /\ happened < MaxFacts
  /\ happened' = happened + 1
  /\ facts' \in Recorded(facts) \ {facts}
  /\ UNCHANGED <<score, evaluation>>

(* ------------------------------ the evidence ------------------------------ *)

BeginEvaluation(e) ==
  /\ evaluation[e].pc = "idle"
  /\ evaluation' = [evaluation EXCEPT ![e].pc = "open", ![e].at = happened, ![e].attempt = 1]
  /\ UNCHANGED <<facts, happened, score>>

\* The first query of the transaction names its snapshot, and fixes it.
ReadSnapshotIdentity(e) ==
  /\ evaluation[e].pc = "open"
  /\ evaluation' = [evaluation EXCEPT ![e].pc = "reading", ![e].snapshot = facts,
                                      ![e].read = [of |-> {}, value |-> facts]]
  /\ UNCHANGED <<facts, happened, score>>

Ends(e, result) ==
  evaluation' = [evaluation EXCEPT ![e].pc = "done", ![e].result = result, ![e].seen = NoScore,
                                   ![e].points = 0, ![e].attempt = 0, ![e].snapshot = Unread, ![e].read = Unread]

Fields == [anchor |-> {"status", "corridors"}, rates |-> {"rates"},
           outcomes |-> {"completed", "failed"}]

\* Mutant: READ COMMITTED, where each query sees the moment it starts.
ReadCommitted(e, part) ==
  /\ evaluation[e].pc = "reading"
  /\ part \notin evaluation[e].read.of
  /\ part # "anchor" => "anchor" \in evaluation[e].read.of
  /\ LET read == evaluation[e].read.of \cup {part} IN
       evaluation' = [evaluation EXCEPT
         ![e].pc = IF read = DOMAIN Fields THEN "computed" ELSE @,
         ![e].read = [of |-> read,
                      value |-> [k \in DOMAIN facts |->
                                   IF k \in Fields[part] THEN facts[k] ELSE @.value[k]]]]
  /\ UNCHANGED <<facts, happened, score>>

\* readEvidenceInSnapshot: the anchor with its corridors, and then its rates and
\* its outcomes at once.  An anchor that is not there ends the evaluation.
ReadEvidence(e, part) ==
  /\ evaluation[e].pc = "reading"
  /\ part \notin evaluation[e].read.of
  /\ part # "anchor" => "anchor" \in evaluation[e].read.of
  /\ LET read == evaluation[e].read.of \cup {part}
         seen == evaluation[e].snapshot
     IN  IF part = "anchor" /\ seen.status = "ABSENT"
         THEN Ends(e, "ANCHOR_NOT_FOUND")
         ELSE evaluation' = [evaluation EXCEPT
                ![e].pc = IF read = DOMAIN Fields THEN "computed" ELSE @,
                ![e].read = [of |-> read,
                             value |-> [k \in DOMAIN facts |->
                                          IF k \in Fields[part] THEN seen[k] ELSE @.value[k]]]]
  /\ UNCHANGED <<facts, happened, score>>

\* Only what the client reports with the SQLSTATE of a serialization failure, a
\* deadlock or a lock timeout is tried again, in a new transaction.
ReadEvidenceFails(e) ==
  /\ evaluation[e].pc \in {"open", "reading"}
  /\ \/ /\ evaluation[e].attempt < MaxAttempts
        /\ evaluation' = [evaluation EXCEPT ![e].pc = "open", ![e].attempt = @ + 1,
                                            ![e].snapshot = Unread, ![e].read = Unread]
     \/ /\ evaluation[e].attempt = MaxAttempts
        /\ Ends(e, "EVIDENCE_READ_SERIALIZATION_FAILURE")
     \/ Ends(e, "EVIDENCE_READ_FAILURE")
  /\ UNCHANGED <<facts, happened, score>>

(* -------------------------------- upsertScore ----------------------------- *)

\* The statement has its own snapshot, which its SELECT sees.
BeginUpsert(e) ==
  /\ evaluation[e].pc = "computed"
  /\ evaluation' = [evaluation EXCEPT ![e].pc = "writing", ![e].seen = score,
                                      ![e].points = CalculateReputation(evaluation[e].read.value),
                                      ![e].snapshot = Unread, ![e].read = Unread]
  /\ UNCHANGED <<facts, happened, score>>

\* INSERT ... ON CONFLICT decides about the row as it is once it is locked; the
\* SELECT for a row that stays reports the one the statement began with.
Upsert(e) ==
  /\ evaluation[e].pc = "writing"
  /\ LET at == evaluation[e].at
         seen == evaluation[e].seen
     IN  IF score = NoScore \/ score.at < at
         THEN /\ score' = [at |-> at, by |-> e, points |-> evaluation[e].points]
              /\ Ends(e, "written")
         ELSE /\ UNCHANGED score
              /\ Ends(e, CASE seen = NoScore -> "PERSISTENCE_FAILURE"
                           [] seen # NoScore /\ seen.at = at -> "rejected_tie"
                           [] OTHER -> "rejected_stale")
  /\ UNCHANGED <<facts, happened>>

\* The statement fails, or its answer is lost when it has been committed.
UpsertIsLost(e) ==
  /\ evaluation[e].pc = "writing"
  /\ \/ UNCHANGED score
     \/ /\ score = NoScore \/ score.at < evaluation[e].at
        /\ score' = [at |-> evaluation[e].at, by |-> e, points |-> evaluation[e].points]
  /\ Ends(e, "PERSISTENCE_FAILURE")
  /\ UNCHANGED <<facts, happened>>

ReputationNext ==
  \/ FactsChange
  \/ \E e \in Evaluations :
       \/ BeginEvaluation(e) \/ ReadSnapshotIdentity(e) \/ ReadEvidenceFails(e)
       \/ \E part \in DOMAIN Fields : ReadEvidence(e, part)
       \/ BeginUpsert(e) \/ Upsert(e) \/ UpsertIsLost(e)

ReputationSpec == ReputationInit /\ [][ReputationNext]_scoreVars

(* ------------------------------- properties ------------------------------- *)

\* The evidence a score rests on is the database of one moment, the one the
\* snapshot it is published with names, whatever changed while it was read.
EvidenceIsOfOneMoment ==
  \A e \in Evaluations :
    LET v == evaluation[e] IN v.pc = "computed" => v.read.value = v.snapshot

\* What an upsert reports is what happened: no later write takes the place of a
\* score it said was written unless it is newer, a rejection means that a score
\* at least as new is there, and a failure may mean either.
UpsertIsTruthful ==
  \A e \in Evaluations :
    LET v == evaluation[e] IN
    /\ v.result = "written" => score.at >= v.at /\ (score.at = v.at => score.by = e)
    /\ v.result \in {"rejected_tie", "rejected_stale"} => score # NoScore /\ score.at >= v.at /\ score.by # e

\* More of what is good never costs points, through four ratios and five
\* roundings: a completed transfer, a rate for a corridor, a better status.
ScoreIsMonotone ==
  LET points == CalculateReputation(facts)
      better == {[facts EXCEPT !.completed = @ + 1], [facts EXCEPT !.status = "LIVE"]}
                  \cup {[facts EXCEPT !.rates[c] = "fresh"] : c \in facts.corridors}
  IN  points # Insufficient => \A f \in better : CalculateReputation(f) \in points .. 100

ScoresRestOnOneMoment == EvidenceIsOfOneMoment /\ UpsertIsTruthful /\ ScoreIsMonotone
===============================================================================
