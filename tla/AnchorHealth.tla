----------------------------- MODULE AnchorHealth -----------------------------
(***************************************************************************)
(* The published status of an anchor (lib/stellar/anchorHealth.ts, with    *)
(* the thresholds of constants/anchorHealth.ts): a state machine over the  *)
(* results of discovering the anchor, one observation after the other.     *)
(*                                                                         *)
(* Simplification: slugs and error codes are kept only as far as the class *)
(* of a failure depends on them.                                           *)
(***************************************************************************)
EXTENDS Naturals

CONSTANTS
  DegradedThreshold, \* ANCHOR_TRANSIENT_DEGRADED_THRESHOLD
  DownThreshold,     \* ANCHOR_TRANSIENT_DOWN_THRESHOLD
  DefiniteThreshold, \* ANCHOR_DETERMINISTIC_DOWN_THRESHOLD
  RecoveryThreshold, \* ANCHOR_RECOVERY_SUCCESS_THRESHOLD
  SustainedWindow,   \* ANCHOR_TRANSIENT_SUSTAINED_WINDOW_MS, in ticks
  MaxObservedAt,     \* bound: times of observations
  MaxStreak          \* bound: observations of one kind in a row

ASSUME HealthAssumption ==
  /\ DegradedThreshold \in Nat /\ DownThreshold \in Nat /\ SustainedWindow \in Nat
  /\ DownThreshold >= 2 /\ DefiniteThreshold \in Nat /\ DefiniteThreshold >= 2
  /\ RecoveryThreshold \in Nat /\ RecoveryThreshold >= 2
  /\ MaxObservedAt \in Nat /\ MaxStreak \in Nat

VARIABLES
  health,  \* the persisted AnchorHealthState
  recent   \* history: whether each of the last three observations failed

healthVars == <<health, recent>>

Statuses == {"UNKNOWN", "LIVE", "DEGRADED", "DOWN"}
FailureClasses == {"TRANSIENT", "DETERMINISTIC", "UNKNOWN"}
Never == 0
ObservedAt == 1 .. MaxObservedAt

Discoveries == [code : {"INVALID_TOML", "TIMEOUT", "EGRESS_POLICY"}, status : {0}]
                 \cup [code : {"HTTP_FAILURE"}, status : {404, 503}]

ClassifyAnchorFailure(error) ==
  CASE error.code \in {"INVALID_HOME_DOMAIN", "INVALID_TOML", "INVALID_DATA",
                       "MISSING_REQUIRED_DATA"} -> "DETERMINISTIC"
    [] error.code \in {"TIMEOUT", "NETWORK_FAILURE", "RESPONSE_TOO_LARGE"} -> "TRANSIENT"
    [] error.code = "HTTP_FAILURE" ->
         IF error.status \in 400 .. 499 THEN "DETERMINISTIC" ELSE "TRANSIENT"
    [] OTHER -> "UNKNOWN"

HealthState == [status : Statuses, failures : Nat, successes : Nat,
                class : FailureClasses \cup {"none"},
                lastFailureAt : {Never} \cup ObservedAt]

InitialHealth == [status |-> "UNKNOWN", failures |-> 0, successes |-> 0,
                  class |-> "none", lastFailureAt |-> Never]

\* A success does not clear lastFailureAt: the window may begin before it.
TransientEvidenceSustained(state, at) ==
  state.lastFailureAt # Never /\ at - state.lastFailureAt >= SustainedWindow

NextFailureStatus(state, failures, class, at) ==
  LET down == failures >= DownThreshold
  IN  CASE state.status = "DOWN" -> "DOWN"
        [] state.status = "UNKNOWN" -> IF down THEN "DOWN" ELSE "UNKNOWN"
        [] state.status = "LIVE" /\ class = "DETERMINISTIC" ->
             IF failures >= DefiniteThreshold THEN "DOWN" ELSE "DEGRADED"
        [] state.status = "LIVE" /\ class # "DETERMINISTIC" ->
             IF down THEN "DOWN"
             ELSE IF \/ failures >= DegradedThreshold
                     \/ TransientEvidenceSustained(state, at)
                  THEN "DEGRADED" ELSE "LIVE"
        [] state.status = "DEGRADED" ->
             IF class = "DETERMINISTIC" \/ down THEN "DOWN" ELSE "DEGRADED"

NextSuccessStatus(prior, successes) ==
  IF prior \in {"LIVE", "UNKNOWN"} \/ successes >= RecoveryThreshold THEN "LIVE"
                                                                     ELSE "DEGRADED"

\* ApplySuccess as it must not be: it leaves the count of failures alone.
ApplySuccessKeepingFailures(state) ==
  [state EXCEPT !.status = NextSuccessStatus(state.status, state.successes + 1),
                !.class = "none", !.successes = @ + 1]

ApplySuccess(state) ==
  [state EXCEPT !.status = NextSuccessStatus(state.status, state.successes + 1),
                !.failures = 0, !.class = "none", !.successes = @ + 1]

ApplyFailure(state, class, at) ==
  [status |-> NextFailureStatus(state, state.failures + 1, class, at),
   failures |-> state.failures + 1, successes |-> 0, class |-> class, lastFailureAt |-> at]

HealthInit ==
  /\ health = InitialHealth
  /\ recent = <<FALSE, FALSE, FALSE>>

Remember(failed) == recent' = <<recent[2], recent[3], failed>>

ObserveSuccess ==
  /\ health.successes < MaxStreak
  /\ health' = ApplySuccess(health)
  /\ Remember(FALSE)

\* Jobs report when they end: the times of observations need not grow.
ObserveFailure(error, at) ==
  /\ health.failures < MaxStreak
  /\ health' = ApplyFailure(health, ClassifyAnchorFailure(error), at)
  /\ Remember(TRUE)

HealthNext ==
  \/ ObserveSuccess
  \/ \E error \in Discoveries, at \in ObservedAt : ObserveFailure(error, at)

HealthSpec == HealthInit /\ [][HealthNext]_healthVars

-------------------------------------------------------------------------------

\* A change for the worse or the better takes repeated evidence, whatever path
\* led there (anchorHealth.ts:93-111).  An anchor becomes DOWN on a failure that a
\* retry may mend, or of unknown class, only when the last three observations
\* failed, and returns from DOWN or DEGRADED to LIVE only after two successes in a
\* row.  On a deterministic failure it becomes DOWN when two of the last three
\* failed: less than the comments say, see DeterministicDownIsConsecutive.
ChangesAreEarned ==
  [][ /\ health.status # "DOWN" /\ health'.status = "DOWN" =>
           IF health'.class = "DETERMINISTIC"
             THEN recent'[3] /\ (recent'[2] \/ recent'[1])
             ELSE recent'[3] /\ recent'[2] /\ recent'[1]
      /\ health.status \in {"DOWN", "DEGRADED"} /\ health'.status = "LIVE" =>
           ~recent'[3] /\ ~recent'[2] ]_healthVars

\* "DETERMINISTIC configuration/protocol failures reach DOWN after
\* ANCHOR_DETERMINISTIC_DOWN_THRESHOLD consecutive failures"
\* (anchorHealth.ts:103-105): at the value of 2, the observation before failed too.
DeterministicDownIsConsecutive ==
  [][ /\ health.status # "DOWN" /\ health'.status = "DOWN"
      /\ health'.class = "DETERMINISTIC"
      => recent'[3] /\ recent'[2] ]_healthVars

\* "One transient timeout therefore never publishes DOWN or DEGRADED"
\* (anchorHealth.ts:101, of a LIVE anchor).
OneTransientChangesNothing ==
  [][~( /\ health.status = "LIVE" /\ health.failures = 0
        /\ health'.status \in {"DEGRADED", "DOWN"} /\ health'.class = "TRANSIENT")]_healthVars
===============================================================================
