------------------------------- MODULE SepRetry -------------------------------
(***************************************************************************)
(* The bounded retry loop for upstream operations (lib/stellar/retry.ts).  *)
(*                                                                         *)
(* One call of withSepRetry: its attempts, its sleeps, the deadline timer, *)
(* the caller's signal and a callback that may or may not listen to the    *)
(* signal it is given.  Timers fire at their time or later, in any order   *)
(* when several are due.                                                   *)
(*                                                                         *)
(* Simplifications: one clock serves the timers and the policy.  An error  *)
(* is its code, its status and its Retry-After header, and a header of n   *)
(* delay-seconds asks for n ticks.                                         *)
(***************************************************************************)
EXTENDS Naturals, Integers, FiniteSetsExt

CONSTANTS
  MaxAttempts,    \* maxAttempts
  BaseDelay,      \* baseDelayMs
  MaxDelay,       \* maxDelayMs
  RetryDeadline,  \* deadlineMs
  MaxRetryAfter,  \* maxRetryAfterMs
  AttemptTimeout, \* attemptTimeoutMs, 0 where it is not given
  MaxRetryTime    \* bound: clock ticks

ASSUME RetryPolicyAssumption ==
  /\ {MaxAttempts, BaseDelay, MaxDelay, RetryDeadline, MaxRetryAfter} \subseteq Nat
  /\ AttemptTimeout \in Nat /\ MaxRetryTime \in Nat

VARIABLES
  now,
  loop,    \* the local state of withSepRetry
  aborted  \* what aborted the combined signal, or "no"

retryVars == <<now, loop, aborted>>

Headers == [form : {"missing", "malformed"}, value : {0}]
             \cup [form : {"seconds", "date"}, value : {1, MaxRetryAfter + 1}]
NoHeader == [form |-> "missing", value |-> 0]

RetryErrors == [code : {"TIMEOUT", "EGRESS_POLICY", "INVALID_DATA", "REDIRECT", "AbortError", "unknown"},
           status : {0}, header : {NoHeader}]
            \cup [code : {"HTTP_FAILURE"}, status : {429}, header : Headers]
            \cup [code : {"HTTP_FAILURE"}, status : {404, 503}, header : {NoHeader}]

\* No delay is -1: the header gives none, and backoff decides.
NoDelay == -1

ClampRetryAfter(delay) == Min({delay, MaxRetryAfter})

ParseRetryAfter(header) ==
  CASE header.form = "seconds" -> header.value
    [] header.form = "date" /\ header.value > now -> header.value - now
    [] OTHER -> NoDelay

Retryable == [retry |-> TRUE, after |-> NoDelay]
NonRetryable == [retry |-> FALSE, after |-> NoDelay]

\* Retry-After counts on a 429 only, and is not clamped here.
ClassifyHttpFailure(error) ==
  CASE error.status = 429 -> [retry |-> TRUE, after |-> ParseRetryAfter(error.header)]
    [] error.status \in 500 .. 599 -> Retryable
    [] OTHER -> NonRetryable

\* The codes of both clients: whatever is not named is not retried.
ClassifySep1Error(error) ==
  CASE error.code = "HTTP_FAILURE" -> ClassifyHttpFailure(error)
    [] error.code \in {"EGRESS_POLICY", "TIMEOUT", "NETWORK_FAILURE"} -> Retryable
    [] OTHER -> NonRetryable

ClassifySep38Error(error) ==
  IF error.code \in {"INVALID_DATA", "REDIRECT"} THEN NonRetryable ELSE ClassifySep1Error(error)

\* Half of the capped exponential delay, and up to but not including all of it.
Backoff(attempt) ==
  LET capped == Min({BaseDelay * 2^(attempt - 1), MaxDelay})
  IN  (capped \div 2) .. Max({capped \div 2, capped - 1})

CalculateSepRetryDelay(attempt, after) ==
  IF after # NoDelay THEN {ClampRetryAfter(Max({after, 0}))} ELSE Backoff(attempt)

DeadlineExceeded == now >= RetryDeadline

RetryInit ==
  /\ now = 0
  /\ loop = [pc |-> "running", attempt |-> 1, since |-> 0, wake |-> 0, outcome |-> "none"]
  /\ aborted \in {"no", "caller"}

RetryEnded(outcome) == loop' = [loop EXCEPT !.pc = "done", !.outcome = outcome]

AttemptSucceeds ==
  /\ loop.pc = "running"
  /\ RetryEnded("result")
  /\ UNCHANGED <<now, aborted>>

SleepForUnlooked(delay) ==
  \E reason \in {aborted, "caller"} :
    /\ loop' = [loop EXCEPT !.pc = "sleeping", !.wake = now + delay]
    /\ aborted' = reason
\* onRetry is the caller's code and may abort; sleepWithAbort looks at the
\* signal before it sets its timer.
SleepFor(delay) ==
  \/ loop' = [loop EXCEPT !.pc = "sleeping", !.wake = now + delay] /\ UNCHANGED aborted
  \/ aborted' = "caller" /\ RetryEnded("AbortError")

\* The catch block of the loop.  The abort is looked at before the class of
\* the error, the class before the budgets.
RetryCaught(error) ==
  LET class == ClassifySep38Error(error)
      spent == loop.attempt >= MaxAttempts \/ DeadlineExceeded
      failure == IF aborted # "no" \/ error.code = "AbortError" THEN "AbortError"
                 ELSE IF ~class.retry \/ (spent /\ loop.attempt <= 1) THEN "last_error"
                 ELSE IF spent THEN "exhausted" ELSE "none"
  IN  \/ failure # "none" /\ RetryEnded(failure) /\ UNCHANGED aborted
      \/ /\ failure = "none"
         /\ \E delay \in CalculateSepRetryDelay(loop.attempt, class.after) : SleepFor(delay)

\* A callback that listens to its signal ends with an AbortError once it is
\* aborted; one that does not, ends as it will, or never.
AttemptFails(error) ==
  /\ loop.pc = "running"
  /\ RetryCaught(error)
  /\ UNCHANGED now

\* The race against the attempt's own timer: the callback is left running.
AttemptTimesOut ==
  /\ loop.pc = "running"
  /\ AttemptTimeout > 0 /\ now >= loop.since + AttemptTimeout
  /\ RetryCaught([code |-> "unknown", status |-> 0, header |-> NoHeader])
  /\ UNCHANGED now

SleepEnds ==
  /\ loop.pc = "sleeping" /\ now >= loop.wake
  /\ loop' = [loop EXCEPT !.pc = "running", !.attempt = @ + 1, !.since = now]
  /\ UNCHANGED <<now, aborted>>

\* The listener of sleepWithAbort: it clears the timer of the sleep.
AbortSleep == IF loop.pc = "sleeping" THEN RetryEnded("AbortError") ELSE UNCHANGED loop

AbortWith(reason) ==
  /\ aborted = "no" /\ aborted' = reason
  /\ AbortSleep
  /\ UNCHANGED now

\* The finally block clears the timer.
DeadlineFires == loop.pc # "done" /\ now >= RetryDeadline /\ AbortWith("deadline")
CallerAborts == loop.pc # "done" /\ AbortWith("caller")

RetryTick ==
  /\ now < MaxRetryTime /\ loop.pc # "done"
  /\ now' = now + 1
  /\ UNCHANGED <<loop, aborted>>

RetryNext ==
  \/ AttemptSucceeds
  \/ \E error \in RetryErrors : AttemptFails(error)
  \/ AttemptTimesOut
  \/ SleepEnds
  \/ DeadlineFires \/ CallerAborts
  \/ RetryTick

RetrySpec == RetryInit /\ [][RetryNext]_retryVars

-------------------------------------------------------------------------------

\* Cancellation stops the retries (withSepRetry, its comment on cancellation and
\* the module's "retries cannot outlive the job"): no further attempt starts
\* under an aborted signal, whichever of the timers was late.
NoRetryAfterAbort == [][loop'.attempt > loop.attempt => aborted' = "no"]_retryVars
===============================================================================
