---------------------------- MODULE UpstreamProofs ----------------------------
(* Proofs about SepRetry, for any retry policy, about AnchorHealth, for any     *)
(* thresholds its assumption allows, and about AnchorSession and QuoteClient,   *)
(* for any clock skew, any answers of a name server and any finite set of assets. *)
EXTENDS SepRetry, AnchorHealth, AnchorSession, QuoteClient, FiniteSetTheorems, TLAPS

(* --------------------------------- retries -------------------------------- *)

\* Nothing depends on what the other fields of the loop hold.
LoopShape ==
  /\ loop = [pc |-> loop.pc, attempt |-> loop.attempt, since |-> loop.since,
             wake |-> loop.wake, outcome |-> loop.outcome]
  /\ loop.attempt \in Nat

\* A sleep ends with the abort of its signal.
SleepIsUnaborted == loop.pc = "sleeping" => aborted = "no"

RetryInv == LoopShape /\ SleepIsUnaborted

\* A call that has ended sleeps no more.
LEMMA EndedStep ==
  ASSUME RetryInv, NEW outcome, RetryEnded(outcome)
  PROVE  RetryInv' /\ loop'.attempt = loop.attempt
<1>1. loop' = [pc |-> "done", attempt |-> loop.attempt, since |-> loop.since,
               wake |-> loop.wake, outcome |-> outcome]
  BY DEF RetryEnded, RetryInv, LoopShape
<1> QED BY <1>1 DEF RetryInv, LoopShape, SleepIsUnaborted

\* What the catch block of the loop decides: it ends, or sleeps under a signal
\* that is not aborted; it never starts an attempt itself.
LEMMA CaughtStep ==
  ASSUME RetryInv, NEW error, RetryCaught(error)
  PROVE  RetryInv' /\ loop'.attempt = loop.attempt
<1> DEFINE class == ClassifySep38Error(error)
           spent == loop.attempt >= MaxAttempts \/ DeadlineExceeded
           failure == IF aborted # "no" \/ error.code = "AbortError" THEN "AbortError"
                      ELSE IF ~class.retry \/ (spent /\ loop.attempt <= 1) THEN "last_error"
                      ELSE IF spent THEN "exhausted" ELSE "none"
<1>1. \/ RetryEnded(failure)
      \/ /\ failure = "none"
         /\ \E delay \in CalculateSepRetryDelay(loop.attempt, class.after) : SleepFor(delay)
  BY DEF RetryCaught
<1>2. failure = "none" => aborted = "no"
  OBVIOUS
<1> HIDE DEF failure, class
<1>3. CASE RetryEnded(failure)
  BY <1>3, EndedStep
<1>4. CASE /\ failure = "none"
           /\ \E delay \in CalculateSepRetryDelay(loop.attempt, class.after) : SleepFor(delay)
  <2>1. PICK delay : SleepFor(delay)
    BY <1>4
  <2>2. CASE loop' = [loop EXCEPT !.pc = "sleeping", !.wake = now + delay] /\ UNCHANGED aborted
    BY <1>2, <1>4, <2>2 DEF RetryInv, LoopShape, SleepIsUnaborted
  <2>3. CASE RetryEnded("AbortError")
    BY <2>3, EndedStep
  <2> QED BY <2>1, <2>2, <2>3 DEF SleepFor
<1> QED BY <1>1, <1>3, <1>4

\* A signal that aborts ends the call, or leaves it to its callback.
LEMMA AbortStep ==
  ASSUME RetryInv, NEW reason, AbortWith(reason)
  PROVE  RetryInv' /\ loop'.attempt = loop.attempt
<1>1. CASE loop.pc = "sleeping"
  <2>1. RetryEnded("AbortError")
    BY <1>1 DEF AbortWith, AbortSleep
  <2> QED BY <2>1, EndedStep
<1>2. CASE loop.pc # "sleeping"
  <2>1. UNCHANGED loop
    BY <1>2 DEF AbortWith, AbortSleep
  <2> QED BY <1>2, <2>1 DEF RetryInv, LoopShape, SleepIsUnaborted
<1> QED BY <1>1, <1>2

\* Every step of a call keeps the shape of its loop and sleeps under no aborted signal.
LEMMA RetryStep ==
  ASSUME RetryInv, [RetryNext]_retryVars
  PROVE  RetryInv' /\ (loop'.attempt > loop.attempt => aborted' = "no")
<1>1. loop.attempt \in Nat /\ (loop'.attempt = loop.attempt => ~(loop'.attempt > loop.attempt))
  BY DEF RetryInv, LoopShape
<1>2. CASE UNCHANGED retryVars
  <2>1. UNCHANGED <<loop, aborted>>
    BY <1>2 DEF retryVars
  <2> QED BY <1>1, <2>1 DEF RetryInv, LoopShape, SleepIsUnaborted
<1>3. CASE AttemptSucceeds
  BY <1>1, <1>3, EndedStep DEF AttemptSucceeds
<1>4. CASE \E error \in RetryErrors : AttemptFails(error)
  BY <1>1, <1>4, CaughtStep DEF AttemptFails
<1>5. CASE AttemptTimesOut
  BY <1>1, <1>5, CaughtStep DEF AttemptTimesOut
<1>6. CASE SleepEnds
  <2>1. loop.pc = "sleeping" /\ aborted = "no" /\ UNCHANGED aborted
    BY <1>6 DEF SleepEnds, RetryInv, SleepIsUnaborted
  <2>2. loop' = [pc |-> "running", attempt |-> loop.attempt + 1, since |-> now,
                 wake |-> loop.wake, outcome |-> loop.outcome]
    BY <1>6 DEF SleepEnds, RetryInv, LoopShape
  <2>3. loop.attempt + 1 \in Nat
    BY <1>1
  <2> QED BY <2>1, <2>2, <2>3 DEF RetryInv, LoopShape, SleepIsUnaborted
<1>7. CASE DeadlineFires \/ CallerAborts
  BY <1>1, <1>7, AbortStep DEF DeadlineFires, CallerAborts
<1>8. CASE RetryTick
  BY <1>1, <1>8 DEF RetryTick, RetryInv, LoopShape, SleepIsUnaborted
<1> QED BY <1>2, <1>3, <1>4, <1>5, <1>6, <1>7, <1>8 DEF RetryNext

\* Retries cannot outlive the job (withSepRetry): whatever the policy, the errors
\* and the order in which the timers fire, no attempt starts under an aborted
\* signal.
THEOREM RetriesEndWithTheirSignal == RetrySpec => NoRetryAfterAbort
<1>1. RetryInit => RetryInv
  BY DEF RetryInit, RetryInv, LoopShape, SleepIsUnaborted
<1>2. RetryInv /\ [RetryNext]_retryVars => RetryInv'
  BY RetryStep
<1>3. RetryInv /\ [RetryNext]_retryVars
        => [loop'.attempt > loop.attempt => aborted' = "no"]_retryVars
  BY RetryStep
<1> QED BY <1>1, <1>2, <1>3, PTL DEF RetrySpec, NoRetryAfterAbort

(* --------------------------------- health --------------------------------- *)

HealthType ==
  /\ health = [status |-> health.status, failures |-> health.failures,
               successes |-> health.successes, class |-> health.class,
               lastFailureAt |-> health.lastFailureAt]
  /\ health.status \in Statuses
  /\ health.failures \in Nat /\ health.successes \in Nat

\* The counters say what the last observations were.
CountersAreRecent ==
  /\ health.failures >= 1 => recent[3]
  /\ health.failures >= 2 => recent[2]
  /\ health.successes >= 1 => ~recent[3]

\* A DEGRADED or DOWN anchor has failed, and succeeded once since at most.
DegradedHasFailed ==
  health.status \in {"DEGRADED", "DOWN"} => IF health.successes = 0 THEN recent[3] ELSE recent[2]

HealthInv == HealthType /\ CountersAreRecent /\ DegradedHasFailed

\* What a step does to the status is what ChangesAreEarned asks of it.
Earned ==
  /\ health.status # "DOWN" /\ health'.status = "DOWN" =>
       IF health'.class = "DETERMINISTIC"
         THEN recent'[3] /\ (recent'[2] \/ recent'[1])
         ELSE recent'[3] /\ recent'[2] /\ recent'[1]
  /\ health.status \in {"DOWN", "DEGRADED"} /\ health'.status = "LIVE" =>
       ~recent'[3] /\ ~recent'[2]

\* What recent holds after an observation.
LEMMA Remembered ==
  ASSUME NEW failed \in BOOLEAN, Remember(failed)
  PROVE  /\ recent'[1] = recent[2] /\ recent'[2] = recent[3] /\ recent'[3] = failed
<1>1. recent' = <<recent[2], recent[3], failed>>
  BY DEF Remember
<1> DEFINE second == recent[2]
           third == recent[3]
<1>2. recent' = <<second, third, failed>>
  BY <1>1
<1> HIDE DEF second, third
<1>3. recent'[1] = second /\ recent'[2] = third /\ recent'[3] = failed
  BY <1>2
<1> QED BY <1>3 DEF second, third

\* A success keeps the counters true to recent, and changes the status only if earned.
LEMMA SuccessStep ==
  ASSUME RecoveryThreshold = 2, HealthInv, ObserveSuccess
  PROVE  HealthInv' /\ Earned
<1> DEFINE status == NextSuccessStatus(health.status, health.successes + 1)
<1>1. health' = [status |-> status, failures |-> 0, successes |-> health.successes + 1,
                 class |-> "none", lastFailureAt |-> health.lastFailureAt]
  BY DEF ObserveSuccess, ApplySuccess, HealthInv, HealthType
<1>2. status \in Statuses
  BY DEF NextSuccessStatus, Statuses
<1>3. status # "DOWN" /\ (status = "LIVE" /\ health.status \in {"DOWN", "DEGRADED"} => health.successes >= 1)
  BY DEF NextSuccessStatus, HealthInv, HealthType
<1>4. status = "DEGRADED" => health.successes = 0 /\ health.status \in {"DOWN", "DEGRADED"}
  BY DEF NextSuccessStatus, HealthInv, HealthType, Statuses
<1> HIDE DEF status
<1>5. (recent'[2] <=> recent[3]) /\ ~recent'[3]
  BY Remembered, Zenon DEF ObserveSuccess
<1>6. HealthType'
  BY <1>1, <1>2 DEF HealthInv, HealthType
<1>7. CountersAreRecent'
  <2>1. ~(health'.failures >= 1) /\ ~(health'.failures >= 2)
    BY <1>1
  <2> QED BY <1>5, <2>1, Zenon DEF CountersAreRecent
<1>8. DegradedHasFailed'
  <2>1. health'.status = status /\ health'.successes # 0
    BY <1>1 DEF HealthInv, HealthType
  <2>2. status \in {"DEGRADED", "DOWN"} => recent[3]
    BY <1>3, <1>4 DEF HealthInv, DegradedHasFailed
  <2>3. status \in {"DEGRADED", "DOWN"} => recent'[2]
    BY <1>5, <2>2, Zenon
  <2> QED BY <2>1, <2>3, Zenon DEF DegradedHasFailed
<1>9. Earned
  BY <1>1, <1>3, <1>5 DEF Earned, HealthInv, CountersAreRecent
<1> QED BY <1>6, <1>7, <1>8, <1>9 DEF HealthInv

\* A failure keeps the counters true to recent, and changes the status only if earned.
LEMMA FailureStep ==
  ASSUME DownThreshold >= 3, HealthInv, NEW class \in FailureClasses, NEW at,
         health' = ApplyFailure(health, class, at), Remember(TRUE)
  PROVE  HealthInv' /\ Earned
<1> DEFINE status == NextFailureStatus(health, health.failures + 1, class, at)
<1>1. status \in Statuses
  BY DEF NextFailureStatus, HealthInv, HealthType, Statuses
<1>2. health.status # "DOWN" /\ status = "DOWN" =>
        \/ health.failures >= 2
        \/ class = "DETERMINISTIC" /\ (health.failures >= 1 \/ health.status = "DEGRADED")
  BY HealthAssumption DEF NextFailureStatus, HealthInv, HealthType, Statuses
<1>3. status = "LIVE" => health.status = "LIVE"
  BY DEF NextFailureStatus, HealthInv, HealthType, Statuses
<1>4. health' = [status |-> status, failures |-> health.failures + 1, successes |-> 0,
                 class |-> class, lastFailureAt |-> at]
  BY DEF ApplyFailure
<1> HIDE DEF status
<1>5. (recent'[1] <=> recent[2]) /\ (recent'[2] <=> recent[3]) /\ recent'[3]
  BY Remembered, Zenon
<1>6. HealthType'
  BY <1>1, <1>4 DEF HealthInv, HealthType
<1>7. CountersAreRecent' /\ DegradedHasFailed'
  <2>1. health'.failures >= 2 => health.failures >= 1
    BY <1>4 DEF HealthInv, HealthType
  <2>2. health'.successes = 0 /\ ~(health'.successes >= 1)
    BY <1>4
  <2> QED BY <1>5, <2>1, <2>2, Zenon DEF CountersAreRecent, DegradedHasFailed, HealthInv
<1>8. Earned
  <2>1. health'.status = status /\ health'.class = class
    BY <1>4
  <2>2. health.failures >= 2 => health.failures >= 1
    BY DEF HealthInv, HealthType
  <2>3. health.failures >= 2 => recent'[1] /\ recent'[2]
    BY <1>5, <2>2, Zenon DEF HealthInv, CountersAreRecent
  <2>4. health.failures >= 1 => recent'[2]
    BY <1>5, Zenon DEF HealthInv, CountersAreRecent
  <2>5. health.status = "DEGRADED" => recent'[1] \/ recent'[2]
    BY <1>5, Zenon DEF HealthInv, DegradedHasFailed
  <2> QED BY <1>2, <1>3, <1>5, <2>1, <2>3, <2>4, <2>5, Zenon DEF Earned
<1> QED BY <1>6, <1>7, <1>8 DEF HealthInv

\* Changes of the status are earned (lib/stellar/anchorHealth.ts:93): no three
\* failures in a row, no DOWN but by a deterministic failure, and that one not the
\* only failure of the last three; no two successes in a row, no recovery.  For any
\* windows and observations in any order of their times, and any thresholds that
\* leave the code's 2 successes, and at least its 3 failures of any class.
THEOREM ChangesTakeEvidence ==
  ASSUME RecoveryThreshold = 2, DownThreshold >= 3
  PROVE  HealthSpec => ChangesAreEarned
<1>1. HealthInit => HealthInv
  BY DEF HealthInit, InitialHealth, HealthInv, HealthType, CountersAreRecent, DegradedHasFailed,
         Statuses
<1>2. HealthInv /\ [HealthNext]_healthVars => HealthInv' /\ [Earned]_healthVars
  <2> SUFFICES ASSUME HealthInv, [HealthNext]_healthVars
               PROVE  HealthInv' /\ [Earned]_healthVars
    OBVIOUS
  <2>1. CASE UNCHANGED healthVars
    BY <2>1 DEF healthVars, HealthInv, HealthType, CountersAreRecent, DegradedHasFailed
  <2>2. CASE ObserveSuccess
    BY <2>2, SuccessStep
  <2>3. CASE \E error \in Discoveries, at \in ObservedAt : ObserveFailure(error, at)
    <3>1. PICK error \in Discoveries, at \in ObservedAt : ObserveFailure(error, at)
      BY <2>3
    <3>2. ClassifyAnchorFailure(error) \in FailureClasses
      BY DEF ClassifyAnchorFailure, FailureClasses
    <3> QED BY <3>1, <3>2, FailureStep DEF ObserveFailure
  <2> QED BY <2>1, <2>2, <2>3 DEF HealthNext
<1> QED BY <1>1, <1>2, PTL DEF HealthSpec, ChangesAreEarned, Earned

(* -------------------------------- exchanges ------------------------------- *)

ExchangeShape ==
  exchange = [stage |-> exchange.stage, client |-> exchange.client,
              expected |-> exchange.expected, aborted |-> exchange.aborted,
              code |-> exchange.code]

\* A request is on the wire, or answered, under a signal that is not aborted.
WireIsUnaborted == exchange.stage \in {"waiting", "data"} => ~exchange.aborted

\* A request that failed says why.
FailureHasCode == exchange.stage = "failed" => exchange.code # "ok"

ExchangeInv == ExchangeShape /\ WireIsUnaborted /\ FailureHasCode

\* What the clients do to the exchange themselves: they start a request or forget one.
LEMMA ClientStep ==
  ASSUME ExchangeInv,
         \/ exchange' = NoExchange
         \/ \E client, expected : Request(client, expected)
         \/ UNCHANGED exchange
  PROVE  ExchangeInv'
<1>1. CASE exchange' = NoExchange
  BY <1>1 DEF NoExchange, ExchangeInv, ExchangeShape, WireIsUnaborted, FailureHasCode
<1>2. CASE \E client, expected : Request(client, expected)
  BY <1>2 DEF Request, ExchangeInv, ExchangeShape, WireIsUnaborted, FailureHasCode
<1>3. CASE UNCHANGED exchange
  BY <1>3 DEF ExchangeInv, ExchangeShape, WireIsUnaborted, FailureHasCode
<1> QED BY <1>1, <1>2, <1>3

\* A failure of any kind but success leaves the invariant.
LEMMA FailedExchange ==
  ASSUME ExchangeInv, NEW code, code # "ok", exchange' = FailWith(code)
  PROVE  ExchangeInv'
<1>1. exchange' = [stage |-> "failed", client |-> exchange.client,
                   expected |-> exchange.expected, aborted |-> exchange.aborted, code |-> code]
  BY DEF FailWith, ExchangeInv, ExchangeShape
<1> QED BY <1>1 DEF ExchangeInv, ExchangeShape, WireIsUnaborted, FailureHasCode

\* The approval is asked for before the signal is looked at, and a request goes
\* on the wire only when both let it.
LEMMA DialStep ==
  ASSUME ExchangeInv, NEW approval, exchange' = Dial(approval)
  PROVE  ExchangeInv'
<1>1. CASE approval # "ok"
  <2>1. exchange' = FailWith("EGRESS_POLICY")
    BY <1>1 DEF Dial
  <2> QED BY <2>1, FailedExchange
<1>2. CASE approval = "ok" /\ exchange.aborted
  <2>1. exchange' = FailWith("TIMEOUT")
    BY <1>2 DEF Dial
  <2> QED BY <2>1, FailedExchange
<1>3. CASE approval = "ok" /\ ~exchange.aborted
  <2>1. exchange' = [exchange EXCEPT !.stage = "waiting"]
    BY <1>3 DEF Dial
  <2>2. exchange' = [stage |-> "waiting", client |-> exchange.client,
                     expected |-> exchange.expected, aborted |-> exchange.aborted,
                     code |-> exchange.code]
    BY <2>1 DEF ExchangeInv, ExchangeShape
  <2> QED BY <1>3, <2>2 DEF ExchangeInv, ExchangeShape, WireIsUnaborted, FailureHasCode
<1> QED BY <1>1, <1>2, <1>3

\* No step of an exchange puts an aborted request on the wire or takes its answer.
LEMMA ExchangeStep ==
  ASSUME ExchangeInv, ExchangeNext
  PROVE  ExchangeInv'
<1>1. CASE \E lookup \in Lookups : Resolve(lookup)
  BY <1>1, DialStep DEF Resolve
<1>2. CASE \E response \in Responses : Respond(response)
  <2>1. PICK response \in Responses : Respond(response)
    BY <1>2
  <2>2. CASE Read(response) = "ok"
    <3>1. exchange.stage = "waiting" /\ exchange' = [exchange EXCEPT !.stage = "data"]
      BY <2>1, <2>2 DEF Respond
    <3>2. exchange' = [stage |-> "data", client |-> exchange.client,
                       expected |-> exchange.expected, aborted |-> exchange.aborted,
                       code |-> exchange.code]
      BY <3>1 DEF ExchangeInv, ExchangeShape
    <3> QED BY <3>1, <3>2 DEF ExchangeInv, ExchangeShape, WireIsUnaborted, FailureHasCode
  <2>3. CASE Read(response) # "ok"
    <3>1. exchange' = FailWith(Read(response))
      BY <2>1, <2>3 DEF Respond
    <3> QED BY <2>3, <3>1, FailedExchange
  <2> QED BY <2>2, <2>3
<1>3. CASE Break
  BY <1>3, FailedExchange DEF Break
<1>4. CASE TimerFires
  <2>1. CASE exchange.stage = "waiting"
    <3>1. exchange' = [FailWith("TIMEOUT") EXCEPT !.aborted = TRUE]
      BY <1>4, <2>1 DEF TimerFires
    <3>2. exchange' = [stage |-> "failed", client |-> exchange.client,
                       expected |-> exchange.expected, aborted |-> TRUE, code |-> "TIMEOUT"]
      BY <3>1 DEF FailWith, ExchangeInv, ExchangeShape
    <3> QED BY <3>2 DEF ExchangeInv, ExchangeShape, WireIsUnaborted, FailureHasCode
  <2>2. CASE exchange.stage = "resolving"
    <3>1. exchange' = [exchange EXCEPT !.aborted = TRUE]
      BY <1>4, <2>2 DEF TimerFires
    <3>2. exchange' = [stage |-> "resolving", client |-> exchange.client,
                       expected |-> exchange.expected, aborted |-> TRUE, code |-> exchange.code]
      BY <2>2, <3>1 DEF ExchangeInv, ExchangeShape
    <3> QED BY <3>2 DEF ExchangeInv, ExchangeShape, WireIsUnaborted, FailureHasCode
  <2> QED BY <1>4, <2>1, <2>2 DEF TimerFires
<1> QED BY <1>1, <1>2, <1>3, <1>4 DEF ExchangeNext

(* --------------------------------- sessions ------------------------------- *)

SessionShape ==
  session = [pc |-> session.pc, memo |-> session.memo, clientDomain |-> session.clientDomain,
             issued |-> session.issued, posted |-> session.posted, subject |-> session.subject,
             expiresAt |-> session.expiresAt, handedAt |-> session.handedAt, code |-> session.code]

\* Each phase rests on what the ones before it established.
IssuedBeforeSigning ==
  session.pc \in {"signing", "exchange", "acquired", "complete"} => session.issued # "none"
PostedAsIssued ==
  session.pc \in {"exchange", "acquired", "complete"} => session.posted = session.issued
SubjectAsExpected ==
  session.pc \in {"acquired", "complete"} => session.subject = ExpectedSubject
HandedInTime == session.pc = "complete" => session.handedAt < session.expiresAt

SessionInv ==
  /\ SessionShape
  /\ IssuedBeforeSigning /\ PostedAsIssued /\ SubjectAsExpected /\ HandedInTime

\* A failure ends the flow in a phase of its own, which rests on nothing.
LEMMA FailedSession ==
  ASSUME SessionInv, NEW code,
         NEW phase \in {"sep1-discovery", "sep10-configuration", "sep10-authentication"},
         Fail(phase, code)
  PROVE  SessionInv'
<1>1. session' = [pc |-> phase, memo |-> session.memo, clientDomain |-> session.clientDomain,
                  issued |-> session.issued, posted |-> session.posted,
                  subject |-> session.subject, expiresAt |-> session.expiresAt,
                  handedAt |-> session.handedAt, code |-> code]
  BY DEF Fail, SessionInv, SessionShape
<1> QED BY <1>1 DEF SessionInv, SessionShape, IssuedBeforeSigning, PostedAsIssued,
                    SubjectAsExpected, HandedInTime

\* A phase before the signature rests on nothing either.
LEMMA EarlySession ==
  ASSUME SessionInv, NEW pc \in {"discovery", "challenge"},
         session' = [session EXCEPT !.pc = pc]
  PROVE  SessionInv'
<1>1. session' = [pc |-> pc, memo |-> session.memo, clientDomain |-> session.clientDomain,
                  issued |-> session.issued, posted |-> session.posted,
                  subject |-> session.subject, expiresAt |-> session.expiresAt,
                  handedAt |-> session.handedAt, code |-> session.code]
  BY DEF SessionInv, SessionShape
<1> QED BY <1>1 DEF SessionInv, SessionShape, IssuedBeforeSigning, PostedAsIssued,
                    SubjectAsExpected, HandedInTime

\* The script's own steps hand each phase what the one before it checked.
LEMMA ScriptStep ==
  ASSUME SessionInv, SessionNext
  PROVE  SessionInv'
<1> USE DEF SessionInv, SessionShape, IssuedBeforeSigning, PostedAsIssued, SubjectAsExpected,
            HandedInTime, ExpectedSubject
<1>1. CASE UNCHANGED session
  BY <1>1
<1>2. ASSUME ProviderFails PROVE SessionInv'
  BY <1>2, FailedSession DEF ProviderFails
<1>3. CASE FetchSep1Toml
  BY <1>3, EarlySession DEF FetchSep1Toml, GoOn
<1>4. CASE \E toml \in Tomls : Discovered(toml)
  <2>1. PICK toml \in Tomls : Discovered(toml)
    BY <1>4
  <2> DEFINE unsafe == toml.network # "testnet" \/ toml.webAuth = NoUrl \/ toml.key = "none"
  <2>2. CASE ParseSep1Toml(toml) # "ok"
    <3>1. Fail("sep1-discovery", ParseSep1Toml(toml))
      BY <2>1, <2>2 DEF Discovered
    <3> QED BY <3>1, FailedSession
  <2>3. CASE ParseSep1Toml(toml) = "ok" /\ unsafe
    <3>1. Fail("sep10-configuration", "UNSAFE_REFERENCE_CONFIGURATION")
      BY <2>1, <2>3 DEF Discovered
    <3> QED BY <3>1, FailedSession
  <2>4. CASE ParseSep1Toml(toml) = "ok" /\ ~unsafe /\ NormalizeConfig(toml) = "ok"
    <3>1. GoOn("challenge", "sep10")
      BY <2>1, <2>4 DEF Discovered
    <3> QED BY <3>1, EarlySession DEF GoOn
  <2>5. CASE ParseSep1Toml(toml) = "ok" /\ ~unsafe /\ NormalizeConfig(toml) # "ok"
    <3>1. Fail("sep10-configuration", NormalizeConfig(toml))
      BY <2>1, <2>5 DEF Discovered
    <3> QED BY <3>1, FailedSession
  <2> QED BY <2>2, <2>3, <2>4, <2>5
<1>5. CASE \E tx \in Transactions : Challenged(tx)
  <2>1. PICK tx \in Transactions : Challenged(tx)
    BY <1>5
  <2>2. CASE session' = [session EXCEPT !.pc = "signing", !.issued = tx.hash]
    <3>1. tx.hash # "none"
      BY DEF Transactions
    <3>2. session' = [pc |-> "signing", memo |-> session.memo,
                      clientDomain |-> session.clientDomain, issued |-> tx.hash,
                      posted |-> session.posted, subject |-> session.subject,
                      expiresAt |-> session.expiresAt, handedAt |-> session.handedAt,
                      code |-> session.code]
      BY <2>2
    <3> QED BY <3>1, <3>2
  <2> QED BY <1>2, <2>1, <2>2 DEF Challenged
<1>6. CASE \E tx \in Transactions : Signed(tx)
  <2>1. PICK tx \in Transactions : Signed(tx)
    BY <1>6
  <2>2. session.pc = "signing"
    BY <2>1 DEF Signed
  <2>3. CASE ValidateSignedChallenge(tx, session.issued)
    <3>1. /\ tx.hash = session.issued
          /\ session' = [session EXCEPT !.pc = "exchange", !.posted = tx.hash]
      BY <2>1, <2>3 DEF Signed, ValidateSignedChallenge
    <3>2. session' = [pc |-> "exchange", memo |-> session.memo,
                      clientDomain |-> session.clientDomain, issued |-> session.issued,
                      posted |-> session.issued, subject |-> session.subject,
                      expiresAt |-> session.expiresAt, handedAt |-> session.handedAt,
                      code |-> session.code]
      BY <3>1
    <3> QED BY <2>2, <3>2
  <2>4. CASE ~ValidateSignedChallenge(tx, session.issued)
    BY <1>2, <2>1, <2>4 DEF Signed
  <2> QED BY <2>3, <2>4
<1>7. CASE \E claims \in Claims : TokenReceived(claims)
  <2>1. PICK claims \in Claims : TokenReceived(claims)
    BY <1>7
  <2>2. session.pc = "exchange"
    BY <2>1 DEF TokenReceived, Received
  <2>3. CASE ParseStellarAuthToken(claims, tokenClock) = "ok"
    <3>1. claims.subject = ExpectedSubject
      BY <2>3 DEF ParseStellarAuthToken
    <3>2. session' = [session EXCEPT !.pc = "acquired", !.subject = claims.subject,
                                     !.expiresAt = claims.expiresAt]
      BY <2>1, <2>3 DEF TokenReceived
    <3>3. session' = [pc |-> "acquired", memo |-> session.memo,
                      clientDomain |-> session.clientDomain, issued |-> session.issued,
                      posted |-> session.posted, subject |-> claims.subject,
                      expiresAt |-> claims.expiresAt, handedAt |-> session.handedAt,
                      code |-> session.code]
      BY <3>2
    <3> QED BY <2>2, <3>1, <3>3
  <2>4. CASE ParseStellarAuthToken(claims, tokenClock) # "ok"
    BY <1>2, <2>1, <2>4 DEF TokenReceived
  <2> QED BY <2>3, <2>4
<1>8. CASE Acquired
  <2>1. session.pc = "acquired"
    BY <1>8 DEF Acquired
  <2>2. CASE tokenClock < session.expiresAt
    <3>1. session' = [session EXCEPT !.pc = "complete", !.handedAt = tokenClock]
      BY <1>8, <2>2 DEF Acquired
    <3>2. session' = [pc |-> "complete", memo |-> session.memo,
                      clientDomain |-> session.clientDomain, issued |-> session.issued,
                      posted |-> session.posted, subject |-> session.subject,
                      expiresAt |-> session.expiresAt, handedAt |-> tokenClock,
                      code |-> session.code]
      BY <3>1
    <3> QED BY <2>1, <2>2, <3>2
  <2>3. CASE ~(tokenClock < session.expiresAt)
    <3>1. Fail("sep10-authentication", "TOKEN_EXPIRED")
      BY <1>8, <2>3 DEF Acquired
    <3> QED BY <3>1, FailedSession
  <2> QED BY <2>2, <2>3
<1>9. CASE RequestFails
  <2>1. Fail("sep1-discovery", exchange.code) \/ ProviderFails
    BY <1>9 DEF RequestFails
  <2>2. ASSUME Fail("sep1-discovery", exchange.code) PROVE SessionInv'
    BY <2>2, FailedSession
  <2> QED BY <1>2, <2>1, <2>2
<1>10. CASE SignerThrows
  BY <1>2, <1>10 DEF SignerThrows
<1> QED BY <1>1, <1>3, <1>4, <1>5, <1>6, <1>7, <1>8, <1>9, <1>10 DEF SessionNext, SessionTick

\* Every step of an authentication starts a request, forgets one or is the request's own.
LEMMA SessionExchange ==
  ASSUME ExchangeInv, SessionNext
  PROVE  ExchangeInv'
<1>1. CASE ExchangeNext
  BY <1>1, ExchangeStep
<1>2. CASE ~ExchangeNext
  <2>1. \/ exchange' = NoExchange
        \/ \E client, expected : Request(client, expected)
        \/ UNCHANGED exchange
    <3>1. CASE FetchSep1Toml
      BY <3>1 DEF FetchSep1Toml, GoOn
    <3>2. CASE \E toml \in Tomls : Discovered(toml)
      BY <3>2 DEF Discovered, Stop, GoOn
    <3>3. CASE \E tx \in Transactions : Challenged(tx)
      BY <3>3 DEF Challenged, ProviderFails, Stop
    <3>4. CASE \E tx \in Transactions : Signed(tx)
      BY <3>4 DEF Signed, ProviderFails, Stop
    <3>5. CASE \E claims \in Claims : TokenReceived(claims)
      BY <3>5 DEF TokenReceived, ProviderFails, Stop
    <3>6. CASE SignerThrows \/ Acquired \/ RequestFails \/ SessionTick
      BY <3>6 DEF SignerThrows, Acquired, RequestFails, SessionTick, ProviderFails, Stop
    <3> QED BY <1>2, <3>1, <3>2, <3>3, <3>4, <3>5, <3>6 DEF SessionNext
  <2> QED BY <2>1, ClientStep
<1> QED BY <1>1, <1>2

\* An authentication hangs together across its three requests and the signer
\* (sep10.ts:353, auth.ts:45), for any skew of the clocks, any lifetime of the
\* token and any answers: what was posted is what the server issued, the token is
\* for whom it was asked for and had not expired when it was handed over.
THEOREM AuthenticationHangsTogether == SessionSpec => []AuthenticationIsBound
<1>1. SessionInit => SessionInv
  BY DEF SessionInit, SessionInv, SessionShape, IssuedBeforeSigning, PostedAsIssued,
         SubjectAsExpected, HandedInTime
<1>2. SessionInv /\ [SessionNext]_sessionVars => SessionInv'
  <2>1. ASSUME SessionInv, UNCHANGED sessionVars PROVE SessionInv'
    BY <2>1 DEF sessionVars, SessionInv, SessionShape, IssuedBeforeSigning, PostedAsIssued,
                SubjectAsExpected, HandedInTime, ExpectedSubject
  <2> QED BY <2>1, ScriptStep
<1>3. SessionInv => AuthenticationIsBound
  BY DEF SessionInv, AuthenticationIsBound, IssuedBeforeSigning, PostedAsIssued,
         SubjectAsExpected, HandedInTime
<1> QED BY <1>1, <1>2, <1>3, PTL DEF SessionSpec

\* A request of an authentication that was given up yields no data, whenever its
\* timer fired (sep1.ts:203, sep10.ts:453).
THEOREM SessionTakesNoLateAnswer == SessionSpec => []NoAnswerAfterTimeout
<1>1. SessionInit => ExchangeInv
  BY DEF SessionInit, NoExchange, ExchangeInv, ExchangeShape, WireIsUnaborted, FailureHasCode
<1>2. ExchangeInv /\ [SessionNext]_sessionVars => ExchangeInv'
  BY SessionExchange, ClientStep DEF sessionVars
<1>3. ExchangeInv => NoAnswerAfterTimeout
  BY DEF ExchangeInv, WireIsUnaborted, NoAnswerAfterTimeout
<1> QED BY <1>1, <1>2, <1>3, PTL DEF SessionSpec

(* --------------------------------- quotes --------------------------------- *)

QuoteShape ==
  /\ quote = [pc |-> quote.pc, info |-> quote.info, left |-> quote.left, asset |-> quote.asset,
              priced |-> quote.priced, pairs |-> quote.pairs, failures |-> quote.failures,
              code |-> quote.code]
  /\ IsFiniteSet(quote.failures)

\* The asset whose prices are being asked for, and those whose prices could not be had.
Asked == IF quote.pc = "prices" THEN {quote.asset} ELSE {}
Failed == {failure[1] : failure \in quote.failures}

\* Every asset the server named is in one place.
EveryAssetHasAPlace ==
  /\ quote.info = quote.left \cup Asked \cup quote.priced \cup Failed
  /\ quote.left \cap (Asked \cup quote.priced \cup Failed) = {}
  /\ Asked \cap (quote.priced \cup Failed) = {}
  /\ quote.priced \cap Failed = {}

OneFailureEach == \A f, g \in quote.failures : f[1] = g[1] => f = g
PairsOfPriced == {pair[1] : pair \in quote.pairs} \subseteq quote.priced

\* Nothing is known before the server has said what it offers, and a discovery
\* ends well only when no asset is left.
NothingBeforeInfo ==
  quote.pc \notin {"next", "prices", "done"} =>
    quote.info = {} /\ quote.left = {} /\ quote.priced = {} /\ quote.failures = {}
NothingLeftBehind == quote.pc = "done" /\ quote.code = "ok" => quote.left = {}

QuoteInv ==
  /\ QuoteShape
  /\ EveryAssetHasAPlace /\ OneFailureEach /\ PairsOfPriced
  /\ NothingBeforeInfo /\ NothingLeftBehind

\* A call may end at any time but while prices are asked for, and well only when
\* no asset is left.
LEMMA FinishStep ==
  ASSUME QuoteInv, quote.pc # "prices", NEW code, code = "ok" => quote.left = {}, Finish(code)
  PROVE  QuoteInv'
<1>1. quote' = [pc |-> "done", info |-> quote.info, left |-> quote.left, asset |-> quote.asset,
                priced |-> quote.priced, pairs |-> quote.pairs, failures |-> quote.failures,
                code |-> code]
  BY DEF Finish, QuoteInv, QuoteShape
<1> QED BY <1>1 DEF QuoteInv, QuoteShape, EveryAssetHasAPlace, OneFailureEach, PairsOfPriced,
                    NothingBeforeInfo, NothingLeftBehind, Asked, Failed

\* A call that has not heard of any asset may go on to another phase that has not.
LEMMA AskStep ==
  ASSUME QuoteInv, quote.pc \notin {"next", "prices", "done"},
         NEW pc, pc \notin {"next", "prices", "done"}, quote' = [quote EXCEPT !.pc = pc]
  PROVE  QuoteInv'
<1>1. quote' = [pc |-> pc, info |-> quote.info, left |-> quote.left, asset |-> quote.asset,
                priced |-> quote.priced, pairs |-> quote.pairs, failures |-> quote.failures,
                code |-> quote.code]
  BY DEF QuoteInv, QuoteShape
<1> QED BY <1>1 DEF QuoteInv, QuoteShape, EveryAssetHasAPlace, OneFailureEach, PairsOfPriced,
                    NothingBeforeInfo, NothingLeftBehind, Asked, Failed

\* The failure of an asset is its only one.
LEMMA RecordFailureStep ==
  ASSUME QuoteInv, quote.pc = "prices", NEW code, quote' = RecordFailure(code)
  PROVE  QuoteInv'
<1> DEFINE failure == <<quote.asset, code>>
<1>1. quote' = [pc |-> "next", info |-> quote.info, left |-> quote.left, asset |-> quote.asset,
                priced |-> quote.priced, pairs |-> quote.pairs,
                failures |-> quote.failures \cup {failure}, code |-> quote.code]
  BY DEF RecordFailure, QuoteInv, QuoteShape
<1>2. quote.asset \notin Failed /\ Asked = {quote.asset}
  BY DEF QuoteInv, EveryAssetHasAPlace, Asked
<1>3. failure[1] = quote.asset
  OBVIOUS
<1> HIDE DEF failure
<1>4. QuoteShape'
  BY <1>1, FS_AddElement DEF QuoteInv, QuoteShape
<1>5. Failed' = Failed \cup {quote.asset} /\ Asked' = {}
  BY <1>1, <1>3 DEF Failed, Asked
<1>6. EveryAssetHasAPlace'
  BY <1>1, <1>2, <1>5 DEF QuoteInv, EveryAssetHasAPlace
<1>7. OneFailureEach'
  BY <1>1, <1>2, <1>3 DEF QuoteInv, OneFailureEach, Failed
<1> QED BY <1>1, <1>4, <1>6, <1>7 DEF QuoteInv, PairsOfPriced, NothingBeforeInfo, NothingLeftBehind

\* The prices of an asset come after its request and before any other of its own.
LEMMA RecordPricesStep ==
  ASSUME QuoteInv, quote.pc = "prices", NEW document, quote' = RecordPrices(document)
  PROVE  QuoteInv'
<1> DEFINE pairs == {quote.asset} \X Named(document)
<1>1. quote' = [pc |-> "next", info |-> quote.info, left |-> quote.left, asset |-> quote.asset,
                priced |-> quote.priced \cup {quote.asset}, pairs |-> quote.pairs \cup pairs,
                failures |-> quote.failures, code |-> quote.code]
  BY DEF RecordPrices, QuoteInv, QuoteShape
<1>2. \A pair \in pairs : pair[1] = quote.asset
  OBVIOUS
<1> HIDE DEF pairs
<1>3. QuoteShape'
  BY <1>1 DEF QuoteInv, QuoteShape
<1>4. Failed' = Failed /\ Asked = {quote.asset} /\ Asked' = {}
  BY <1>1 DEF Failed, Asked
<1>5. EveryAssetHasAPlace'
  BY <1>1, <1>4 DEF QuoteInv, EveryAssetHasAPlace
<1>6. PairsOfPriced'
  BY <1>1, <1>2 DEF QuoteInv, PairsOfPriced
<1> QED BY <1>1, <1>3, <1>5, <1>6 DEF QuoteInv, OneFailureEach, NothingBeforeInfo, NothingLeftBehind

\* Every step of the client keeps each asset in its place.
LEMMA QuoteStep ==
  ASSUME QuoteInv, FailureHasCode, [QuoteNext]_quoteVars
  PROVE  QuoteInv'
<1>1. CASE UNCHANGED quote
  BY <1>1 DEF QuoteInv, QuoteShape, EveryAssetHasAPlace, OneFailureEach, PairsOfPriced,
              NothingBeforeInfo, NothingLeftBehind, Asked, Failed
<1>2. ASSUME NEW code, quote.pc \notin {"next", "prices", "done"}, Finish(code)
      PROVE  QuoteInv'
  <2>1. quote.left = {}
    BY <1>2 DEF QuoteInv, NothingBeforeInfo
  <2> QED BY <1>2, <2>1, FinishStep
<1>3. ASSUME NEW pc \in {"info", "offer", "firm", "stored_firm"}, NEW expected, NEW url, NEW verdict,
             Call(pc, expected, url, verdict)
      PROVE  QuoteInv'
  <2>1. quote.pc = "idle"
    BY <1>3 DEF Call
  <2>2. \/ Finish("INVALID_QUOTE_SERVER") \/ Finish(verdict)
        \/ quote' = [quote EXCEPT !.pc = pc]
    BY <1>3 DEF Call, Ask
  <2> QED BY <1>2, <2>1, <2>2, AskStep
<1>4. CASE \E url \in Url : GetSep38Info(url)
  BY <1>3, <1>4 DEF GetSep38Info
<1>5. CASE \E url \in Url, defects \in WithADefect(PricesRequestChecks) : GetSep38Prices(url, defects)
  BY <1>3, <1>5 DEF GetSep38Prices
<1>6. CASE \E url \in Url, authentication \in Authentications :
             \/ \E id \in QuoteIds : GetSep38FirmQuote(id, url, authentication)
             \/ \E defects \in WithADefect(FirmRequestChecks \o OptionalFieldChecks) :
                  RequestSep38FirmQuote(url, defects, authentication)
  <2>1. PICK url \in Url, authentication \in Authentications :
          \/ \E id \in QuoteIds : GetSep38FirmQuote(id, url, authentication)
          \/ \E defects \in WithADefect(FirmRequestChecks \o OptionalFieldChecks) :
               RequestSep38FirmQuote(url, defects, authentication)
    BY <1>6
  <2>2. CASE \E defects \in WithADefect(FirmRequestChecks \o OptionalFieldChecks) :
               RequestSep38FirmQuote(url, defects, authentication)
    BY <1>3, <2>2 DEF RequestSep38FirmQuote
  <2>3. CASE \E id \in QuoteIds : GetSep38FirmQuote(id, url, authentication)
    <3>1. \/ Call("stored_firm", 200, url, RequireAuthentication(authentication))
          \/ quote.pc = "idle" /\ Finish("INVALID_REQUEST")
      BY <2>3 DEF GetSep38FirmQuote
    <3> QED BY <1>2, <1>3, <3>1
  <2> QED BY <2>1, <2>2, <2>3
<1>7. CASE \E document \in Documents(InfoChecks) : InfoArrives(document)
  <2>1. PICK document \in Documents(InfoChecks) : InfoArrives(document)
    BY <1>7
  <2>2. quote.pc = "info"
    BY <2>1 DEF InfoArrives, QuoteAnswered
  <2>3. CASE Finish(ParseEntries(InfoChecks, document))
    BY <1>2, <2>2, <2>3
  <2>4. CASE quote' = [quote EXCEPT !.pc = "next", !.info = Named(document), !.left = Named(document)]
    <3>1. quote' = [pc |-> "next", info |-> Named(document), left |-> Named(document),
                    asset |-> quote.asset, priced |-> quote.priced, pairs |-> quote.pairs,
                    failures |-> quote.failures, code |-> quote.code]
      BY <2>4 DEF QuoteInv, QuoteShape
    <3>2. quote.priced = {} /\ quote.failures = {}
      BY <2>2 DEF QuoteInv, NothingBeforeInfo
    <3>3. Failed' = {} /\ Asked' = {}
      BY <3>1, <3>2 DEF Failed, Asked
    <3>4. EveryAssetHasAPlace'
      BY <3>1, <3>2, <3>3 DEF EveryAssetHasAPlace
    <3> QED BY <3>1, <3>4 DEF QuoteInv, QuoteShape, OneFailureEach, PairsOfPriced,
                              NothingBeforeInfo, NothingLeftBehind
  <2> QED BY <2>1, <2>3, <2>4 DEF InfoArrives
<1>8. CASE AskForPrices
  <2>1. quote.pc = "next"
    BY <1>8 DEF AskForPrices
  <2>2. CASE quote.left = {}
    BY <1>8, <2>1, <2>2, FinishStep DEF AskForPrices
  <2>3. CASE quote.left # {}
    <3>1. PICK asset \in quote.left :
            quote' = [quote EXCEPT !.pc = "prices", !.asset = asset, !.left = @ \ {asset}]
      BY <1>8, <2>3 DEF AskForPrices
    <3>2. quote' = [pc |-> "prices", info |-> quote.info, left |-> quote.left \ {asset},
                    asset |-> asset, priced |-> quote.priced, pairs |-> quote.pairs,
                    failures |-> quote.failures, code |-> quote.code]
      BY <3>1 DEF QuoteInv, QuoteShape
    <3>3. Failed' = Failed /\ Asked = {} /\ Asked' = {asset}
      BY <2>1, <3>2 DEF Failed, Asked
    <3>4. EveryAssetHasAPlace'
      BY <3>1, <3>2, <3>3 DEF QuoteInv, EveryAssetHasAPlace
    <3> QED BY <3>2, <3>4 DEF QuoteInv, QuoteShape, OneFailureEach, PairsOfPriced,
                              NothingBeforeInfo, NothingLeftBehind
  <2> QED BY <2>2, <2>3
<1>9. CASE \E document \in Documents(PricesChecks) : PricesArrive(document)
  BY <1>9, RecordPricesStep, RecordFailureStep DEF PricesArrive, QuoteAnswered
<1>10. CASE \E document \in Documents(PricesChecks), wanted \in QuoteAssets :
              OfferArrives(document, wanted)
  <2>1. PICK document \in Documents(PricesChecks), wanted \in QuoteAssets :
          OfferArrives(document, wanted)
    BY <1>10
  <2>2. quote.pc = "offer"
    BY <2>1 DEF OfferArrives, QuoteAnswered
  <2>3. \/ Finish(ParseEntries(PricesChecks, document)) \/ Finish("PAIR_NOT_ADVERTISED")
        \/ quote' = [quote EXCEPT !.pc = "price"]
    BY <2>1 DEF OfferArrives, Ask
  <2> QED BY <1>2, <2>2, <2>3, AskStep
<1>11. CASE \E defects \in WithADefect(PriceChecks) : PriceArrives(defects)
  BY <1>2, <1>11 DEF PriceArrives, QuoteAnswered
<1>12. CASE \E document \in FirmQuotes : FirmQuoteArrives(document)
  BY <1>2, <1>12 DEF FirmQuoteArrives, QuoteAnswered
<1>13. CASE QuoteRequestFails
  <2>1. exchange.code # "ok"
    BY <1>13 DEF QuoteRequestFails, FailureHasCode
  <2>2. CASE quote.pc = "prices"
    BY <1>13, <2>2, RecordFailureStep DEF QuoteRequestFails
  <2>3. CASE quote.pc # "prices"
    BY <1>13, <2>1, <2>3, FinishStep DEF QuoteRequestFails
  <2> QED BY <2>2, <2>3
<1> QED BY <1>1, <1>4, <1>5, <1>6, <1>7, <1>8, <1>9, <1>10, <1>11, <1>12, <1>13
        DEF QuoteNext, quoteVars

\* Every step of the client starts a request, forgets one or is the request's own.
LEMMA QuoteExchange ==
  ASSUME ExchangeInv, [QuoteNext]_quoteVars
  PROVE  ExchangeInv'
<1>1. CASE ExchangeNext
  BY <1>1, ExchangeStep
<1>2. CASE ~ExchangeNext
  <2>1. \/ exchange' = NoExchange
        \/ \E client, expected : Request(client, expected)
        \/ UNCHANGED exchange
    <3>1. ASSUME NEW pc, NEW expected, NEW url, NEW verdict, Call(pc, expected, url, verdict)
          PROVE  (\E client, status : Request(client, status)) \/ UNCHANGED exchange
      BY <3>1 DEF Call, Ask
    <3>2. CASE \E url \in Url : GetSep38Info(url)
      BY <3>1, <3>2 DEF GetSep38Info
    <3>3. CASE \E url \in Url, defects \in WithADefect(PricesRequestChecks) :
                 GetSep38Prices(url, defects)
      BY <3>1, <3>3 DEF GetSep38Prices
    <3>4. CASE \E url \in Url, authentication \in Authentications :
                 \/ \E id \in QuoteIds : GetSep38FirmQuote(id, url, authentication)
                 \/ \E defects \in WithADefect(FirmRequestChecks \o OptionalFieldChecks) :
                      RequestSep38FirmQuote(url, defects, authentication)
      BY <3>1, <3>4 DEF GetSep38FirmQuote, RequestSep38FirmQuote
    <3>5. CASE \E document \in Documents(InfoChecks) : InfoArrives(document)
      BY <3>5 DEF InfoArrives, Hang
    <3>6. CASE AskForPrices
      BY <3>6 DEF AskForPrices
    <3>7. CASE \E document \in Documents(PricesChecks) : PricesArrive(document)
      BY <3>7 DEF PricesArrive, Hang
    <3>8. CASE \E document \in Documents(PricesChecks), wanted \in QuoteAssets :
                 OfferArrives(document, wanted)
      BY <3>8 DEF OfferArrives, Ask, Hang
    <3>9. CASE (\E defects \in WithADefect(PriceChecks) : PriceArrives(defects))
                 \/ (\E document \in FirmQuotes : FirmQuoteArrives(document))
                 \/ QuoteRequestFails
      BY <3>9 DEF PriceArrives, FirmQuoteArrives, QuoteRequestFails, Hang
    <3> QED BY <1>2, <3>2, <3>3, <3>4, <3>5, <3>6, <3>7, <3>8, <3>9 DEF QuoteNext, quoteVars
  <2> QED BY <2>1, ClientStep
<1> QED BY <1>1, <1>2

\* One failure each makes as many failures as assets that failed.
LEMMA FailuresCountAssets ==
  ASSUME QuoteShape, OneFailureEach
  PROVE  Cardinality(quote.failures) = Cardinality(Failed)
<1> DEFINE asset == [failure \in quote.failures |-> failure[1]]
<1>1. asset \in Bijection(quote.failures, Failed)
  BY DEF OneFailureEach, Failed, Bijection, Injection, Surjection, IsInjective
<1>2. ExistsBijection(quote.failures, Failed)
  BY <1>1 DEF ExistsBijection
<1> QED BY <1>2, FS_Bijection DEF QuoteShape

\* What a discovery reports accounts for every asset of the server (sep38.ts:321),
\* whatever the server names, in whichever order the assets are asked for and
\* whichever of the requests fail.
THEOREM CapabilitiesAreAccounted == QuoteSpec => []CapabilitiesAccounted
<1> DEFINE Inv == ExchangeInv /\ QuoteInv
<1>1. QuoteInit => Inv
  BY FS_EmptySet DEF QuoteInit, NoExchange, ExchangeInv, ExchangeShape, WireIsUnaborted,
         FailureHasCode, QuoteInv, QuoteShape, EveryAssetHasAPlace, OneFailureEach, PairsOfPriced,
         NothingBeforeInfo, NothingLeftBehind, Asked, Failed
<1>2. Inv /\ [QuoteNext]_quoteVars => Inv'
  BY QuoteExchange, QuoteStep DEF ExchangeInv
<1>3. Inv => CapabilitiesAccounted
  <2> SUFFICES ASSUME Inv, quote.pc = "done", quote.code = "ok" PROVE CapabilitiesAccounted
    BY DEF CapabilitiesAccounted
  <2>1. quote.left = {} /\ Asked = {}
    BY DEF QuoteInv, NothingLeftBehind, Asked
  <2>2. quote.priced \cup Failed = quote.info /\ quote.priced \cap Failed = {}
    BY <2>1 DEF QuoteInv, EveryAssetHasAPlace
  <2>3. Cardinality(quote.failures) = Cardinality(Failed)
    BY FailuresCountAssets DEF QuoteInv
  <2> QED BY <2>2, <2>3 DEF QuoteInv, PairsOfPriced, CapabilitiesAccounted, Failed
<1> HIDE DEF Inv
<1> QED BY <1>1, <1>2, <1>3, PTL DEF QuoteSpec

\* A request for a quote that was given up yields no data, whenever its timer
\* fired (sep38.ts:645).
THEOREM QuoteTakesNoLateAnswer == QuoteSpec => []NoAnswerAfterTimeout
<1>1. QuoteInit => ExchangeInv
  BY DEF QuoteInit, NoExchange, ExchangeInv, ExchangeShape, WireIsUnaborted, FailureHasCode
<1>2. ExchangeInv /\ [QuoteNext]_quoteVars => ExchangeInv'
  BY QuoteExchange
<1>3. ExchangeInv => NoAnswerAfterTimeout
  BY DEF ExchangeInv, WireIsUnaborted, NoAnswerAfterTimeout
<1> QED BY <1>1, <1>2, <1>3, PTL DEF QuoteSpec
===============================================================================
