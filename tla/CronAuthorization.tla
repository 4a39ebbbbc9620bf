--------------------------- MODULE CronAuthorization ---------------------------
(***************************************************************************)
(* The secret of the scheduled refresh and its rotation                    *)
(* (lib/scheduled/cronAuth.ts), and the time a call carries                *)
(* (cronTimestamp.ts, http.ts).  What the operators deploy is external and *)
(* is the procedure of docs/DEPLOYMENT.md, with its mistakes: the two      *)
(* variables of a rotation are set and removed, the scheduler follows.     *)
(* Secrets are numbered as they are made.                                  *)
(***************************************************************************)
EXTENDS Integers

CONSTANTS
  RotationWindow, \* the deadline an operator sets, from the deployment
  AllowedSkew,    \* DEFAULT_CRON_TIMESTAMP_SKEW_MS
  MaxCronTime     \* bound on the clock and on the secrets

ASSUME CronAssumption ==
  RotationWindow \in Nat /\ AllowedSkew \in Nat /\ MaxCronTime \in Nat

VARIABLES
  hour,       \* the clock of the application
  deployed,   \* the variables it is meant to run with
  mistake,    \* what is wrong with the deployment, or "none"
  scheduler,  \* the secret the scheduler presents
  call,       \* a call it has sent, which may arrive late and more than once
  revoked,    \* history: the secrets a deployment dropped or a deadline ended
  lastRun     \* history: the call that ran last, and when

cronVars == <<hour, deployed, mistake, scheduler, call, revoked, lastRun>>

Unset == -2
Malformed == -1
Secrets == 1 .. MaxCronTime + 1
Unstamped == -10
NoCall == [secret |-> Unset, stamp |-> Unstamped]

CronInit ==
  /\ hour = 0
  /\ deployed = [primary |-> 1, previous |-> Unset, until |-> Unset]
  /\ mistake = "none"
  /\ scheduler = 1
  /\ call = NoCall
  /\ revoked = {}
  /\ lastRun = [call |-> NoCall, at |-> 0, revoked |-> {}]

(* -------------------------------- decisions -------------------------------- *)

\* The variables as the application finds them.
Environment ==
  CASE mistake = "blank_primary" -> [deployed EXCEPT !.primary = Unset]
    [] mistake = "duplicate" -> [deployed EXCEPT !.previous = deployed.primary, !.until = MaxCronTime]
    [] mistake = "no_deadline" -> [deployed EXCEPT !.until = Unset]
    [] mistake = "malformed_deadline" -> [deployed EXCEPT !.until = Malformed]
    [] OTHER -> deployed

\* resolveCronRotation does not throw.
RotationIsConfigured(env) ==
  /\ env.primary # Unset
  /\ env.previous # env.primary
  /\ env.previous # Unset => env.until # Unset
  /\ env.until # Malformed

\* Mutant: the deadline is let in.
OverlapAtDeadline(env, now) == env.previous # Unset /\ env.until >= now

OverlapActive(env, now) == env.previous # Unset /\ env.until > now

\* hasValidCronAuthorization.
Authenticates(secret) ==
  /\ RotationIsConfigured(Environment)
  /\ \/ secret = Environment.primary
     \/ OverlapActive(Environment, hour) /\ secret = Environment.previous

\* evaluateCronTimestamp, of a call that carries a time.
WithinWindow(stamp) == stamp = Unstamped \/ stamp \in hour - AllowedSkew .. hour + AllowedSkew

(* --------------------------------- actions --------------------------------- *)

Expired(now) == IF deployed.previous # Unset /\ deployed.until <= now THEN {deployed.previous} ELSE {}

CronTick ==
  /\ hour < MaxCronTime
  /\ hour' = hour + 1
  /\ revoked' = revoked \cup Expired(hour + 1)
  /\ UNCHANGED <<deployed, mistake, scheduler, call, lastRun>>

\* A planned rotation begins once the last one is over.
DeployRotation ==
  /\ deployed.previous = Unset /\ scheduler = deployed.primary
  /\ deployed.primary + 1 \in Secrets
  /\ deployed' = [primary |-> deployed.primary + 1, previous |-> deployed.primary,
                  until |-> hour + RotationWindow]
  /\ revoked' = revoked \cup IF RotationWindow = 0 THEN {deployed.primary} ELSE {}
  /\ mistake' \in {"none", "blank_primary", "duplicate", "no_deadline", "malformed_deadline"}
  /\ UNCHANGED <<hour, scheduler, call, lastRun>>

CutOver ==
  /\ scheduler # deployed.primary
  /\ scheduler' = deployed.primary
  /\ UNCHANGED <<hour, deployed, mistake, call, revoked, lastRun>>

\* Both variables are removed, or the deadline is left behind.
RemovePrevious ==
  /\ deployed.previous # Unset /\ scheduler = deployed.primary
  /\ \E until \in {Unset, deployed.until} :
       deployed' = [deployed EXCEPT !.previous = Unset, !.until = until]
  /\ mistake' = "none"
  /\ revoked' = revoked \cup {deployed.previous}
  /\ UNCHANGED <<hour, scheduler, call, lastRun>>

\* The primary is known to others: a fresh one, and no previous slot.
ReplaceCompromised ==
  /\ deployed.primary + 1 \in Secrets
  /\ deployed' = [primary |-> deployed.primary + 1, previous |-> Unset, until |-> Unset]
  /\ mistake' = "none"
  /\ revoked' = revoked \cup ({deployed.primary, deployed.previous} \ {Unset})
  /\ UNCHANGED <<hour, scheduler, call, lastRun>>

CorrectMistake ==
  /\ mistake # "none"
  /\ mistake' = "none"
  /\ UNCHANGED <<hour, deployed, scheduler, call, revoked, lastRun>>

\* The clock of the scheduler is not quite that of the application.
SendCall ==
  /\ \E stamp \in {Unstamped} \cup (hour - 1 .. hour + 1) :
       call' = [secret |-> scheduler, stamp |-> stamp]
  /\ UNCHANGED <<hour, deployed, mistake, scheduler, revoked, lastRun>>

CallArrives ==
  /\ call # NoCall
  /\ Authenticates(call.secret) /\ WithinWindow(call.stamp)
  /\ lastRun' = [call |-> call, at |-> hour, revoked |-> revoked]
  /\ UNCHANGED <<hour, deployed, mistake, scheduler, call, revoked>>

CronNext ==
  \/ CronTick \/ DeployRotation \/ CutOver \/ RemovePrevious \/ ReplaceCompromised \/ CorrectMistake
  \/ SendCall \/ CallArrives

(* -------------------------------- property --------------------------------- *)

\* A rotation neither shuts the scheduler out nor keeps an old secret: whoever
\* follows the procedure is let in until the deadline, a scheduler that is shut
\* out has missed it, holds a secret that was replaced, or meets a mistake; a
\* mistake lets nobody in; and no call ran with a secret that had ended, or
\* later than the skew after the time it carried, however late it arrived.
RotationIsBounded ==
  /\ mistake = "none" => Authenticates(scheduler) \/ scheduler \in revoked
  /\ mistake # "none" => \A s \in Secrets : ~Authenticates(s)
  /\ \A s \in revoked : ~Authenticates(s)
  /\ lastRun.call.secret \notin lastRun.revoked
  /\ lastRun.call.stamp # Unstamped => lastRun.at <= lastRun.call.stamp + AllowedSkew
===============================================================================
