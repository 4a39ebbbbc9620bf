# A formal model of StellarCore

This directory holds TLA+ specifications of StellarCore, the TLC configurations
that model-check them on small instances, and TLAPS proofs that some of their
properties hold for every value of the constants. `PROJECT.json` lists the
components of the system, the runs, the theorems, the lines of the source each
definition translates, and the hazards the properties are for.

## The system

StellarCore keeps evidence about Stellar anchors: which anchors exist and
answer (SEP-1), what rates they quote (SEP-38), and how well transfers went.
Three writers and one family of readers share a PostgreSQL database.

| Component | State | Operations | Talks to |
|---|---|---|---|
| Scheduled refresh (`lib/scheduled/refresh.ts`, `http.ts`) | none between requests; a cycle's summary | one cycle per cron request: rate run, recording of deterministic failures, reputation run | rate engine, suppression store, reputation run |
| Rate engine (`lib/rates/rateEngine.ts`, `snapshotRun.ts`, `liveRateSource.ts`, `snapshot.ts`) | `rate_snapshots` (insert only) | list suppressed, prepare, then quote, normalize, persist per candidate | anchors over HTTP, the database |
| Suppression store (`lib/scheduled/suppression*.ts`, `scripts/reactivate-scheduled-source.ts`) | `scheduled_source_suppressions` | record a deterministic failure, reactivate, list | the database |
| Reputation (`lib/reputation/*`) | `reputation_scores` | read evidence in one snapshot, compute, guarded upsert | the database |
| Anchor and corridor synchronization (`lib/stellar/anchorSync.ts`, `corridorSync.ts`, `scripts/bootstrap-registry.ts`) | `anchors`, `corridors`, `anchor_corridors`, a sequence | discover and write anchor by anchor | anchors over HTTP, the database |
| Anchor health (`lib/stellar/anchorHealth.ts`) | an evidence record per anchor | apply an outcome, publish a status | callers |
| Advisory lock (`lib/scheduled/advisoryLock*.ts`) | a PostgreSQL session lock | `withAdvisoryLock` | the pool |
| Upstream clients (`lib/stellar/sep1.ts`, `sep10.ts`, `sep38.ts`, `retry.ts`, `outboundEgress.ts`) | none | requests with retries and a deadline | anchors |
| Database access (`lib/dbClient.ts`, `lib/db/*`, `lib/config/environmentGuardDb.ts`) | the pool, a cached verification | connect, verify, retry, classify errors | PostgreSQL |
| Public API (`lib/api/*`, `app/api`) | stale-evidence files, rate-limit table | read models, cursors, fallback to a stale response | the database, the file system |
| Dashboard (`lib/dashboard/*`, `components/dashboard`) | panel states | polling, navigation | the public API |
| Integrity audit, export, backup and restore, configuration, tooling | files and reports | one-shot commands | the database, the file system |

What is hard here is what nobody excludes. No lock is wired into the scheduled
refresh, so cycles overlap with one another, with operators and with bootstrap
jobs; every read that is followed by a write is a race; every statement can
commit and lose its answer; and a process can die between any two awaits.
What each component must get right:

- *Suppression store*: rows stay coherent, no suppression without the failures
  it stands for, a source that keeps failing is in the end suppressed, and a
  reactivation means something.
- *Refresh and rate engine*: what is counted as succeeded is in the table,
  nothing is stored twice, transient failures never suppress, suppressed sources
  are left alone, and `ok` is true. A call gets in with a current secret, and
  with an old one only until its deadline.
- *Reputation*: scores only move to later evaluations, rest on the evidence of
  one moment, and never fall because something got better.
- *Synchronization, audit, reconciliation*: older evidence never replaces newer,
  what a job reports is true, an undisturbed bootstrap leaves nothing to repair,
  an audit accuses nobody of what was never so and passes over nothing, and no
  repair that is called safe takes evidence away.
- *Advisory lock*: bodies exclude each other while their sessions live, nothing
  is leaked unaccounted, the caller gets the outcome of its body.
- *Upstream clients*: no data from a request that was given up, no retry after
  the deadline, a token that belongs to its challenge, no asset unaccounted for;
  an anchor changes its status on repeated evidence only.
- *Database access*: a process writes evidence to the database of its own
  environment only, over the channel its environment demands, and no commit is
  denied.
- *Stale evidence*: what is served in place of the database was once its answer,
  not long ago; the storage never stands between the database and its answer.
- *Dashboard*: a dashboard that is shown is refreshed, once per interval, and
  never moves back.
- *Operators' tools*: "verified", "reproducible", "restored" are said only of
  what is, and a backup opens while its key may still be used.

## The modules

| Module | Models | Builds on |
|---|---|---|
| `Suppression` | the suppression store | |
| `ScheduledRefresh` | cycles with everything they call | `Suppression`, as the instance `Sup` |
| `AnchorRegister` | what the anchors table promises (abstract) | |
| `AnchorSync` | `syncAnchorRegistry` as concurrent jobs run it | `AnchorRegister`, as the instance `Register` |
| `AdvisoryLock` | `withAdvisoryLock` over a pool | |
| `StaleEvidence` | the snapshot files of the public API and the requests that use them | |
| `Checks` | validation as a list of conditions in a fixed order | |
| `UpstreamHttp` | one outbound request: egress policy, timers, the order in which a response is judged | `Checks` |
| `SepRetry` | the retry loop, its deadline and its callers' signals | |
| `AnchorSession` | discovery, SEP-10 authentication, the token | `UpstreamHttp` |
| `QuoteClient` | SEP-38 capabilities, rate candidates, firm quotes | `UpstreamHttp` |
| `AnchorHealth` | the published status of an anchor | |
| `RegistrySync` | corridors and associations under bootstraps, captures, an audit, a reconciliation | |
| `ReputationStore` | one anchor's evaluation, statement by statement | |
| `Dashboard` | the poller, a panel, the chart | |
| `Configuration` | what a process makes of its environment variables | `Checks` |
| `DatabaseAccess` | a process from its start to its first write, and the stamp of the database | `Configuration` |
| `SafeTransaction` | transactions, the pool and the probe while servers fail over | |
| `CronAuthorization` | the secret of the refresh through its rotations | |
| `RestoreDrill` | the restore drill, command by command | `Checks` |
| `EvidenceExport` | an export while rows are inserted, and its verification | `Checks` |
| `BackupGuards` | which key opens a backup, and whether a migration may rely on one | |
| `InstallReproducibility` | the comparison of two installs with the lockfile | |
| `Release` | a release's two files and their verification | |
| `SuppressionProofs`, `AnchorSyncProofs`, `AdvisoryLockProofs`, `StaleEvidenceProofs` | theorems | the module of the name |
| `RefreshProofs` | theorems | `ScheduledRefresh` |
| `OperationsProofs` | theorems | `MCOperations`, for what they say of all its parts |
| `UpstreamProofs` | theorems | `SepRetry`, `AnchorHealth`, `AnchorSession`, `QuoteClient` |
| `ReadSideProofs` | theorems | `RegistrySync`, `ReputationStore`, `Dashboard` |
| `MCReadSide` | `RegistrySync`, `ReputationStore`, `Dashboard` side by side | these |
| `MCOperations` | `DatabaseAccess`, `SafeTransaction`, `SepRetry`, `AnchorHealth`, `AnchorSession`, `QuoteClient`, `RestoreDrill`, `EvidenceExport`, `BackupGuards`, `CronAuthorization`, `InstallReproducibility`, `Release` side by side | these |
| other `MC...` | values and symmetry for TLC | the module of the name |

Two MC modules hold several components that share no state. Their variable
`part` says which of them a behaviour is about; the others rest in their initial
states. That is a union of state spaces and not a product, and a property speaks of
the part it is named for and is evaluated in every state.

An action is what the code does between two points where another process can
act: an `await` of a database statement or of the network. Constants that start
with `Max` bound the state space and model nothing. A definition whose comment
starts with "Mutant" or says "as it must not be" is a faulty variant of the one
below it; no specification uses it, and `PROJECT.json` says which property it would break.

**Suppression.** `rows[s]` is the row of a source, or `None`. A recording is
`RecordRead` (the `findUnique`) and `RecordWrite` (the upsert of values computed
from what was read, and the commit); `RecordAbort` is every way the transaction
fails. The isolation level is PostgreSQL's default, READ COMMITTED, so nothing
detects that the row changed in between. The operator's script is `ReactivateRead` and
`ReactivateWrite`, an update by id without a condition. `recorded` and
`credited` are history: they count commits and decide nothing.

**ScheduledRefresh.** `cycle[c]` is the local state of the cycle a process runs,
and `pc` names the await it is at: `list`, `rates` (at the first of
the positions `todo`, or recording failures once there is none), `persist`, `evaluate`. An
observation is its source, its run and the clock at its capture. `PersistFails`
and `UpsertFails` let a statement commit and lose its answer, `Crash` ends a
process anywhere, and `RecordFails` is the path on which `runScheduledRefresh`
catches an exception after rows were stored and reports a preparation failure.
The store takes part through the actions of `Suppression`, and the run checks
that the composition implements `Suppression!Spec`. Normalization and the
quotes themselves are a choice between success, a permanent failure and one
that is not.

**AnchorRegister and AnchorSync.** The table is, per anchor, a register that
moves only to a higher `last_sync_order`; a discovery replaces the row and a
failed discovery its status. `AnchorSync` is the code that has to achieve that:
draw a number, then per anchor discover, and write with the guarded INSERT or
the guarded UPDATE, the re-read after the one and the probe after the other.
The descriptive columns are represented by the number of the job they come from,
so that a row that mixes two jobs can be told from one that does not. Anchors
may be visited in any order, which includes the order of the registry.

**AdvisoryLock.** A slot of the pool holds a session; `depth` is how often that
session has locked the key, since PostgreSQL's session locks nest; `completed` is
what a call has come to before its cleanup, `returned` what it reports. Sessions die
at any time, statements and releases fail on live sessions at most `MaxErrors`
times, and the process may die with all its calls. The model has one process; a second
process differs only in that its calls cannot use the first one's slots.

**StaleEvidence.** `files[k]` is the snapshot of an endpoint and its parameters:
the time of the request whose response it holds, the time it was modified, and
whether it passes its verification. A request reads the clock, then the
database; a success goes on to `Compare` with the prior file, `Replace` it by
rename, `Scan` the directory and `Unlink` what is too much, each a step that
other requests can come between; a transient failure goes to `Restore`. Storage
may fail at any of these, files may be damaged and a process may die. `answered`
and `unpruned` are history.

**UpstreamHttp, AnchorSession, QuoteClient.** `exchange` is one request:
resolving, waiting for its response, with data or failed. A hostname, a URL or a
response is the set of the defects the code looks for, and `Checks` finds the
first of them in the order of the code. The timer of a request runs from its start, the
name server has a timer of its own and does not listen to the first, so an
abort can strike while a name is still being resolved. `AnchorSession` drives
three such requests and a signer through `scripts/verify-sep10.ts`; a challenge
is a record of the facts its validation asks for, and what was issued, signed and posted
is told apart by `hash`. `QuoteClient` asks for the assets of a server and then
for the prices of each; pairs, failures and priced assets are sets.

**SepRetry.** One call of `withSepRetry`: `loop` is its local state, `aborted`
what aborted the combined signal. Timers fire at their time or later and in any
order when several are due. A callback may end when it is aborted, or later, or
never. Backoff is the set of delays the jitter can choose.

**AnchorHealth.** `health` is the evidence record; `recent` is history, the
last three observations. Times of observations need not grow, since jobs report
when they end. The thresholds are constants; the run has those of
`constants/anchorHealth.ts`, the window in ticks. `ChangesAreEarned` is what the
code keeps; that it is less than its comments say is the subject of two runs of
their own, `DeterministicDownIsConsecutive` and `OneTransientChangesNothing`.

**RegistrySync.** `tables` is what is committed. A bootstrap job runs its
anchors (as one step: `AnchorSync` has the detail), its corridors one by one, and per anchor
a transaction that deletes and then creates associations; a statement waits for
rows another transaction has deleted or inserted. A capture looks up the
association of its quote and then inserts; its time is of a clock that may be
ahead of the database's (`ClockSkews`). An audit takes its time, then reads
its tables one by one in any order and in no transaction; `during` is history,
the associations that were there at every and at some moment of it. The reconciliation is
a function of a registry and the tables (`Issues`, `RepairPlan`), evaluated in
every state.

**ReputationStore.** `facts` is the evidence about one anchor, which changes as
it is read; `evaluation[e]` opens a snapshot, reads the anchor and then rates and outcomes in
any order, may fail and start again up to three times, computes the score and
upserts it with one statement. That statement's `SELECT` sees its own snapshot
(`seen`) while its `INSERT ... ON CONFLICT` decides about the current row. The
arithmetic of the score, with its roundings, is that of `score.ts`.

**Dashboard.** The poller's `timer`, `refreshing` and `running` under starts,
stops and changes of visibility; a panel that starts `loading` with nothing asked
and folds loads into the one in flight, whose answer is published (`PanelAnswers`) a step
before it is no longer in flight (`PanelSettles`); the chart's `generation`, which
only the newest request may publish under, and which leaving the screen moves whether
the chart waits or not. The `failure` a `CorridorRateHistoryChart` keeps beside that
state is rendering and not modelled.

**Configuration, DatabaseAccess.** `Configuration` is the chain of decisions from
environment variables to a refusal or a channel to the database, as operators.
`DatabaseAccess` runs it: a server or a script is configured, checked against
its fingerprint, opens the database, and verifies the stamp once for all callers;
stamp scripts run beside it, overlap, and lose connections. `Write` stands for
the writers of evidence (snapshots, scores, registry rows), which wait for that
verification, and `WriteSuppression` for the suppression repository, which does not:
it may write to a database of another environment, and `strayed` remembers it.

**SafeTransaction.** `tx` has both sides of a transaction: the tracker's phase,
what the server did and what the caller was told. A failover kills every
connection; the server decides a commit it received although the client is
gone. An error has a code, a cause and a driver error, each of which may or may
not say that the connection was lost. The probe's query outlives its deadline and
keeps its connection.

**CronAuthorization.** `deployed` is what the operators mean the two variables
to be, `mistake` how they got them wrong, `scheduler` the secret calls are made
with, `revoked` (history) the secrets that have ended. A call carries a time or
none and may arrive late.

**RestoreDrill.** Every docker command exits with 0, with another code, or is
never started, in which case the promise rejects past the clean-up. `docker`
is what exists; `drill.unstarted` and `drill.untold` are history: whether a
command could not start, and containers `docker run` created although it failed.

**EvidenceExport.** `rows` grows while pages are read; `package` is the
directory, which an export that fails or dies leaves as it is and the next one
writes over. A digest is what it is the digest of. A page is any sequence that
is in order, full or complete, and leaves nothing out before its last row, of
which there is one.

**BackupGuards.** The two decisions about a backup, over keys that rotate and
backups that age, fail, lose their time or are another database's. Nothing but
unit tests calls them yet, so what takes backups and rotates keys is external. The
workflow that migrates production (`.github/workflows/deploy-production-migrations.yml`)
runs `prisma migrate deploy` behind neither the gate on backup evidence nor the guard of
reviewed refs, and no module says otherwise.

**InstallReproducibility, Release.** Decisions of single commands over the histories
that lead to them: an install has one thing wrong at a time, on its disk, in npm's
account of it, in the header of its lockfile or in its toolchain; two files of a
release come from generations that may die in between, and either may be edited. Of
what a provenance says, verification compares the digests of the lockfile and of the
SBOM; its other facts are looked at for their shape only, so an edit that keeps
the shape passes, and `ReleaseIsOfOneGeneration` says so. npm and the operators are
external and modelled from how the code uses them.

## The runs

| Run | Bounds | What it shows |
|---|---|---|
| `suppression` | 3 recorders, 1 operator, 1 source, threshold 3, 2 reactivations | Suppressions are earned by committed failures; and, with fairness, a failing source is suppressed in the end |
| `suppression_reactivation` | 2 recorders, 1 reactivation | Violated: a suppression comes back after a reactivation |
| `refresh` | 2 processes, 3 cycles, 1 source listed twice, threshold 1, 1 operator, 1 clock tick | Under overlap, failures, lost answers and crashes: what succeeded is stored, `ok` is true, a suppressed source is left alone, and the store is used as specified |
| `refresh_consecutive` | 1 process, 4 cycles, threshold 3 | Violated: the failures that suppress need not be consecutive |
| `refresh_same_run` | 1 process, 1 cycle | Violated: a cycle does not use its own observations |
| `anchor_sync` | 2 jobs, 2 anchors, 3 synchronizations | The invariants of the synchronization, and that it implements `AnchorRegister` |
| `advisory_lock` | 3 calls, 2 sessions, 2 errors | Exclusion, accounting of locks and connections, that a call reports what its body and cleanup came to and the first error wins, and that waiting calls are served |
| `stale_evidence` | 2 requests, 3 keys, 2 snapshots, ages below 1 tick, 1 clock tick, 1 mishap | Stale answers are evidence and recent, the database decides, the store is bounded |
| `anchor_health_transient` | 4 observation times, thresholds of the code | Violated: one transient failure degrades a LIVE anchor |
| `health_deterministic` | the same | Violated: one deterministic failure takes a DEGRADED anchor DOWN after a success |
| `operations` | 2 callers, 2 stampers; 2 connections, 2 failovers; 3 attempts and 8 ticks for a retried call; 2 addresses; 4 observation times and 4 observations of one kind in a row; 2 ticks and 2 assets; 4 ticks of keys and backups; 3 ticks and 4 secrets of a rotation; 3 rows in pages of 2, 2 exports; 3 generations | Environments stay apart, production is authenticated, commits are not denied; no data after a timeout, no retry after an abort, status changes are earned, an authentication hangs together, capabilities are accounted for; what tools call verified is, property by property |
| `read_side` | 2 bootstraps of 2 registries, 1 capture with a clock that is right or ahead, 1 audit, 1 lost statement or job; 2 evaluations, 2 changes of evidence; 5 ticks and an interval of 2 | What an audit finds is so and what is so it finds, a lone bootstrap converges, no safe repair takes evidence away, scores rest on one moment, the poller keeps its pace and panels show the newest answer |

Why the bounds are enough. Every race in these components needs two writers to
one row, and at most a third party that changes the row between their steps:
three recorders and an operator, two cycles and an operator, two jobs of which
one starts again. Sources do not interact except in the order of a cycle, and
one source listed twice exercises the duplicate check. Threshold 1 in `refresh`
makes suppression happen within a cycle; the counting itself is checked with the
code's 3 in `suppression`. Two errors suffice to orphan a lock and lose the
connection that holds it. Time needs one tick to tell "before" from "after".
Three keys are one more than the store holds, so that a prune has to choose, and
two requests suffice to prune what the other one has just renamed into place.

In the calls of `operations`, the deadline (5) falls within the third attempt and its sleeps,
`MaxRetryAfter` exceeds the largest backoff, and the clock runs past the
deadline, so that timers are late; four observations of a kind exceed the
largest threshold, and the times exceed the window by two. In its tools three
rows make a full page and a short one; three ticks outlast a rotation of two,
four outlast key overlap and the age of backup evidence; two failovers strike the
transaction and then its pool. In `read_side` the second registry drops a
corridor, reviews the other again and moves an anchor, so that associations are
both deleted and created; the bootstraps overlap each other in one part and the
audit in another, since the audit only reads. The outcomes start two below the
minimum, so that a score becomes possible while evidence is being read. Inputs
of a validation have no defect or one; that the first of two decides is the order
of the list in `Checks`, which is the order of the code.

Deadlock is checked in `suppression` and `stale_evidence`; elsewhere the bounds
on runs, clocks or numbers, commands that end, and in `advisory_lock` an
exhausted pool, let a behaviour end. The type invariants of `ScheduledRefresh`
and `StaleEvidence` document the domains of the variables and are in no run, since
every other property there would fail on a value out of its domain; those of
`Suppression` and `AnchorSync` are proved (`TypeCorrect`).

**Fairness.** `suppression`: recordings of a source that is not suppressed keep
starting, and their commits keep succeeding, each infinitely often enabled and
so eventually taken (strong fairness). That is the cron schedule and a database that does not
fail every commit; without either, nothing in the code would promise a
suppression. `advisory_lock`: a call that can proceed does (weak fairness: a
body ends), and a waiting call is served if slots keep coming free (strong
fairness: pg's queue is first come, first served).

**The five divergences.** Each is a statement of the repository about the
program that the code, read line by line, does not keep. A reactivation can be undone by a
recording in flight; "three consecutive failures" is three failures since the
last reactivation, whatever succeeded between them; the order of ingestion
and evaluation does not let an evaluation use the observations of its own run,
because it is dated at the start of the cycle; one transient failure does
publish DEGRADED when an older one, from before the last success, starts its
window; and a DEGRADED anchor goes DOWN on a single deterministic failure, where
a comment asks for two in a row (another comment, at the branch itself, agrees with
the code). `PROJECT.json` quotes the lines.

**Observations.** What the models make visible without contradicting a statement
of the repository:

- A verification of the database that is rejected once stays rejected for the
  process (`dbClient.ts:114`); the process recovers by a restart only.
- Suppressions are written, and the public read models and the export read, without
  the verification of the environment that the writers of evidence wait for.
- A readiness query that timed out keeps its connection until the server answers.
- The clean-up of the restore drill is skipped when a docker command cannot be
  started, and `docker run` may leave a container it does not know of.
- `release verify` holds the lockfile and the SBOM against the provenance; the
  commit, the workflow, the toolchain and the fingerprint it names are not
  compared with anything.
- The guard of reviewed refs, the gate on backup evidence and the resolution of
  restore keys are called by no workflow and no script.
- The reconciliation lists an anchor that evidence hangs on both among the
  skipped and, as unexpected, among the manual retirements.
- An audit reads without a transaction: a bootstrap beside it can make it report a
  membership as missing that another moment had. Bootstraps of different
  registries that overlap can leave the union of their associations.
- Of two overlapping evaluations, the one with the later date may have read the
  older evidence; the later date wins.
- A rotation deadline that is malformed, or removed before the previous secret
  is, shuts out the primary secret too: fail-closed, as documented.

## The proofs

TLC shows a property for the instance of a run; the theorems show it for all
values of the constants that satisfy the named assumptions.

`SuppressionProofs`, from `ThresholdAssumption` (the threshold is at least 1)
and `NoneAssumption` (the sentinel is no row, source or transaction). The invariant of
interest is `SuppressionIsEarned`, which is not inductive: a recorder that
writes what it computed from an old read must not have read more than is
recorded. The strengthening adds that neither a row nor the base of any
transaction counts more than `recorded`, and that the rows read are coherent as
the stored ones are. From it: `TypeCorrect`, `Coherence`, `Earned` and, as an
action property, `CurrentRecorders`.

`AnchorSyncProofs`, from `BoundAssumption` and `NoneAssumption`. The inductive
invariant adds to the five properties that a busy job knows the anchor it is
busy with, that no row carries a number ahead of the sequence or a description
newer than itself, and that between a write and its report the row carries the
job's number or a newer one. `TableStep`, `ReportStep`, `QuietStep` and
`FreshStep` are the four shapes of a step; every action is one of them or two
in sequence. From it: `TypeCorrect`, `UniqueOrders`, `WholeRows`, `TrueReports`,
`ReportedWrites`, and `Refinement`: every step of a job is a step of the
registers or leaves them alone.

`AdvisoryLockProofs`, from `NoneAssumption`, `BoundAssumption` and
`PoolAssumption` (a pool is finite). `MutualExclusion` rests on the accounting
of the locks, and that is inductive only together with three facts: a call has
its connection to itself, a closed session holds nothing, and one session at
most holds the key. Every step of a call with a connection is one of a single
shape, `WorkStep`. From it: `TypeCorrect` (no call unlocks what its session does
not hold), `Exclusion` and `AccountedLocks`; `HonestOutcomes`, an action property,
adds that a call's connection is its own while it cleans up, so that what it
gives back is what it had;
`AccountedConnections` adds a count of the connections that are in use by no
call.

`RefreshProofs`, from `TimeAssumption` and `NoneAssumption` (the sentinel is
no score and no reading). `StoreIsUsed` is a refinement: every step of a cycle
is an operation of `Suppression` or leaves its variables alone, so that what
`SuppressionProofs` shows of the store, for any recorders, is true of the
cycles. The rest comes from one inductive invariant, `RefreshInv`: runs are
unique to cycles and none is ahead of the counter; what is stored under a
cycle's run is among what it has seen; what it is about to store is not there
yet; what it attempted is stored, about to be, or reported; an anchor is still
to be evaluated, being read, or has a score as recent as the cycle. `CycleStep`
carries it over a step of one cycle, `OthersKeep` over what other cycles store.
From it: `WhatSucceededIsThere`, `NothingTwice`, `OkIsTrue` and, as an action
property, `ScoresOnlyMoveForward`. `PendingInv` is a second one, about the failures a cycle has yet to record.
`OnlyDeterministicCounts` is a matter of counting: what a source has on record,
and the cycles that still hold a failure of it, are together no more than the
deterministic failures there were (until these reach the threshold, where the counter saturates).
`SuppressedIsNotCaptured`, an action property, rests on the positions a cycle
still has to visit naming no source it was told to leave out. It needs `ThresholdAssumption` too.

`StaleEvidenceProofs`, from `BoundAssumption` and `NoneAssumption` (the
sentinel is no key and no answer). The invariant `Accounts` says of a request what it knows
by its `pc`, and of a file that, if it is intact, it holds a response there has
been. The latter is what makes it inductive: a request that restores trusts
whatever file is there by then. From it: `StaleIsEvidence` and `DatabaseDecides`.
`WritersMoveForward` (an action property) adds that a request holds as its prior
file only one it is newer than. `SnapshotsAreBounded` needs `SnapshotsAssumption`
and an invariant over sets of requests: for every set of prunes that are about
to unlink, what they leave is at most the bound, the files no prune has answered
for, and one for each prune that is not in the set. Counting what each prune on its own
will remove is not inductive, since two prunes may have chosen one file.

`UpstreamProofs`. `RetriesEndWithTheirSignal` holds for every policy; the
strengthening is that no sleep outlives the abort of its signal.
`ChangesTakeEvidence` says what the code asks of a change, two of the last three
observations where a failure is deterministic. It rests on `HealthAssumption` and on a recovery threshold of
2, which is the code's and is written into what the property says of the last
two observations; its invariant relates the counters, which saturate or are
reset, to those observations. `AuthenticationHangsTogether`: each phase of
`SessionInv` rests on what the one before established, from the challenge that
was issued to the token handed out in time. `CapabilitiesAreAccounted`: every
asset a server named is in one place, still to be asked about, asked about, priced or
failed. `SessionTakesNoLateAnswer` and `QuoteTakesNoLateAnswer` share the
invariant of the exchange: nothing is on the wire once it is aborted.

`ReadSideProofs`. `DashboardIsRefreshed`, from `IntervalAssumption`: no
timer outlives a stop or a hidden page, none is due before an interval has passed
since the last refresh or later than an interval from now, and while there is
none a refresh is under way. `PanelsKeepUp`: a panel waits only while a request
is in flight, and no request of the chart is newer than its generation.
`ReputationIsSound`, from `ScoreAssumption`, whose outcomes start two below the
minimum: a snapshot does not change under its evaluation, what an evaluation
says of its upsert stays true when a newer score is written, and better evidence
never lowers a score, by the arithmetic with its roundings.
`BootstrapsConverge`, from `RegistryAssumption` (a reviewed registry has been
validated and is not empty): a bootstrap that nothing overlaps makes `Progress`
towards the registry, up to `Converged`, and other bootstraps of that registry then
have nothing left to change. `EvidenceIsSafe` needs of the tables only that evidence
refers to rows that are there. `AuditsTellTheTruth`: what an audit has read was
there at some moment since it began and misses nothing that was there at every
one, rows of rates only grow, and a row's time is the clock's and its writer's skew.

`OperationsProofs`. `CommitsAreNotDenied` needs no assumption: the strengthening
is that before the client commits the server has nothing to decide, so that an
error in that phase may be called interrupted. `EnvironmentsAreIsolated` needs
none either: the stamp is written once, by a script that saw none; who is
verified was compared with it; and since it never changes, whoever was verified
remains of its environment. A write of a suppression touches neither. `ProductionSpeaksVerifiedTls` goes through the chain
of decisions of `Configuration`. The theorems about the tools, `DrillsReportTheTruth`, `ExportsAreWhole`,
`BackupsAreRestorable`, `RotationsAreBounded`, `InstallsAreReproduced` and
`ReleasesAreOfOneGeneration`, are of the specification of the run, any one of
whose parts may be the one that moves: an
invariant per tool, which its own steps keep (`InstallStep`, `ExportStep`, `ReleaseStep`,
`DrillStep`, `GuardsStep`, `CronStep`) and the steps of the others do not touch. They rest on
`EvidenceExportAssumption`, `GuardsAssumption`, `CronAssumption` and
`ReleaseAssumption`. Of these invariants two are far from what they serve. An
export has, up to its cursor, every row there was when it began, each once and
in order; a page extends that to its last row, and a short page to the end. A
drill knows at every point which networks and containers are its own (`Mine`), and
on its way out what a start or a stop that failed may have left (`StartLeaves`,
`StopLeaves`); only so does a report that nothing is left follow from flags
that were set in three different clean-ups.

Only model-checked: the liveness properties (`PersistentFailureSuppressed`,
`EveryCallIsServed`), since TLAPS does not reason about fairness and ENABLED.
Every invariant and every action property of the passing runs has a theorem.
Some theorems go beyond the runs: `TypeCorrect`, `Coherence`, `CurrentRecorders`,
`WritersMoveForward`, `OnlyDeterministicCounts`, `NothingTwice` and
`ScoresOnlyMoveForward` state properties that hold close to the statements they
are about, so they are proved for all values and no run repeats them.
Results that would need induction over data, such as what a recursive function
computes for every input, are out of the prover's reach; no property here asks
for one, because lists are walked by position and pages are described by what is on them.

## Not modelled

- Parsing, formatting, logging and rendering; text nobody reads back (reasons,
  failure codes); the rules a single configured value, price or URL must follow,
  beyond the fact that it follows them or not.
- Medians, normalization, history buckets, cursors: stateless arithmetic on
  decimal strings and lists, unit tested.
- The percentiles and time windows of the reputation metrics; an outcome is
  counted and not dated.
- The audit's codes about transfer outcomes, the times of scores, corridors of one identity
  and the format of a single value, its row limit and its cap on findings;
  the reconciliation's field mismatches of anchors and orphaned transfer outcomes.
- The rate limiter: one synchronous function over one map.
- The guard of reviewed refs and the workflow that migrates production.
- The dashboard's navigation state: scroll positions and visits.
- Advisory lock keys and diagnostics, the API compatibility harness, pages and
  components, and tooling that formats or compares files: `PROJECT.json` has
  the reason for each.

## Plan

Modelled in the order of what a failure would cost: wrong evidence first,
availability next, presentation last. What is left:

1. Proofs: that the steps of `StaleEvidence` implement a store that only ever
   holds responses there have been, and the refinement of item 2.
2. An abstract specification of the registry that `RegistrySync` implements.
3. The rate limiter and the cursors of the history under concurrent inserts.
