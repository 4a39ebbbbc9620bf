------------------------------ MODULE RegistrySync ------------------------------
(***************************************************************************)
(* The reviewed registry in the database: bootstrap jobs write it          *)
(* (lib/stellar/corridorSync.ts, after the anchors of AnchorSync), rates   *)
(* refer to it (lib/rates/snapshot.ts), an integrity audit                 *)
(* (lib/integrity) and a reconciliation                                    *)
(* (lib/stellar/registryReconciliation.ts) judge what is there.            *)
(*                                                                         *)
(* Transactions are READ COMMITTED: a statement sees what is committed     *)
(* when it starts, and waits for a row another transaction has deleted or  *)
(* inserted and not committed.  Rows of anchors and corridors are never    *)
(* deleted, so the look-ups that precede a statement are one step with it. *)
(*                                                                         *)
(* Left out of the audit: its row limit and its cap on the findings it     *)
(* lists under one code, the codes about the format of a single value, the *)
(* codes of transfer outcomes (the rules of rate snapshots, on rows this   *)
(* repository only reads), those on the times of scores (ReputationStore   *)
(* has the scores) and the corridors of one identity under two slugs.      *)
(***************************************************************************)
EXTENDS Naturals, FiniteSets

CONSTANTS
  Jobs,            \* the bootstraps, each run once
  Registries,      \* the reviewed registries of successive versions of the code
  ClockSkews,      \* how far the clock of a process that captures is ahead
  FutureTolerance, \* INTEGRITY_AUDIT_LIMITS.futureTimestampToleranceMs
  MaxRegistryTime, \* bound: clock ticks
  MaxLosses        \* bound: statements that fail and jobs that die

\* validateCorridorRegistry and validateAnchorCorridorRegistry: one row of a
\* corridor, an association of an anchor with a corridor that is listed.
Validated(registry) ==
  /\ \A c, d \in registry.corridors : c.slug = d.slug => c = d
  /\ \A l \in registry.links : l = <<l[1], l[2]>> /\ l[2] \in {c.slug : c \in registry.corridors}

\* A reviewed registry has an anchor that serves a corridor.  A slug is told to be
\* an anchor's or a corridor's by looking at it; in the code they are in tables of
\* their own.
ASSUME RegistryAssumption ==
  /\ ClockSkews \subseteq Nat
  /\ FutureTolerance \in Nat /\ MaxRegistryTime \in Nat /\ MaxLosses \in Nat
  /\ \A r \in Registries : Validated(r) /\ r.links # {}
  /\ \A r, s \in Registries : {l[1] : l \in r.links} \cap {c.slug : c \in s.corridors} = {}

VARIABLES
  now,        \* the clock of the database and of all processes but a capture's
  tables,     \* the committed rows
  jobs,       \* the bootstraps
  capture,    \* a capture of a rate
  audit,      \* an audit of the evidence
  during,     \* history: the associations there at every, and at some, moment of it
  removed,    \* history: the associations a commit has removed
  losses      \* see MaxLosses

registryVars == <<now, tables, jobs, capture, audit, during, removed, losses>>

\* A registry lists anchors, corridors with their version, and associations.
Listed(registry) == [anchors |-> {l[1] : l \in registry.links},
                     corridors |-> registry.corridors, links |-> registry.links]
CorridorsOf(registry, a) == {l \in registry.links : l[1] = a}

NoJob == [pc |-> "idle", registry |-> CHOOSE r \in Registries : TRUE, alone |-> TRUE,
          corridors |-> {}, anchors |-> {}, deleted |-> {}, inserted |-> {}, failures |-> {}]

\* The database is empty, or has been bootstrapped from some registry.
RegistryInit ==
  /\ now = 0
  /\ tables \in
       {[anchors |-> {}, corridors |-> {}, links |-> {}, snapshots |-> {}]} \cup
       {[anchors |-> {[slug |-> a, createdAt |-> 0] : a \in Listed(r).anchors},
         corridors |-> r.corridors, links |-> r.links, snapshots |-> {}] : r \in Registries}
  /\ jobs = [j \in Jobs |-> NoJob]
  /\ capture = [pc |-> "idle"]
  /\ audit = [pc |-> "idle"]
  /\ during = [kept |-> {}, seen |-> {}]
  /\ removed = {}
  /\ losses = 0

Lost(n) == losses + n <= MaxLosses /\ losses' = losses + n

(* ------------------------------- bootstrap -------------------------------- *)

Running(j) == jobs[j].pc \notin {"idle", "ended", "dead"}

\* Jobs that overlap know nothing of each other; `alone` is what a property asks.
Begin(j) ==
  /\ jobs[j].pc = "idle"
  /\ \E registry \in Registries :
       jobs' = [i \in Jobs |->
                  CASE i = j -> [NoJob EXCEPT !.pc = "anchors", !.registry = registry,
                                              !.alone = \A k \in Jobs : ~Running(k)]
                    [] i # j /\ Running(i) -> [jobs[i] EXCEPT !.alone = FALSE]
                    [] OTHER -> jobs[i]]
  /\ UNCHANGED <<now, tables, capture, audit, during, removed, losses>>

\* syncAnchorRegistry, as AnchorSync details it: some anchors fail, which stops
\* nothing.
SyncAnchors(j) ==
  \E found \in SUBSET Listed(jobs[j].registry).anchors :
    LET missing == Listed(jobs[j].registry).anchors \ found IN
    /\ jobs[j].pc = "anchors"
    /\ Lost(Cardinality(missing))
    /\ tables' = [tables EXCEPT !.anchors =
                    @ \cup {[slug |-> a, createdAt |-> now] : a \in found \ {row.slug : row \in @}}]
    /\ jobs' = [jobs EXCEPT ![j].pc = "corridors",
                            ![j].corridors = jobs[j].registry.corridors,
                            ![j].failures = {<<"ANCHOR", a>> : a \in missing}]
    /\ UNCHANGED <<now, capture, audit, during, removed>>

\* persistCorridor, one after the other; a failure is recorded and stops nothing.
UpsertCorridor(j) ==
  LET row == CHOOSE c \in jobs[j].corridors : TRUE
      rest == jobs[j].corridors \ {row}
      Done(failures) ==
        jobs' = [jobs EXCEPT ![j].corridors = rest, ![j].failures = @ \cup failures,
                             ![j].pc = IF rest = {} THEN "association" ELSE @,
                             ![j].anchors = Listed(jobs[j].registry).anchors]
  IN  /\ jobs[j].pc = "corridors"
      /\ \/ /\ tables' = [tables EXCEPT !.corridors = {c \in @ : c.slug # row.slug} \cup {row}]
            /\ Done({}) /\ UNCHANGED losses
         \/ Lost(1) /\ Done({<<"CORRIDOR", row.slug>>}) /\ UNCHANGED tables
      /\ UNCHANGED <<now, capture, audit, during, removed>>

\* Mutant: the failure of an association is not in the job's result.
AssociationQuietly(j, a, failure) ==
  [jobs[j] EXCEPT !.pc = IF jobs[j].anchors = {a} THEN "ended" ELSE "association",
                  !.anchors = @ \ {a}, !.deleted = {}, !.inserted = {}]

\* The associations of one anchor are a transaction; the next is begun, or the
\* job has its result.
Association(j, a, failure) ==
  [jobs[j] EXCEPT !.pc = IF jobs[j].anchors = {a} THEN "ended" ELSE "association",
                  !.anchors = @ \ {a}, !.deleted = {}, !.inserted = {},
                  !.failures = IF failure = "none" THEN @ ELSE @ \cup {<<failure, a>>}]

Current(j) == CHOOSE a \in jobs[j].anchors : TRUE
Locked(j) == UNION {jobs[i].deleted \cup jobs[i].inserted : i \in Jobs \ {j}}

\* persistAnchorCorridorAssociations up to deleteMany.
DeleteStaleAll(j) ==
  LET a == Current(j)
      desired == CorridorsOf(jobs[j].registry, a)
      stale == {l \in tables.links : l[1] = a} \ desired
  IN  /\ jobs[j].pc = "association"
      /\ IF a \notin {row.slug : row \in tables.anchors}
         THEN jobs' = [jobs EXCEPT ![j] = Association(j, a, "ANCHOR_NOT_FOUND")]
         ELSE IF {l[2] : l \in desired} \subseteq {row.slug : row \in tables.corridors}
         THEN /\ stale \cap Locked(j) = {}
              /\ jobs' = [jobs EXCEPT ![j].pc = "create", ![j].deleted = stale]
         ELSE jobs' = [jobs EXCEPT ![j] = Association(j, a, "CORRIDOR_NOT_FOUND")]
      /\ UNCHANGED <<now, tables, capture, audit, during, removed, losses>>

\* createMany, skipping what is there.
CreateMissing(j) ==
  LET desired == CorridorsOf(jobs[j].registry, Current(j)) IN
  /\ jobs[j].pc = "create"
  /\ desired \cap Locked(j) = {}
  /\ jobs' = [jobs EXCEPT ![j].pc = "commit", ![j].inserted = desired \ tables.links]
  /\ UNCHANGED <<now, tables, capture, audit, during, removed, losses>>

Commits(j) ==
  /\ tables' = [tables EXCEPT !.links = (@ \ jobs[j].deleted) \cup jobs[j].inserted]
  /\ removed' = removed \cup jobs[j].deleted
  /\ during' = IF audit.pc = "reading"
               THEN [kept |-> during.kept \ jobs[j].deleted, seen |-> during.seen \cup jobs[j].inserted]
               ELSE during

Commit(j) ==
  /\ jobs[j].pc = "commit"
  /\ Commits(j)
  /\ jobs' = [jobs EXCEPT ![j] = Association(j, Current(j), "none")]
  /\ UNCHANGED <<now, capture, audit, losses>>

\* A statement fails, a deadlock is broken, a connection is lost: the
\* transaction is rolled back, or had been committed when its answer was lost.
AssociationFails(j) ==
  /\ jobs[j].pc \in {"association", "create", "commit"}
  /\ Lost(1)
  /\ \/ UNCHANGED <<tables, during, removed>>
     \/ jobs[j].pc = "commit" /\ Commits(j)
  /\ jobs' = [jobs EXCEPT ![j] = Association(j, Current(j), "UNEXPECTED_ERROR")]
  /\ UNCHANGED <<now, capture, audit>>

JobDies(j) ==
  /\ Running(j)
  /\ Lost(1)
  /\ jobs' = [jobs EXCEPT ![j].pc = "dead", ![j].deleted = {}, ![j].inserted = {}]
  /\ UNCHANGED <<now, tables, capture, audit, during, removed>>

(* -------------------------------- evidence -------------------------------- *)

\* A quote is captured for an association of some version of the registry; its
\* time is of the clock of the process that captures.  How far that clock is ahead
\* is kept for a property.
CaptureRate ==
  \E registry \in Registries, skew \in ClockSkews : \E pair \in registry.links :
    /\ capture.pc = "idle"
    /\ capture' = [pc |-> "quoted", pair |-> pair, at |-> now + skew, skew |-> skew]
    /\ UNCHANGED <<now, tables, jobs, audit, during, removed, losses>>

\* persistRateSnapshot up to its last look-up; without the association nothing
\* is written.
FindAssociation ==
  /\ capture.pc = "quoted"
  /\ capture' = [capture EXCEPT !.pc =
                   IF capture.pair \in tables.links THEN "associated" ELSE "ended"]
  /\ UNCHANGED <<now, tables, jobs, audit, during, removed, losses>>

CreateSnapshot ==
  /\ capture.pc = "associated"
  /\ tables' = [tables EXCEPT !.snapshots =
                  @ \cup {[pair |-> capture.pair, at |-> capture.at, skew |-> capture.skew]}]
  /\ capture' = [capture EXCEPT !.pc = "ended"]
  /\ UNCHANGED <<now, jobs, audit, during, removed, losses>>

RegistryTick ==
  /\ now < MaxRegistryTime
  /\ now' = now + 1
  /\ UNCHANGED <<tables, jobs, capture, audit, during, removed, losses>>

(* ---------------------------------- audit --------------------------------- *)

Audited == {"anchors", "links", "snapshots"}

\* runEvidenceIntegrityAudit takes its time first, then reads its tables at
\* once and in no transaction.  `before`, the rows of rates there when it began,
\* is for a property to compare with.
StartAudit ==
  /\ audit.pc = "idle"
  /\ audit' = [pc |-> "reading", observedAt |-> now, read |-> [t \in {} |-> {}],
               before |-> tables.snapshots]
  /\ during' = [kept |-> tables.links, seen |-> tables.links]
  /\ UNCHANGED <<now, tables, jobs, capture, removed, losses>>

\* evaluateEvidenceIntegrity, the codes of rate snapshots that relate tables or
\* times.
CreatedAt(read, a) ==
  LET found == {row.createdAt : row \in {r \in read.anchors : r.slug = a}}
  IN  IF found = {} THEN 0 ELSE CHOOSE t \in found : TRUE

\* Mutant: an anchor that serves some corridor is taken to serve every one.
FindingsByAnchor(read, observedAt) ==
  LET about(code, rows) == {<<code, s>> : s \in rows} IN
  about("MEMBERSHIP_MISSING",
        {s \in read.snapshots : s.pair[1] \notin {l[1] : l \in read.links}})
    \cup about("TIMESTAMP_FUTURE", {s \in read.snapshots : s.at > observedAt + FutureTolerance})
    \cup about("TIMESTAMP_BEFORE_ANCHOR",
               {s \in read.snapshots : s.at < CreatedAt(read, s.pair[1])})

EvidenceFindings(read, observedAt) ==
  LET about(code, rows) == {<<code, s>> : s \in rows} IN
  about("MEMBERSHIP_MISSING", {s \in read.snapshots : s.pair \notin read.links})
    \cup about("TIMESTAMP_FUTURE", {s \in read.snapshots : s.at > observedAt + FutureTolerance})
    \cup about("TIMESTAMP_BEFORE_ANCHOR",
               {s \in read.snapshots : s.at < CreatedAt(read, s.pair[1])})

\* The last table to arrive lets the evaluation begin.
ReadTable(t) ==
  /\ audit.pc = "reading" /\ t \in Audited \ DOMAIN audit.read
  /\ LET read == [u \in DOMAIN audit.read \cup {t} |->
                    IF u = t THEN tables[t] ELSE audit.read[u]]
     IN  audit' = IF DOMAIN read = Audited
                  THEN [pc |-> "done", before |-> audit.before, gone |-> removed,
                        observedAt |-> audit.observedAt, took |-> now - audit.observedAt,
                        findings |-> EvidenceFindings(read, audit.observedAt)]
                  ELSE [audit EXCEPT !.read = read]
  /\ UNCHANGED <<now, tables, jobs, capture, during, removed, losses>>

Bootstrap(j) ==
  \/ Begin(j) \/ SyncAnchors(j) \/ UpsertCorridor(j) \/ DeleteStaleAll(j) \/ CreateMissing(j)
  \/ Commit(j) \/ AssociationFails(j) \/ JobDies(j)

RegistryNext ==
  \/ \E j \in Jobs : Bootstrap(j)
  \/ CaptureRate \/ FindAssociation \/ CreateSnapshot
  \/ RegistryTick
  \/ StartAudit \/ \E t \in Audited : ReadTable(t)

RegistrySpec == RegistryInit /\ [][RegistryNext]_registryVars

(* ----------------------------- reconciliation ----------------------------- *)

Slugs(rows) == {row.slug : row \in rows}

\* Mutant: the evidence of a corridor is overlooked.
EvidenceOfAnchor(pairs, slug) == {p \in pairs : slug = p[1]}

\* reconcileRegistryWithDatabase: what is missing, differs, or is not listed;
\* what evidence hangs on rows that are not listed makes them stale.
Evidence(pairs, slug) == {p \in pairs : slug \in {p[1], p[2]}}

Issues(registry, db) ==
  LET listed == Listed(registry)
      pairs == {s.pair : s \in db.snapshots}
      unlisted == [anchor |-> Slugs(db.anchors) \ listed.anchors,
                   corridor |-> Slugs(db.corridors) \ Slugs(listed.corridors)]
      about(code, slugs) == {<<code, <<x>>>> : x \in slugs}
      linked(code, links) == {<<code, l>> : l \in links}
      withEvidence(slugs) == {x \in slugs : Evidence(pairs, x) # {}}
      unexpected == db.links \ listed.links
  IN  about("MISSING_ANCHOR", listed.anchors \ Slugs(db.anchors))
        \cup about("MISSING_CORRIDOR", Slugs(listed.corridors) \ Slugs(db.corridors))
        \cup about("CORRIDOR_FIELD_MISMATCH",
                   {c.slug : c \in {d \in db.corridors : d.slug \in Slugs(listed.corridors)}
                                     \ listed.corridors})
        \cup about("UNEXPECTED_ANCHOR", unlisted.anchor)
        \cup about("UNEXPECTED_CORRIDOR", unlisted.corridor)
        \cup about("STALE_ANCHOR", withEvidence(unlisted.anchor))
        \cup about("STALE_CORRIDOR", withEvidence(unlisted.corridor))
        \cup about("ORPHANED_RATE_SNAPSHOT", withEvidence(unlisted.anchor \cup unlisted.corridor))
        \cup linked("MISSING_ASSOCIATION", listed.links \ db.links)
        \cup linked("ORPHANED_ANCHOR_LINK", {l \in unexpected : l[1] \in unlisted.anchor})
        \cup linked("ORPHANED_CORRIDOR_LINK",
                   {l \in unexpected : l[1] \notin unlisted.anchor /\ l[2] \in unlisted.corridor})
        \cup linked("UNEXPECTED_ASSOCIATION",
                   {l \in unexpected : l[1] \notin unlisted.anchor /\ l[2] \notin unlisted.corridor})

\* buildRegistryRepairPlan: what may be done without a maintainer, what needs
\* one, and what must not be automated because evidence hangs on it.
PlanActionForIssue ==
  [MISSING_ANCHOR |-> "safe", MISSING_CORRIDOR |-> "safe", CORRIDOR_FIELD_MISMATCH |-> "safe",
   MISSING_ASSOCIATION |-> "safe", UNEXPECTED_ASSOCIATION |-> "manual",
   UNEXPECTED_ANCHOR |-> "manual", UNEXPECTED_CORRIDOR |-> "manual",
   STALE_ANCHOR |-> "skipped", STALE_CORRIDOR |-> "skipped"]

RepairPlan(issues) ==
  [part \in {"safe", "manual", "skipped"} |->
     {i \in issues : i[1] \in DOMAIN PlanActionForIssue /\ PlanActionForIssue[i[1]] = part}]

(* ------------------------------- properties ------------------------------- *)

\* What the audit says of rows this code has written is what happened to them,
\* however its reads fall between the commits of a bootstrap.  A membership it
\* misses was absent at a moment of the audit itself, and a bootstrap had removed
\* it unless the row is newer than the audit; a row in the future is one whose
\* writer's clock, with the time the audit took, is ahead by more than the
\* tolerance.  And it keeps silent about nothing: a row it began with is named
\* when its association was absent at every moment of the audit, and when its
\* time is past the tolerance.
FindingsAreExplained ==
  audit.pc = "done" =>
    /\ \A f \in audit.findings :
         /\ f[1] = "MEMBERSHIP_MISSING" =>
              /\ f[2].pair \notin during.kept
              /\ f[2].pair \in audit.gone \/ f[2] \notin audit.before
         /\ f[1] = "TIMESTAMP_FUTURE" => audit.took + f[2].skew > FutureTolerance
    /\ \A s \in audit.before :
         /\ s.pair \notin during.seen => <<"MEMBERSHIP_MISSING", s>> \in audit.findings
         /\ s.at > audit.observedAt + FutureTolerance =>
              <<"TIMESTAMP_FUTURE", s>> \in audit.findings

\* A bootstrap that nothing overlapped and that reports no failure has left
\* nothing to repair: the database has the registry's anchors, corridors and
\* associations and, of its anchors, no other association.
BootstrapConverges ==
  \A j \in Jobs :
    jobs[j].pc = "ended" /\ jobs[j].alone /\ jobs[j].failures = {}
      /\ (\A i \in Jobs \ {j} : jobs[i].pc \in {"idle", "ended", "dead"} /\ jobs[i].registry = jobs[j].registry)
      => LET issues == Issues(jobs[j].registry, tables)
         IN  /\ RepairPlan(issues)["safe"] = {}
             /\ \A i \in issues : i[1] # "UNEXPECTED_ASSOCIATION"

\* No repair the plan calls safe takes evidence away, whichever registry the
\* database is held against: every row that evidence hangs on and that is not
\* listed is kept from automation, and only such rows are.
EvidenceIsNeverRetired ==
  \A registry \in Registries :
    LET plan == RepairPlan(Issues(registry, tables))
        evidenced == {s.pair[1] : s \in tables.snapshots} \cup {s.pair[2] : s \in tables.snapshots}
        unlisted == (Slugs(tables.anchors) \cup Slugs(tables.corridors))
                      \ (Listed(registry).anchors \cup Slugs(registry.corridors))
    IN  /\ {i[2] : i \in plan["skipped"]} = {<<x>> : x \in evidenced \cap unlisted}
        /\ \A i \in plan["safe"], x \in unlisted : i[2] # <<x>>
===============================================================================
