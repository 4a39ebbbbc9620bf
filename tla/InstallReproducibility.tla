------------------------ MODULE InstallReproducibility ------------------------
(***************************************************************************)
(* scripts/verify-install-reproducibility.ts with the comparisons of       *)
(* lib/tooling/installReproducibility.ts: the reviewed lockfile is         *)
(* installed twice into empty sandboxes, and the installs are compared     *)
(* with each other, with the lockfile and with what is on the disk.        *)
(*                                                                         *)
(* npm is external: an install is the one the lockfile asks for, or has    *)
(* one thing wrong, or fails.  A graph is a function of the installed      *)
(* paths, with a header (the lockfile's version and its entry of the root)  *)
(* beside it; of an entry the model keeps the version, the install script, *)
(* the scope npm writes down (dev, optional, devOptional), and all that    *)
(* must be equal besides (name, integrity, resolved, peer, edges) as one   *)
(* field.                                                                  *)
(***************************************************************************)
EXTENDS Naturals, FiniteSets, Sequences, Functions

VARIABLES install, sandboxes
installVars == <<install, sandboxes>>

Runs == <<"run-1", "run-2">>
Paths == {"a", "a/b"}
ParentOf(path) == IF path = "a/b" THEN "a" ELSE "none"

Entry(version, rest, script, scope) ==
  [version |-> version, rest |-> rest, script |-> script, scope |-> scope]
Plain == Entry(1, "r", FALSE, "prod")

\* The reviewed lockfile: its packages, and those that are optional and not for
\* this platform.
ReviewedLockfiles ==
  {[packages |-> [p \in paths |-> Plain], gated |-> gated] :
     paths \in (SUBSET Paths) \ {{}}, gated \in SUBSET Paths}

(* ---------------------------- the comparisons ----------------------------- *)

\* computeExpectedAbsentPaths: a path excluded itself, or under an excluded one.
ExpectedAbsent(reviewed) ==
  {p \in DOMAIN reviewed.packages :
     {p, ParentOf(p)} \cap reviewed.gated \cap DOMAIN reviewed.packages # {}}

\* unionSorted and the loop over it: paths that are in one of two graphs only,
\* or differ in one of the fields that are compared.
Differences(expected, actual) ==
  {p \in DOMAIN expected \cup DOMAIN actual :
     \/ p \notin DOMAIN expected \/ p \notin DOMAIN actual
     \/ expected[p] # actual[p]}

\* compareNormalizedGraphs: the header, and every field of every entry.
CompareNormalizedGraphs(expected, actual) ==
  (IF expected.header = actual.header THEN {} ELSE {"header"})
    \cup Differences(expected.graph, actual.graph)

\* compareInstalledScans: what package.json says of itself.
CompareInstalledScans(expected, actual) ==
  LET declared(scan) == [p \in DOMAIN scan |-> <<scan[p].version, scan[p].script>>]
  IN  Differences(declared(expected), declared(actual))

\* auditInstalledGraphAgainstLockfile, its fatal issues: scope flags drift
\* between versions of npm and are only noted.
AuditInstalledGraph(reviewed, installed) ==
  LET absent == ExpectedAbsent(reviewed)
      expected == Restrict(reviewed.packages, DOMAIN reviewed.packages \ absent)
      audited(graph) ==
        [p \in DOMAIN graph |-> <<graph[p].version, graph[p].rest, graph[p].script>>]
  IN  Differences(audited(expected), audited(installed))

ScopeFlagDrift(reviewed, installed) ==
  {p \in DOMAIN reviewed.packages \cap DOMAIN installed :
     reviewed.packages[p].scope # installed[p].scope}

\* Mutant: npm's account is held against itself.
AuditOfAccount(scan, hidden) == CompareInstalledScans(hidden, hidden)

\* auditPhysicalScanAgainstHiddenLockfile.
AuditPhysicalScan(scan, hidden) == CompareInstalledScans(hidden, scan)

(* -------------------------------- installs -------------------------------- *)

Wanted(reviewed) ==
  LET paths == DOMAIN reviewed.packages \ ExpectedAbsent(reviewed)
  IN  Restrict(reviewed.packages, paths)

\* A graph with one entry added, removed or changed.
Deviations(graph) ==
  {[q \in DOMAIN graph \ {p} |-> graph[q]] : p \in DOMAIN graph}
    \cup {[q \in DOMAIN graph \cup {p} |-> IF q = p THEN e ELSE graph[q]] :
            p \in Paths, e \in {Plain, Entry(2, "r", FALSE, "prod"), Entry(1, "s", FALSE, "prod"),
                                Entry(1, "r", TRUE, "prod"), Entry(1, "r", FALSE, "dev")}}

Faithful(reviewed) ==
  [exit |-> 0, header |-> "reviewed", graph |-> Wanted(reviewed), disk |-> Wanted(reviewed),
   artifacts |-> "generated", mutated |-> FALSE, toolchain |-> "node"]

\* What npm leaves: collectInstalledScan sees the disk, the hidden lockfile is
\* npm's own account of it.
InstallResults(reviewed) ==
  LET good == Faithful(reviewed) IN
  {good, [good EXCEPT !.exit = 1], [good EXCEPT !.artifacts = "other"],
   [good EXCEPT !.mutated = TRUE], [good EXCEPT !.header = "other"],
   [good EXCEPT !.toolchain = "other"], [good EXCEPT !.toolchain = "unknown"]}
    \cup {[good EXCEPT !.graph = g, !.disk = g] : g \in Deviations(good.graph)}
    \cup {[good EXCEPT !.disk = g] : g \in Deviations(good.graph)}

InstallInit ==
  /\ install = [pc |-> "stage", reviewed |-> "none", runs |-> <<>>, keep |-> FALSE,
                checks |-> {}, drift |-> {}, verdict |-> "none"]
  /\ sandboxes = {}

\* stageReviewedInputs: from one ref whose dependency files are not changed in
\* the working tree; a failure ends the process.
Stage ==
  /\ install.pc = "stage"
  /\ \/ \E reviewed \in ReviewedLockfiles, keep \in BOOLEAN :
          install' = [install EXCEPT !.pc = "install", !.reviewed = reviewed, !.keep = keep]
     \/ install' = [install EXCEPT !.pc = "failed"]
  /\ UNCHANGED sandboxes

\* runIsolatedInstall: a sandbox, an install into it and what can be read of it.
RunIsolatedInstall ==
  LET run == Runs[Len(install.runs) + 1] IN
  /\ install.pc = "install" /\ Len(install.runs) < Len(Runs)
  /\ sandboxes' = sandboxes \cup {run}
  /\ \E result \in InstallResults(install.reviewed) :
       install' = [install EXCEPT !.runs = Append(@, result)]

\* An install whose result cannot be read throws before its sandbox is on the
\* list of those to remove.
RunUnreadable ==
  LET known == {Runs[i] : i \in 1..Len(install.runs)} IN
  /\ install.pc = "install" /\ Len(install.runs) < Len(Runs)
  /\ sandboxes' = {Runs[Len(install.runs) + 1]} \cup (IF install.keep THEN known ELSE {})
  /\ install' = [install EXCEPT !.pc = "failed"]

\* buildChecks: the names of the checks that fail, nothing more once an install
\* failed.
FailedChecks(reviewed, runs) ==
  LET first == runs[1]
      failing(check, wrong) == IF wrong THEN {check} ELSE {}
      against(other) ==
        failing("normalized-dependency-graph", CompareNormalizedGraphs(first, other) # {})
          \cup failing("node-modules-layout", CompareInstalledScans(first.disk, other.disk) # {})
          \cup failing("generated-artifacts", first.artifacts # other.artifacts)
          \cup failing("toolchain", first.toolchain # other.toolchain)
  IN  IF \E run \in Range(runs) : run.exit # 0 THEN {"isolated-installs-succeed"}
      ELSE (UNION {against(run) : run \in Range(Tail(runs))})
             \cup failing("installed-graph-matches-reviewed-lockfile",
                          AuditInstalledGraph(reviewed, first.graph) # {})
             \cup failing("disk-layout-matches-hidden-lockfile",
                          AuditPhysicalScan(first.disk, first.graph) # {})
             \cup failing("lockfile-not-mutated-by-install", \E run \in Range(runs) : run.mutated)
             \cup failing("toolchain-recorded", first.toolchain = "unknown")

\* The report is written, the sandboxes removed unless they are to be kept.
Report ==
  LET checks == FailedChecks(install.reviewed, install.runs) IN
  /\ install.pc = "install" /\ Len(install.runs) = Len(Runs)
  /\ install' = [install EXCEPT
                   !.pc = "reported", !.checks = checks,
                   !.drift = ScopeFlagDrift(install.reviewed, install.runs[1].graph),
                   !.verdict = IF checks = {} THEN "reproducible" ELSE "not-reproducible"]
  /\ sandboxes' = IF install.keep THEN sandboxes ELSE {}

InstallNext == Stage \/ RunIsolatedInstall \/ RunUnreadable \/ Report

(* ------------------------------- properties ------------------------------- *)

\* A verdict "reproducible" means that every install, not only the first that
\* is held against the lockfile, left on its disk exactly the packages the
\* reviewed lockfile asks for on this platform, in the reviewed versions and
\* with the reviewed install scripts, and that all generated the same files
\* with one toolchain, which is known, and without touching the lockfile; and
\* an installation that did all this is never called anything else.
InstallIsReproduced ==
  install.pc = "reported" =>
    LET wanted == Wanted(install.reviewed)
        asWanted(run) ==
          /\ run.exit = 0 /\ ~run.mutated
          /\ run.artifacts = install.runs[1].artifacts /\ run.header = install.runs[1].header
          /\ run.toolchain = install.runs[1].toolchain /\ run.toolchain # "unknown"
          /\ CompareInstalledScans(wanted, run.disk) = {}
          /\ \A p \in DOMAIN run.graph : run.graph[p].rest = wanted[p].rest
    IN  /\ install.verdict = "reproducible" => \A run \in Range(install.runs) : asWanted(run)
        /\ (\A run \in Range(install.runs) : run = Faithful(install.reviewed))
             => install.verdict = "reproducible"
        /\ install.keep \/ sandboxes = {}
===============================================================================
