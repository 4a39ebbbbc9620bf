----------------------------- MODULE RestoreDrill -----------------------------
(***************************************************************************)
(* scripts/restore-drill.ts: a backup is restored into a throwaway         *)
(* PostgreSQL container, checked and reported on.  A drill on its own      *)
(* fixture (--self-test) runs a second container for the source, and       *)
(* restores an archive that must be refused into a third.                  *)
(*                                                                         *)
(* A command of the docker client exits with 0, exits with another code,   *)
(* or is never started: the promise of run() then rejects, past the        *)
(* statements that would have cleaned up.                                  *)
(***************************************************************************)
EXTENDS Checks

VARIABLES
  drill,    \* where the script is, what it was asked and what it found
  docker    \* the networks and containers that exist

drillVars == <<drill, docker>>

Databases == {"source", "target", "corrupted"}
Network(d) == <<d, "network">>
Container(d) == <<d, "container">>

(* ------------------------------ the target -------------------------------- *)

\* validateRestoreDrillTargetIdentity: the identity, the URL if there is one,
\* the stamp if it was read.
TargetChecks == <<
  <<"no_identity", "TARGET_IDENTITY_MISSING">>,
  <<"production_identity", "TARGET_IDENTITY_PRODUCTION">>,
  <<"other_identity", "TARGET_IDENTITY_NOT_APPROVED">>,
  <<"malformed_url", "TARGET_URL_INVALID">>,
  <<"other_protocol", "TARGET_URL_INVALID">>,
  <<"production_host", "TARGET_URL_PRODUCTION">>,
  <<"remote_host", "TARGET_HOST_NOT_ISOLATED">>,
  <<"production_database", "TARGET_DATABASE_PRODUCTION">>,
  <<"production_stamp", "DATABASE_STAMP_PRODUCTION">>,
  <<"other_stamp", "DATABASE_STAMP_MISMATCH">> >>

\* The drill asks for no stamp, and a fixture needs no identity of its own.
TargetVerdict(target, selfTest) ==
  FirstFailure(TargetChecks, target \ (IF selfTest THEN {"no_identity"} ELSE {}))

\* The preflight script falls back to DATABASE_URL when it is given no URL of
\* its own; the drill does not.
UrlDefects == {"malformed_url", "other_protocol", "production_host", "remote_host", "production_database"}
StampDefects == {"production_stamp", "other_stamp"}

PreflightVerdict(target, fallback) ==
  FirstFailure(TargetChecks, target \cup (IF target \cap UrlDefects = {} THEN fallback ELSE {}))

ArgumentChecks == <<
  <<"unknown_flag", "INVALID_INPUT">>, <<"objective_not_positive", "INVALID_INPUT">>,
  <<"fixture_and_backup", "INVALID_INPUT">>, <<"no_backup", "INVALID_INPUT">> >>

(* ----------------------------- docker commands ---------------------------- *)

CommandResults == {"exit0", "failed", "unstarted"}

\* A removal leaves what it was to remove unless it exits with 0.
Removed(resource, result) == IF result = "exit0" THEN {resource} ELSE {}

\* What startPostgres leaves of what it had created when `error` struck: the
\* container is removed, then the network, and what cannot be removed is said
\* to be so; but a removal that cannot be started ends the clean-up there.
Undone(d, created, error) ==
  LET removals(r) == IF r \in created THEN CommandResults ELSE {"exit0"}
      after(c, n) ==
        [left |-> created \ (Removed(Container(d), c)
                               \cup (IF c = "unstarted" THEN {} ELSE Removed(Network(d), n))),
         error |-> CASE "unstarted" \in {c, n} -> "DOCKER_UNAVAILABLE"
                     [] "unstarted" \notin {c, n} /\ "failed" \in {c, n} -> "CLEANUP_FAILED"
                     [] OTHER -> error,
         unstarted |-> "unstarted" \in {c, n},
         untold |-> {}]
  IN  {after(c, n) : c \in removals(Container(d)), n \in removals(Network(d))}

\* startPostgres: network, container, port, a database that answers.  A
\* `docker run` that fails may have created its container all the same, which
\* containerCreated then does not know of.
StartResults(d) ==
  LET network == {Network(d)}
      both == {Network(d), Container(d)}
      untold(r) == [r EXCEPT !.left = @ \cup {Container(d)}, !.untold = {Container(d)}]
      noContainer == UNION {Undone(d, network, e) : e \in {"DOCKER_UNAVAILABLE", "CONTAINER_START_FAILED"}}
  IN  {[left |-> both, error |-> "none", unstarted |-> FALSE, untold |-> {}],
       [left |-> {}, error |-> "DOCKER_UNAVAILABLE", unstarted |-> FALSE, untold |-> {}]}
        \cup noContainer
        \cup {untold(r) : r \in Undone(d, network, "CONTAINER_START_FAILED")}
        \cup UNION {Undone(d, both, e) : e \in {"DOCKER_UNAVAILABLE", "CONTAINER_START_FAILED",
                                                 "DATABASE_NOT_READY"}}

\* stopPostgres tries everything and says whether all of it worked; a command
\* that cannot be started throws instead.
StopResults(d) ==
  LET after(c, n) ==
        [left |-> {Container(d), Network(d)}
                    \ (Removed(Container(d), c)
                         \cup (IF c = "unstarted" THEN {} ELSE Removed(Network(d), n))),
         ended |-> IF "unstarted" \in {c, n} THEN "thrown"
                   ELSE IF {c, n} = {"exit0"} THEN "cleaned" ELSE "not_cleaned"]
      pool(r, ends) == IF r.ended = "cleaned" /\ ~ends THEN [r EXCEPT !.ended = "not_cleaned"] ELSE r
  IN  {pool(after(c, n), ends) : c, n \in CommandResults, ends \in BOOLEAN}

(* -------------------------------- the drill ------------------------------- *)

DrillInit ==
  /\ drill = [pc |-> "preflight", target |-> {}, preflight |-> "not_run",
              selfTest |-> FALSE, verdict |-> "ok", error |-> "none",
              targetCleaned |-> TRUE, sourceCleaned |-> TRUE, source |-> FALSE, temp |-> FALSE,
              failure |-> "none", restored |-> {}, met |-> FALSE, unstarted |-> FALSE,
              untold |-> {}, report |-> "none"]
  /\ docker = {}

Goto(pc) == [drill EXCEPT !.pc = pc]

\* Where a database is checked, and where it is stopped.
Verifying == [target |-> "verify_target", corrupted |-> "verify_corrupted"]
Stopping == [target |-> "stop_target", corrupted |-> "stop_corrupted"]

\* Mutant: a clean-up that failed is forgotten.
CaughtQuietly(d, error) == [d EXCEPT !.pc = "finally", !.error = error]

\* The catch of main: what is wrong decides the code, and a clean-up that
\* failed is remembered.
Caught(d, error) ==
  [d EXCEPT !.pc = "finally", !.error = error,
            !.targetCleaned = @ /\ error # "CLEANUP_FAILED"]

\* preflight-restore-drill.ts, run on the same environment before the drill;
\* neither asks the target for its stamp.
Preflight ==
  \E target \in {t \in WithADefect(TargetChecks) : t \cap StampDefects = {}},
     fallback \in {t \in WithADefect(TargetChecks) : t \subseteq UrlDefects} :
    /\ drill.pc = "preflight"
    /\ drill' = [Goto("start") EXCEPT !.target = target,
                                      !.preflight = PreflightVerdict(target, fallback)]
    /\ UNCHANGED docker

\* The arguments, then the target, before any command runs.
Begin ==
  \E selfTest \in BOOLEAN, arguments \in WithADefect(ArgumentChecks) :
    LET parsed == FirstFailure(ArgumentChecks, arguments)
        verdict == IF parsed # "ok" THEN parsed ELSE TargetVerdict(drill.target, selfTest)
        asked == [drill EXCEPT !.selfTest = selfTest, !.verdict = verdict]
    IN  /\ drill.pc = "start"
        /\ drill' = IF verdict # "ok" THEN Caught(asked, verdict)
                    ELSE [asked EXCEPT !.pc = IF selfTest THEN "source" ELSE "stat"]
        /\ UNCHANGED docker

\* A database is started for the source, the target or the corrupted archive.
Start(d, next) ==
  \E r \in StartResults(d) :
    LET started == [drill EXCEPT !.unstarted = @ \/ r.unstarted, !.untold = @ \cup r.untold,
                                 !.temp = drill.selfTest]
    IN  /\ drill.pc = d
        /\ docker' = docker \cup r.left
        /\ drill' = IF r.error # "none" THEN Caught(started, r.error)
                    ELSE [started EXCEPT !.pc = next, !.source = @ \/ d = "source"]

MakeDirectoryFails ==
  /\ drill.pc = "source"
  /\ drill' = Caught(drill, "DRILL_FAILED")
  /\ UNCHANGED docker

\* Migrations, rows and a dump of them.
PrepareFixture ==
  /\ drill.pc = "prepare"
  /\ \/ drill' = Goto("stat")
     \/ \E e \in {"MIGRATION_STATUS_FAILED", "INTEGRITY_FAILED", "BACKUP_UNREADABLE",
                  "DOCKER_UNAVAILABLE", "DRILL_FAILED"} : drill' = Caught(drill, e)
  /\ UNCHANGED docker

\* The backup is a file with something in it, made before now, and is hashed.
StatBackup ==
  /\ drill.pc = "stat"
  /\ \/ drill' = Goto("target")
     \/ \E e \in {"BACKUP_UNREADABLE", "INVALID_INPUT", "DRILL_FAILED"} : drill' = Caught(drill, e)
  /\ UNCHANGED docker

\* pg_restore, the state of the migrations, drift, the integrity of the tables
\* and the reads of the application, up to the first that fails.
VerifyRestored(d) ==
  /\ drill.pc = Verifying[d]
  /\ \/ drill' = [Goto(Stopping[d]) EXCEPT !.restored = @ \cup {d}]
     \/ \E e \in {"RESTORE_FAILED", "MIGRATION_STATUS_FAILED", "SCHEMA_MISMATCH", "INTEGRITY_FAILED",
                  "APPLICATION_READ_FAILED", "DOCKER_UNAVAILABLE", "DRILL_FAILED"} :
          drill' = [Goto(Stopping[d]) EXCEPT !.failure = e]
  /\ UNCHANGED docker

\* The finally of restoreAndVerify, and what main makes of its end: the backup
\* must have been restored, the corrupted archive refused.
StopTarget(d) ==
  \E r \in StopResults(d) :
    LET outcome == CASE r.ended = "thrown" -> "DOCKER_UNAVAILABLE"
                     [] r.ended = "not_cleaned" -> "CLEANUP_FAILED"
                     [] OTHER -> drill.failure
        wanted == IF d = "target" THEN "none" ELSE "RESTORE_FAILED"
        ended == [drill EXCEPT !.unstarted = @ \/ r.ended = "thrown", !.failure = "none"]
    IN  /\ drill.pc = Stopping[d]
        /\ docker' = (docker \ {Container(d), Network(d)}) \cup r.left
        /\ drill' =
             IF outcome = wanted
             THEN [ended EXCEPT !.pc = IF d = "target" /\ drill.selfTest THEN "corrupted" ELSE "report"]
             ELSE Caught(ended, IF outcome = "none" THEN "DRILL_FAILED" ELSE outcome)

WriteCorruptedFails ==
  /\ drill.pc = "corrupted"
  /\ drill' = Caught(drill, "DRILL_FAILED")
  /\ UNCHANGED docker

\* The report compares the duration and the age of the backup with the
\* objectives.
MakeReport ==
  \E rtoMet, rpoMet \in BOOLEAN :
    /\ drill.pc = "report"
    /\ drill' = [Goto("finally") EXCEPT
                   !.met = rtoMet /\ rpoMet,
                   !.error = CASE ~rtoMet -> "RTO_EXCEEDED" [] rtoMet /\ ~rpoMet -> "RPO_EXCEEDED"
                               [] OTHER -> "none"]
    /\ UNCHANGED docker

\* The finally of main: the source, then the directory; a command that cannot
\* be started here ends the script without a report.
Finally ==
  /\ drill.pc = "finally"
  /\ \E removed \in BOOLEAN :
       \/ /\ ~drill.source
          /\ drill' = [Goto("print") EXCEPT !.temp = @ /\ ~removed,
                                            !.sourceCleaned = removed \/ ~drill.temp]
          /\ UNCHANGED docker
       \/ \E r \in StopResults("source") :
            /\ drill.source
            /\ docker' = (docker \ {Container("source"), Network("source")}) \cup r.left
            /\ drill' = IF r.ended = "thrown" THEN [Goto("ended") EXCEPT !.unstarted = TRUE]
                        ELSE [Goto("print") EXCEPT !.temp = @ /\ ~removed,
                                !.sourceCleaned = r.ended = "cleaned" /\ (removed \/ ~drill.temp)]

PrintReport ==
  LET error == IF drill.sourceCleaned THEN drill.error ELSE "CLEANUP_FAILED"
      cleaned == drill.targetCleaned /\ drill.sourceCleaned
  IN  /\ drill.pc = "print"
      /\ drill' = [Goto("ended") EXCEPT !.report =
                     CASE error = "none" -> "ok" [] error # "none" /\ cleaned -> "failed_clean"
                       [] OTHER -> "failed_unclean"]
      /\ UNCHANGED docker

DrillNext ==
  \/ Preflight \/ Begin \/ MakeDirectoryFails \/ Start("source", "prepare") \/ PrepareFixture \/ StatBackup
  \/ \E d \in {"target", "corrupted"} :
       Start(d, Verifying[d]) \/ VerifyRestored(d) \/ StopTarget(d)
  \/ WriteCorruptedFails \/ MakeReport \/ Finally \/ PrintReport

(* ------------------------------- properties ------------------------------- *)

\* The report of a drill is true.  It is ok only when the backup was restored
\* and every check passed, the corrupted archive of a fixture was not
\* restored, both objectives were met and nothing is left running; and a
\* report that says the clean-up succeeded leaves only what a failed
\* `docker run` created behind the script's back, unless a command could not be
\* started at all.  A target that is refused has had no command run on it, and
\* a target the preflight approved is not refused by the drill.
DrillReportsAreTrue ==
  /\ drill.report = "ok" =>
       /\ drill.restored = {"target"} /\ drill.met
       /\ docker = {} /\ ~drill.temp
  /\ drill.report = "failed_clean" /\ ~drill.unstarted =>
       docker \subseteq drill.untold /\ ~drill.temp
  /\ drill.verdict # "ok" => docker = {} /\ drill.restored = {} /\ drill.report # "ok"
  /\ drill.preflight = "ok" => drill.verdict \in {"ok", "INVALID_INPUT"}
===============================================================================
