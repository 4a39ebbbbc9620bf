----------------------------- MODULE BackupGuards -----------------------------
(***************************************************************************)
(* Two decisions about a backup: which key opens it while keys rotate      *)
(* (lib/backup/restoreKeyResolution.ts), and whether a risky migration may *)
(* rely on it (lib/tooling/backupEvidenceGate.ts).  Both are functions of  *)
(* what they are given; the backups and the rotations are external, made   *)
(* as the comments of the two files describe them.                         *)
(***************************************************************************)
EXTENDS Integers

CONSTANTS
  OverlapWindow,   \* BACKUP_KEY_OVERLAP_WINDOW_MS
  EvidenceMaxAge,  \* BACKUP_EVIDENCE_MAX_AGE_MS
  MaxGuardTime     \* bound on the clock and on the rotations

\* A day, and a week.
ASSUME GuardsAssumption ==
  /\ {OverlapWindow, EvidenceMaxAge, MaxGuardTime} \subseteq Nat
  /\ EvidenceMaxAge < OverlapWindow

VARIABLES
  clock,      \* the time, in ticks
  keys,       \* the key backups are made with, the one before it, its deadline,
              \* the time of the last rotation
  backup      \* the last backup

guardVars == <<clock, keys, backup>>

NoKey == -1
Undated == -1
NoBackup == [key |-> NoKey, at |-> Undated, status |-> "MISSING", database |-> "none"]

GuardsInit ==
  /\ clock = 0
  /\ keys = [current |-> NoKey, previous |-> NoKey, overlapUntil |-> 0, rotatedAt |-> 0]
  /\ backup = NoBackup

(* -------------------------------- decisions -------------------------------- *)

\* evaluateBackupEvidenceGate.  An age that is negative stands for any that is
\* no safe integer.
EvidenceVerdict(risk, evidence, database, now, maxAge) ==
  CASE risk = "LOW" -> "ok"
    [] risk = "HIGH" /\ evidence.status = "MISSING" -> "EVIDENCE_MISSING"
    [] risk = "HIGH" /\ evidence.status = "PRESENT_FAILED" -> "EVIDENCE_FAILED"
    [] OTHER -> IF evidence.at = Undated THEN "EVIDENCE_MISSING"
                ELSE IF maxAge < 0 \/ now - evidence.at > maxAge THEN "EVIDENCE_STALE"
                ELSE IF evidence.database # database THEN "EVIDENCE_TARGET_MISMATCH"
                ELSE "ok"

\* Mutant: a tick too long.
OverlapStillIsActive(now) == now <= keys.overlapUntil

\* The overlap ends at the deadline, and not after it.
OverlapIsActive(now) == now < keys.overlapUntil

\* resolveRestoreKey: the current key, or the one before it while the overlap
\* lasts.
ResolveRestoreKey(key, now) ==
  CASE key = NoKey -> "ARTIFACT_KEY_MISSING"
    [] key # NoKey /\ keys.current = NoKey -> "NO_SUPPORTED_KEYS"
    [] key # NoKey /\ key = keys.current -> "primary"
    [] key # NoKey /\ key = keys.previous -> IF OverlapIsActive(now) THEN "overlap" ELSE "KEY_RETIRED"
    [] OTHER -> "KEY_UNKNOWN"

(* --------------------------------- actions --------------------------------- *)

\* A backup, of this database or another, whose time may have got lost.
TakeBackup ==
  /\ keys.current # NoKey
  /\ \E status \in {"PRESENT_SUCCESSFUL", "PRESENT_FAILED"}, database \in {"ours", "other"},
        at \in {clock, Undated} :
       backup' = [key |-> keys.current, at |-> at, status |-> status, database |-> database]
  /\ UNCHANGED <<clock, keys>>

RotateKey ==
  /\ keys.current < MaxGuardTime
  /\ keys' = [current |-> keys.current + 1, previous |-> keys.current,
              overlapUntil |-> clock + OverlapWindow, rotatedAt |-> clock]
  /\ UNCHANGED <<clock, backup>>

GuardsTick ==
  /\ clock < MaxGuardTime
  /\ clock' = clock + 1
  /\ UNCHANGED <<keys, backup>>

GuardsNext == TakeBackup \/ RotateKey \/ GuardsTick

(* -------------------------------- properties ------------------------------- *)

Opens(key) == ResolveRestoreKey(key, clock) \in {"primary", "overlap"}

\* Backups stay restorable while keys rotate, and no longer.  A backup opens
\* with its own key until that key has been rotated out for as long as the
\* overlap lasts, and never once a second rotation has dropped the key; and a
\* backup a risky migration may rely on is never one that no key opens, unless
\* two rotations followed it within its day.
BackupsStayRestorable ==
  /\ backup.status # "MISSING" =>
       (Opens(backup.key) <=> \/ backup.key = keys.current
                              \/ /\ backup.key = keys.current - 1
                                 /\ clock - keys.rotatedAt < OverlapWindow)
  /\ EvidenceVerdict("HIGH", backup, "ours", clock, EvidenceMaxAge) = "ok" =>
       Opens(backup.key) \/ backup.key < keys.current - 1
===============================================================================
