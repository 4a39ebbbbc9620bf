----------------------------- MODULE MCOperations -----------------------------
(* What surrounds the service, each on its own: how a process comes to its       *)
(* database and what a lost connection makes of a transaction; the calls an      *)
(* anchor is reached by, a retried call, its health, an authentication, a quote; *)
(* and the tools of the operators: the restore drill, the export of evidence,    *)
(* the keys of backups, the scheduler's secret, the verification of installs and *)
(* of releases.                                                                  *)
EXTENDS DatabaseAccess, SafeTransaction, SepRetry, AnchorHealth, AnchorSession, QuoteClient,
        RestoreDrill, EvidenceExport, BackupGuards, CronAuthorization, InstallReproducibility, Release

VARIABLE part

databaseVars == <<accessVars, txVars>>
callVars == <<retryVars, healthVars, sessionVars, quoteVars>>
toolVars == <<drillVars, exportVars, guardVars, cronVars, installVars, releaseVars>>
vars == <<databaseVars, callVars, toolVars, part>>

Init ==
  /\ part \in {"access", "transaction", "retry", "health", "session", "quote",
               "drill", "export", "guards", "cron", "install", "release"}
  /\ AccessInit /\ TransactionInit
  /\ RetryInit /\ HealthInit /\ SessionInit /\ QuoteInit
  /\ DrillInit /\ ExportInit /\ GuardsInit /\ CronInit /\ InstallInit /\ ReleaseInit
  /\ part # "export" => rows = {}
  /\ part # "retry" => aborted = "no"
  /\ part # "session" => ~session.memo /\ ~session.clientDomain

DatabaseNext ==
  \/ part = "access" /\ AccessNext /\ UNCHANGED txVars
  \/ part = "transaction" /\ TransactionNext /\ UNCHANGED accessVars

CallNext ==
  \/ part = "retry" /\ RetryNext /\ UNCHANGED <<healthVars, sessionVars, quoteVars>>
  \/ part = "health" /\ HealthNext /\ UNCHANGED <<retryVars, sessionVars, quoteVars>>
  \/ part = "session" /\ SessionNext /\ UNCHANGED <<retryVars, healthVars, quote>>
  \/ part = "quote" /\ QuoteNext /\ UNCHANGED <<retryVars, healthVars, session, tokenClock>>

ToolNext ==
  \/ part = "drill" /\ DrillNext /\ UNCHANGED <<exportVars, guardVars, cronVars, installVars, releaseVars>>
  \/ part = "export" /\ ExportNext /\ UNCHANGED <<drillVars, guardVars, cronVars, installVars, releaseVars>>
  \/ part = "guards" /\ GuardsNext /\ UNCHANGED <<drillVars, exportVars, cronVars, installVars, releaseVars>>
  \/ part = "cron" /\ CronNext /\ UNCHANGED <<drillVars, exportVars, guardVars, installVars, releaseVars>>
  \/ part = "install" /\ InstallNext /\ UNCHANGED <<drillVars, exportVars, guardVars, cronVars, releaseVars>>
  \/ part = "release" /\ ReleaseNext /\ UNCHANGED <<drillVars, exportVars, guardVars, cronVars, installVars>>

Next ==
  /\ UNCHANGED part
  /\ \/ DatabaseNext /\ UNCHANGED <<callVars, toolVars>>
     \/ CallNext /\ UNCHANGED <<databaseVars, toolVars>>
     \/ ToolNext /\ UNCHANGED <<databaseVars, callVars>>

Spec == Init /\ [][Next]_vars
===============================================================================
