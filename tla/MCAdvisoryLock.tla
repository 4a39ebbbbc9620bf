--------------------------- MODULE MCAdvisoryLock ---------------------------
(* Three overlapping calls for two connections, two errors on live sessions:  *)
(* one can orphan a lock, the other the connection that holds it.             *)
EXTENDS AdvisoryLock, TLC
==============================================================================
