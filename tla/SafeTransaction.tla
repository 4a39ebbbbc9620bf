---------------------------- MODULE SafeTransaction ----------------------------
(***************************************************************************)
(* lib/db: a transaction whose connection may be lost at any moment        *)
(* (transactionSafety.ts, failoverErrors.ts), over a pool whose idle       *)
(* connections die with the server (poolManager.ts), beside the probe of   *)
(* lib/health/http.ts, whose query outlives its deadline (deadlines.ts).   *)
(*                                                                         *)
(* The server decides a commit it has received on its own, also after the  *)
(* client has lost the connection it sent it on.                           *)
(***************************************************************************)
EXTENDS Naturals, FiniteSets

CONSTANTS Connections, MaxFailovers

ASSUME FailoversAssumption == MaxFailovers \in Nat

VARIABLES
  pool,     \* connections in use and idle, and those whose server is gone
  tx,       \* the transaction: the tracker, the server's side of it, the answer
  probe     \* the readiness probe: its query, its deadline, its answer

txVars == <<pool, tx, probe>>

NoTransaction == [phase |-> "none", connection |-> {}, server |-> "none", answer |-> "none"]
NoProbe == [connection |-> {}, query |-> "none", answer |-> "none"]

TransactionInit ==
  /\ pool = [idle |-> {}, dead |-> {}, failovers |-> 0]
  /\ tx = NoTransaction /\ probe = NoProbe

(* --------------------------------- errors --------------------------------- *)

\* An error carries a code of its own and may wrap others; of the wrapped ones
\* the cause is followed if there is one, and the driver's error only if not.
Codes == {"connection", "ambiguous", "query", "none"}
Errors == [own : Codes, cause : Codes \cup {"absent"}, driver : Codes]

ErrorCodes(e) == {e.own, IF e.cause = "absent" THEN e.driver ELSE e.cause}

IsTransactionResolutionUnknown(e) == "ambiguous" \in ErrorCodes(e)
IsFailoverOrConnectionError(e) == ErrorCodes(e) \cap {"connection", "ambiguous"} # {}

ClassifyDatabaseError(e) ==
  CASE IsTransactionResolutionUnknown(e) -> "TRANSACTION_RESOLUTION_UNKNOWN"
    [] ~IsTransactionResolutionUnknown(e) /\ IsFailoverOrConnectionError(e) -> "FAILOVER_OR_CONNECTION"
    [] OTHER -> IF "query" \in ErrorCodes(e) THEN "QUERY_FAILURE" ELSE "UNKNOWN"

\* The error a client sees says nothing the server has not said: only a lost
\* connection is reported as one.
LostErrors == {e \in Errors : "query" \notin {e.own, e.cause, e.driver}}
QueryErrors == {e \in Errors : {e.own, e.cause, e.driver} \subseteq {"query", "none", "absent"}}

\* Mutant: the error decides on its own, whatever phase it struck in.
ThrownByError(phase, e) ==
  CASE ClassifyDatabaseError(e) = "TRANSACTION_RESOLUTION_UNKNOWN" -> "unconfirmed"
    [] ClassifyDatabaseError(e) = "FAILOVER_OR_CONNECTION" -> "interrupted"
    [] OTHER -> "failed"

\* executeSafeTransaction: what is thrown for an error in a phase.
Thrown(phase, e) ==
  CASE phase = "COMMITTING" \/ ClassifyDatabaseError(e) = "TRANSACTION_RESOLUTION_UNKNOWN" -> "unconfirmed"
    [] phase # "COMMITTING" /\ ClassifyDatabaseError(e) = "FAILOVER_OR_CONNECTION" -> "interrupted"
    [] OTHER -> "failed"

(* ---------------------------------- pool ---------------------------------- *)

InUse == tx.connection \cup probe.connection

\* An idle connection, dead or not, or a new one while there is room.
Connectable == IF pool.idle # {} THEN pool.idle ELSE Connections \ InUse

Take(c) == [pool EXCEPT !.idle = @ \ {c},
                        !.dead = IF c \in pool.idle THEN @ ELSE @ \ {c}]

\* A connection that failed is closed, one that did not is idle again.
GiveBack(c, failed) == [pool EXCEPT !.idle = IF failed THEN @ ELSE @ \cup {c}]

\* handlePoolError, handleConnectionError: the idle connections are evicted
\* when the error is one of a lost connection.
Evict(p, e) == IF IsFailoverOrConnectionError(e) THEN [p EXCEPT !.idle = {}] ELSE p

Failover ==
  /\ pool.failovers < MaxFailovers
  /\ pool' = [pool EXCEPT !.failovers = @ + 1, !.dead = pool.idle \cup InUse]
  /\ UNCHANGED <<tx, probe>>

\* pool.on("error"): an idle connection reports that it was cut.
IdleConnectionLost ==
  \E c \in pool.idle \cap pool.dead, e \in LostErrors :
    /\ pool' = Evict([pool EXCEPT !.idle = @ \ {c}], e)
    /\ UNCHANGED <<tx, probe>>

(* ------------------------------- transaction ------------------------------ *)

Ends(answer) == [tx EXCEPT !.phase = "none", !.connection = {}, !.answer = answer]

\* The tracker is made, a connection taken, BEGIN sent.
BeginTransaction ==
  \E c \in Connectable :
    /\ tx.phase = "none" /\ tx.server # "deciding"
    /\ tx' = [phase |-> "INITIALIZED", connection |-> {c}, server |-> "open", answer |-> "none"]
    /\ pool' = Take(c)
    /\ UNCHANGED probe

RunAction ==
  /\ tx.phase = "INITIALIZED" /\ tx.connection \cap pool.dead = {}
  /\ tx' = [tx EXCEPT !.phase = "IN_FLIGHT"]
  /\ UNCHANGED <<pool, probe>>

\* The callback returns, then the client commits.
ActionReturns ==
  /\ tx.phase = "IN_FLIGHT"
  /\ tx' = [tx EXCEPT !.phase = "COMMITTING"]
  /\ UNCHANGED <<pool, probe>>

CommitArrives ==
  /\ tx.phase = "COMMITTING" /\ tx.server = "open" /\ tx.connection \cap pool.dead = {}
  /\ tx' = [tx EXCEPT !.server = "deciding"]
  /\ UNCHANGED <<pool, probe>>

ServerDecides ==
  \E outcome \in {"committed", "aborted"} :
    /\ tx.server = "deciding"
    /\ tx' = [tx EXCEPT !.server = outcome]
    /\ UNCHANGED <<pool, probe>>

CommitConfirmed ==
  \E c \in tx.connection \ pool.dead :
    /\ tx.phase = "COMMITTING" /\ tx.server = "committed"
    /\ tx' = Ends("ok")
    /\ pool' = GiveBack(c, FALSE)
    /\ UNCHANGED probe

\* The server refuses a statement, or the commit.
StatementFails ==
  \E c \in tx.connection \ pool.dead, e \in QueryErrors :
    /\ \/ tx.phase = "IN_FLIGHT"
       \/ tx.phase = "COMMITTING" /\ tx.server = "aborted"
    /\ tx' = [Ends(Thrown(tx.phase, e)) EXCEPT !.server = "aborted"]
    /\ pool' = GiveBack(c, FALSE)
    /\ UNCHANGED probe

\* The connection is gone; what was not committed is rolled back, and a commit
\* that had arrived is decided without the client.
ConnectionLost ==
  \E c \in tx.connection \cap pool.dead, e \in LostErrors :
    /\ tx.phase \in {"INITIALIZED", "IN_FLIGHT", "COMMITTING"}
    /\ tx' = [Ends(Thrown(tx.phase, e)) EXCEPT !.server = IF @ = "open" THEN "aborted" ELSE @]
    /\ pool' = Evict(GiveBack(c, TRUE), e)
    /\ UNCHANGED probe

(* ---------------------------------- probe --------------------------------- *)

\* getReadinessResponse: the query and its deadline race.
StartProbe ==
  \E c \in Connectable :
    /\ probe.query \in {"none", "answered", "failed"} /\ probe.answer # "pending"
    /\ probe' = [connection |-> {c}, query |-> "running", answer |-> "pending"]
    /\ pool' = Take(c)
    /\ UNCHANGED tx

\* Nothing cancels the query: its connection stays in use.
DeadlinePasses ==
  /\ probe.answer = "pending"
  /\ probe' = [probe EXCEPT !.answer = "not_ready"]
  /\ UNCHANGED <<pool, tx>>

\* Only the first of the two counts.
RaceAnswer(outcome) == IF probe.answer = "pending" THEN outcome ELSE probe.answer

QueryAnswers ==
  \E c \in probe.connection \ pool.dead :
    /\ probe.query = "running"
    /\ probe' = [connection |-> {}, query |-> "answered", answer |-> RaceAnswer("ready")]
    /\ pool' = GiveBack(c, FALSE)
    /\ UNCHANGED tx

QueryLost ==
  \E c \in probe.connection \cap pool.dead, e \in LostErrors :
    /\ probe.query = "running"
    /\ probe' = [connection |-> {}, query |-> "failed", answer |-> RaceAnswer("not_ready")]
    /\ pool' = Evict(GiveBack(c, TRUE), e)
    /\ UNCHANGED tx

TransactionNext ==
  \/ Failover \/ IdleConnectionLost
  \/ BeginTransaction \/ RunAction \/ ActionReturns \/ CommitArrives \/ ServerDecides
  \/ CommitConfirmed \/ StatementFails \/ ConnectionLost
  \/ StartProbe \/ DeadlinePasses \/ QueryAnswers \/ QueryLost

TransactionSpec == TransactionInit /\ [][TransactionNext]_txVars

(* ------------------------------- properties ------------------------------- *)

\* A commit is never denied and never made up, whenever the connection was
\* lost and whatever the error wraps: a caller told ok has its transaction
\* committed, one told that it was interrupted or failed has it rolled back
\* for good, and one told that the commit is unconfirmed is the only one left
\* to ask.
CommitIsNeverDenied ==
  /\ tx.answer = "ok" => tx.server = "committed"
  /\ tx.answer \in {"interrupted", "failed"} => tx.server = "aborted"
===============================================================================
