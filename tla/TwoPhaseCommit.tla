--------------------------- MODULE TwoPhaseCommit ---------------------------
(***************************************************************************)
(* Coordinated transactions of one initiating node: remote transactions    *)
(* (remote_transaction.c), the transaction callbacks that commit or abort  *)
(* them (transaction_management.c), the distributed transaction numbers    *)
(* of the backends (backend_data.c), the worker sessions at the other end  *)
(* of the connections, and 2PC recovery (transaction_recovery.c).          *)
(*                                                                         *)
(* A gid stands for one connection of one coordinated transaction and for  *)
(* the prepared transaction it may leave behind: Assign2PCIdentifier gives *)
(* each such connection a name of its own.  Commands and responses travel  *)
(* over chan; a connection that breaks loses the response, while the       *)
(* command it carried may still reach the worker (WorkerExec) or not       *)
(* (DropCommand).                                                          *)
(***************************************************************************)
EXTENDS Naturals, FiniteSets

CONSTANTS
  Xacts,        \* coordinated transactions, each run by a backend of its own
  OuterXacts,   \* those that start_management_transaction may start for another database
  Workers,
  Gids,
  XactOf,       \* the transaction of a gid
  WorkerOf,     \* the node of a gid
  Statements,   \* kinds of commands the transactions run, see Execute
  MaxFailures,  \* bound on broken connections, crashes and failed queries
  None

ASSUME ConstantsAssumption ==
  /\ OuterXacts \subseteq Xacts
  /\ XactOf \in [Gids -> Xacts]
  /\ WorkerOf \in [Gids -> Workers]
  /\ Statements \subseteq {"read", "write", "write_other", "node"}
  /\ MaxFailures \in Nat
  /\ None \notin Workers \cup Gids

VARIABLES
  \* the backend that runs the transaction
  phase,      \* how far it is in CoordinatedTransactionCallback
  xact,       \* status of the local transaction
  outer,      \* status of the transaction in the other database that started it
  active,     \* its BackendData holds a distributed transaction id
  number,     \* the transactionNumber it was given (0: none yet)
  nextNumber, \* BackendManagementShmemData.nextTransactionNumber
  use2PC,     \* ShouldCoordinatedTransactionUse2PC
  \* its connections
  rstate,     \* RemoteTransaction.transactionState
  failed,     \* RemoteTransaction.transactionFailed
  critical,   \* RemoteTransaction.transactionCritical
  access,     \* the placement accesses in MultiConnection.referencedPlacements
  wrote,      \* history: a command that may write completed on the connection
  rows,       \* tuples of pg_dist_transaction; visible once xact is committed
  \* the network and the workers
  link, chan, wtx,
  \* the session that runs RecoverTwoPhaseCommits
  rpc,        \* where it is
  todo,       \* workers still to recover
  rw,         \* the worker being recovered
  P, A, T, Q, \* pendingTransactionSet, active numbers, records, recheckTransactionSet
  scanned,    \* backends ActiveDistributedTransactionNumbers has looked at
  cur,        \* the record whose outer transaction is being looked up
  deletes,    \* records deleted by the recovery transaction, not yet committed
  failures

coordVars == <<phase, xact, outer, active, number, nextNumber, use2PC>>
connVars == <<rstate, failed, critical, access, wrote>>
netVars == <<link, chan, wtx>>
recVars == <<rpc, todo, rw, P, A, T, Q, scanned, cur, deletes>>
vars == <<coordVars, connVars, rows, netVars, recVars, failures>>

Phases == {"idle", "executing", "prepare", "commit_1pc", "checked",
           "post_commit", "post_abort", "finished"}
XactStates == {"none", "in_progress", "committed", "aborted"}
OuterStates == {"none", "in_progress", "clog_committed", "committed", "aborted"}
RemoteStates == {"NOT_STARTED", "STARTED", "1PC_ABORTING", "2PC_ABORTING", "ABORTED",
                 "PREPARING", "PREPARED", "1PC_COMMITTING", "2PC_COMMITTING", "COMMITTED"}
Commands == {"PREPARE", "COMMIT", "ROLLBACK", "COMMIT_PREPARED", "ROLLBACK_PREPARED"}
Responses == {"ok", "error"}
WorkerXactStates == {"none", "open", "prepared", "committed", "aborted"}
RecoverySteps == {"idle", "next", "A", "Q", "records", "outer_in_progress", "outer_ended", "aborts"}

TypeOK ==
  /\ phase \in [Xacts -> Phases]
  /\ xact \in [Xacts -> XactStates]
  /\ outer \in [Xacts -> OuterStates]
  /\ active \subseteq Xacts
  /\ number \in [Xacts -> Nat]
  /\ nextNumber \in Nat \ {0}
  /\ use2PC \subseteq Xacts
  /\ rstate \in [Gids -> RemoteStates]
  /\ failed \subseteq Gids
  /\ critical \subseteq Gids
  /\ access \in [Gids -> SUBSET {"read", "write"}]
  /\ wrote \subseteq Gids
  /\ rows \subseteq Gids
  /\ link \in [Gids -> {"up", "down"}]
  /\ chan \in [Gids -> Commands \cup Responses \cup {"none"}]
  /\ wtx \in [Gids -> WorkerXactStates]
  /\ rpc \in RecoverySteps
  /\ todo \subseteq Workers
  /\ rw \in Workers \cup {None}
  /\ P \subseteq Gids
  /\ A \subseteq Nat
  /\ T \subseteq Gids
  /\ Q \subseteq Gids
  /\ scanned \subseteq Xacts
  /\ cur \in IF rpc \in {"outer_in_progress", "outer_ended"} THEN Gids ELSE {None}
  /\ deletes \subseteq Gids
  /\ failures \in 0..MaxFailures

\* BackendManagementShmemInit
InitialTransactionNumber == 1

Init ==
  /\ phase = [t \in Xacts |-> "idle"]
  /\ xact = [t \in Xacts |-> "none"]
  /\ outer = [t \in Xacts |-> "none"]
  /\ active = {}
  /\ number = [t \in Xacts |-> 0]
  /\ nextNumber = InitialTransactionNumber
  /\ use2PC = {}
  /\ rstate = [g \in Gids |-> "NOT_STARTED"]
  /\ failed = {} /\ critical = {} /\ wrote = {} /\ rows = {}
  /\ access = [g \in Gids |-> {}]
  /\ link = [g \in Gids |-> "up"]
  /\ chan = [g \in Gids |-> "none"]
  /\ wtx = [g \in Gids |-> "none"]
  /\ rpc = "idle"
  /\ todo = {} /\ P = {} /\ A = {} /\ T = {} /\ Q = {} /\ scanned = {} /\ deletes = {}
  /\ rw = None /\ cur = None
  /\ failures = 0

GidsOf(t) == {g \in Gids : XactOf[g] = t}

(***************************************************************************)
(* The outcome of a transaction.  A transaction run on behalf of another   *)
(* database (IsMainDBCommand) commits only if that outer transaction does. *)
(***************************************************************************)
CommitDecided(t) ==
  IF outer[t] # "none" THEN outer[t] \in {"clog_committed", "committed"}
                       ELSE xact[t] = "committed"

AbortDecided(t) == xact[t] = "aborted" \/ outer[t] = "aborted"

(***************************************************************************)
(* ConnectionModifiedPlacement: a connection without placement accesses is *)
(* a node connection and counts as modified.                               *)
(***************************************************************************)
ConnectionModifiedPlacement(g) ==
  /\ rstate[g] # "NOT_STARTED"
  /\ access[g] = {} \/ "write" \in access[g]

-----------------------------------------------------------------------------
(* Statements of the transaction block.                                    *)

\* UseCoordinatedTransaction, AssignDistributedTransactionId and, for an outer
\* transaction, start_management_transaction.
UseCoordinatedTransaction(t) ==
  /\ phase[t] = "idle"
  /\ phase' = [phase EXCEPT ![t] = "executing"]
  /\ xact' = [xact EXCEPT ![t] = "in_progress"]
  /\ \/ outer' = [outer EXCEPT ![t] = "none"] /\ use2PC' = use2PC
     \/ /\ t \in OuterXacts
        /\ outer' = [outer EXCEPT ![t] = "in_progress"]
        /\ use2PC' = use2PC \cup {t}
  /\ active' = active \cup {t}
  /\ number' = [number EXCEPT ![t] = nextNumber]
  /\ nextNumber' = nextNumber + 1
  /\ UNCHANGED <<connVars, rows, netVars, recVars, failures>>

\* "write" modifies a placement that the transaction accessed over this connection before
\* or, over a connection that is not in a transaction yet, any placement; "write_other"
\* modifies one that it has not accessed, which any connection of the pool may be given.
Modifications == {"write", "write_other"}

\* A statement with several tasks or placements: DecideTransactionPropertiesForTaskList
\* and StartDistributedExecution call Use2PCForCoordinatedTransaction.
Use2PCForCoordinatedTransaction(t) ==
  /\ phase[t] = "executing"
  /\ Statements \cap Modifications # {}
  /\ use2PC' = use2PC \cup {t}
  /\ UNCHANGED <<phase, xact, outer, active, number, nextNumber,
                 connVars, rows, netVars, recVars, failures>>

\* XactModificationLevel = XACT_MODIFICATION_DATA
TransactionModified(t) == \E g \in GidsOf(t) : "write" \in access[g]

\* Activate2PCIfModifyingTransactionExpandsToNewNode
ExpandsToNewConnection_Never(g) == FALSE

ExpandsToNewConnection(g) ==
  TransactionModified(XactOf[g]) /\ ~ConnectionModifiedPlacement(g)

\* ExpandsToNewConnection is asked for a task that is assigned to the connection because of
\* an earlier access, and before a BEGIN.  A task of the pool that is given to a connection
\* in REMOTE_TRANS_STARTED is sent without it.
ChecksExpansion(g, statement) ==
  rstate[g] = "NOT_STARTED" \/ (statement = "write" /\ access[g] # {})

\* SendCommandToWorkersParamsInternal, over node connections, always asks for 2PC.
NodeCommand(statement) == statement = "node"

\* A task of a SELECT or of a modification, or a command sent over a node connection, with
\* the BEGIN in front of the first one.
Execute(g, statement) ==
  LET t == XactOf[g] IN
  /\ phase[t] = "executing"
  /\ link[g] = "up"
  /\ rstate[g] \in {"NOT_STARTED", "STARTED"}
  /\ g \notin failed
  /\ rstate' = [rstate EXCEPT ![g] = "STARTED"]
  /\ wtx' = [wtx EXCEPT ![g] = "open"]
  /\ critical' = critical \cup {g}
  /\ access' = [access EXCEPT ![g] = @ \cup (IF statement \in Modifications THEN {"write"}
                                             ELSE {statement} \ {"node"})]
  /\ wrote' = IF statement = "read" THEN wrote ELSE wrote \cup {g}
  /\ use2PC' = IF \/ NodeCommand(statement)
                   \/ /\ statement \in Modifications
                      /\ ChecksExpansion(g, statement)
                      /\ ExpandsToNewConnection(g)
                 THEN use2PC \cup {t} ELSE use2PC
  /\ UNCHANGED <<phase, xact, outer, active, number, nextNumber,
                 failed, rows, link, chan, recVars, failures>>

\* The connection is lost while a SELECT is sent over it for the first time: the
\* executor marks the remote transaction as failed and may go on elsewhere.
ReadFails(g) ==
  /\ phase[XactOf[g]] = "executing"
  /\ link[g] = "down"
  /\ "read" \in Statements
  /\ g \notin critical \cup failed
  /\ rstate' = [rstate EXCEPT ![g] = "STARTED"]
  /\ failed' = failed \cup {g}
  /\ access' = [access EXCEPT ![g] = @ \cup {"read"}]
  /\ UNCHANGED <<coordVars, critical, wrote, rows, netVars, recVars, failures>>

-----------------------------------------------------------------------------
(* XACT_EVENT_PRE_COMMIT                                                   *)

\* An ERROR or a cancellation: the local transaction aborts and CallXactCallbacks runs
\* XACT_EVENT_ABORT.
AbortXact(t) ==
  /\ xact' = [xact EXCEPT ![t] = "aborted"]
  /\ phase' = [phase EXCEPT ![t] = "post_abort"]
  /\ UNCHANGED <<outer, active, number, nextNumber, use2PC>>

RaiseError(t) ==
  /\ phase[t] \in {"executing", "prepare", "commit_1pc", "checked"}
  /\ AbortXact(t)
  /\ UNCHANGED <<connVars, rows, netVars, recVars, failures>>

\* The transactionFailed flags CheckRemoteTransactionsHealth leaves behind when libpq
\* has noticed that the connections in noticed are broken.
FailedAfterHealthCheck(t, noticed) ==
  failed \cup {g \in noticed : rstate[g] # "NOT_STARTED"}

BrokenConnections(t) == {g \in GidsOf(t) : link[g] = "down"}

CheckRemoteTransactionsHealth(t, failedNow) == failedNow \cap critical \cap GidsOf(t) = {}

ErrorIfPostCommitFailedShardPlacements_Skipped(t, failedNow) == TRUE

ErrorIfPostCommitFailedShardPlacements(t, failedNow) ==
  \A g \in GidsOf(t) \cap failedNow : "write" \notin access[g]

\* Entry of the pre-commit callback.  Without 2PC the health check comes first.
PreCommit(t) ==
  /\ phase[t] = "executing"
  /\ outer[t] # "none" => outer[t] = "in_progress"
  /\ IF t \in use2PC
       THEN /\ phase' = [phase EXCEPT ![t] = "prepare"]
            /\ UNCHANGED <<xact, outer, active, number, nextNumber, use2PC, failed>>
       ELSE \E noticed \in SUBSET BrokenConnections(t) :
              LET failedNow == FailedAfterHealthCheck(t, noticed) IN
              /\ failed' = failedNow
              /\ IF CheckRemoteTransactionsHealth(t, failedNow)
                   THEN /\ phase' = [phase EXCEPT ![t] = "commit_1pc"]
                        /\ UNCHANGED <<xact, outer, active, number, nextNumber, use2PC>>
                   ELSE AbortXact(t)
  /\ UNCHANGED <<rstate, critical, access, wrote, rows, netVars, recVars, failures>>

\* Connections CoordinatedRemoteTransactionsPrepare still has to send PREPARE to.
ToPrepare(t) ==
  {g \in GidsOf(t) : /\ rstate[g] = "STARTED"
                     /\ g \notin failed
                     /\ ConnectionModifiedPlacement(g)}

\* The record is logged before the command is sent.
StartRemoteTransactionPrepare(g) ==
  LET t == XactOf[g] IN
  /\ phase[t] = "prepare"
  /\ g \in ToPrepare(t)
  /\ rows' = rows \cup {g}
  /\ IF link[g] = "up"
       THEN /\ rstate' = [rstate EXCEPT ![g] = "PREPARING"]
            /\ chan' = [chan EXCEPT ![g] = "PREPARE"]
            /\ UNCHANGED <<coordVars, failed>>
       ELSE /\ failed' = failed \cup {g}
            /\ IF g \in critical THEN AbortXact(t) ELSE UNCHANGED coordVars
            /\ UNCHANGED <<rstate, chan>>
  /\ UNCHANGED <<critical, access, wrote, link, wtx, recVars, failures>>

\* GetRemoteCommandResult returns: the response has arrived or the connection is broken.
ResultArrived_WaitsForever(g) == chan[g] \in Responses

ResultArrived(g) == chan[g] \in Responses \/ link[g] = "down"
ResponseOK(g) == chan[g] = "ok" /\ link[g] = "up"

ConsumeResult(g) == IF link[g] = "up" THEN [chan EXCEPT ![g] = "none"] ELSE chan

FinishRemoteTransactionPrepare(g) ==
  LET t == XactOf[g] IN
  /\ phase[t] = "prepare"
  /\ ToPrepare(t) = {}
  /\ rstate[g] = "PREPARING"
  /\ ResultArrived(g)
  /\ chan' = ConsumeResult(g)
  /\ IF ResponseOK(g)
       THEN /\ rstate' = [rstate EXCEPT ![g] = "PREPARED"]
            /\ UNCHANGED <<coordVars, failed>>
       ELSE /\ rstate' = [rstate EXCEPT ![g] = "ABORTED"]
            /\ failed' = failed \cup {g}
            /\ IF g \in critical THEN AbortXact(t) ELSE UNCHANGED coordVars
  /\ UNCHANGED <<critical, access, wrote, rows, link, wtx, recVars, failures>>

\* End of the pre-commit callback with 2PC: the health checks.
PrepareDone(t) ==
  /\ phase[t] = "prepare"
  /\ ToPrepare(t) = {}
  /\ \A g \in GidsOf(t) : rstate[g] # "PREPARING"
  /\ \E noticed \in SUBSET BrokenConnections(t) :
       LET failedNow == FailedAfterHealthCheck(t, noticed) IN
       /\ failed' = failedNow
       /\ IF /\ CheckRemoteTransactionsHealth(t, failedNow)
             /\ ErrorIfPostCommitFailedShardPlacements(t, failedNow)
            THEN /\ phase' = [phase EXCEPT ![t] = "checked"]
                 /\ UNCHANGED <<xact, outer, active, number, nextNumber, use2PC>>
            ELSE AbortXact(t)
  /\ UNCHANGED <<rstate, critical, access, wrote, rows, netVars, recVars, failures>>
-----------------------------------------------------------------------------
(* CoordinatedRemoteTransactionsCommit, called before the local commit for *)
(* 1PC and from XACT_EVENT_COMMIT for 2PC, and the local commit between.   *)

Committing(t) == phase[t] \in {"commit_1pc", "post_commit"}

\* Connections the first loop still has to send a command to.  A management
\* transaction leaves its prepared transactions to recovery (IsMainDBCommand).
ToCommit(t) ==
  IF phase[t] = "post_commit" /\ outer[t] # "none"
    THEN {}
    ELSE {g \in GidsOf(t) : rstate[g] \in {"STARTED", "PREPARED"}}

\* Connections whose response the second loop still has to read.
AwaitingCommit(t) ==
  {g \in GidsOf(t) : \/ rstate[g] \in {"1PC_COMMITTING", "2PC_COMMITTING"} /\ g \notin failed
                     \/ rstate[g] = "1PC_ABORTING" /\ link[g] = "up" /\ chan[g] # "none"}

\* SendRemoteCommand: chan' when command is sent over g.
Send(g, command) == IF link[g] = "up" THEN [chan EXCEPT ![g] = command] ELSE chan

StartRemoteTransactionCommit(g) ==
  LET t == XactOf[g]
      sendFailed == IF link[g] = "up" THEN failed ELSE failed \cup {g}
  IN
  /\ Committing(t)
  /\ g \in ToCommit(t)
  /\ \/ /\ g \in failed
        /\ rstate' = [rstate EXCEPT ![g] = "1PC_ABORTING"]
        /\ chan' = Send(g, "ROLLBACK")
        /\ failed' = failed
     \/ /\ g \notin failed
        /\ rstate[g] = "PREPARED"
        /\ rstate' = [rstate EXCEPT ![g] = "2PC_COMMITTING"]
        /\ chan' = Send(g, "COMMIT_PREPARED")
        /\ failed' = sendFailed
     \/ /\ g \notin failed
        /\ rstate[g] = "STARTED"
        /\ rstate' = [rstate EXCEPT ![g] = "1PC_COMMITTING"]
        /\ chan' = Send(g, "COMMIT")
        /\ failed' = sendFailed
  /\ UNCHANGED <<coordVars, critical, access, wrote, rows, link, wtx, recVars, failures>>

FinishRemoteTransactionCommit(g) ==
  LET t == XactOf[g] IN
  /\ Committing(t)
  /\ ToCommit(t) = {}
  /\ g \in AwaitingCommit(t)
  /\ ResultArrived(g)
  /\ chan' = ConsumeResult(g)
  /\ IF ResponseOK(g)
       THEN /\ rstate' = [rstate EXCEPT ![g] =
                            IF @ = "1PC_ABORTING" THEN "ABORTED" ELSE "COMMITTED"]
            /\ failed' = failed
       ELSE /\ failed' = failed \cup {g}
            /\ rstate' = rstate
  /\ UNCHANGED <<coordVars, critical, access, wrote, rows, link, wtx, recVars, failures>>

\* End of the pre-commit callback with 1PC.
OnePhaseCommitDone(t) ==
  /\ phase[t] = "commit_1pc"
  /\ ToCommit(t) = {} /\ AwaitingCommit(t) = {}
  /\ IF ErrorIfPostCommitFailedShardPlacements(t, failed)
       THEN /\ phase' = [phase EXCEPT ![t] = "checked"]
            /\ UNCHANGED <<xact, outer, active, number, nextNumber, use2PC>>
       ELSE AbortXact(t)
  /\ UNCHANGED <<connVars, rows, netVars, recVars, failures>>

\* RecordTransactionCommit and ProcArrayEndTransaction: from here on the records of
\* the transaction are visible.
LocalCommit(t) ==
  /\ phase[t] = "checked"
  /\ xact' = [xact EXCEPT ![t] = "committed"]
  /\ phase' = [phase EXCEPT ![t] = "post_commit"]
  /\ UNCHANGED <<outer, active, number, nextNumber, use2PC,
                 connVars, rows, netVars, recVars, failures>>

\* AfterXactConnectionHandling and UnSetDistributedTransactionId at the end of the
\* commit and abort callbacks.
EndTransaction(t) ==
  /\ phase' = [phase EXCEPT ![t] = "finished"]
  /\ active' = active \ {t}
  /\ link' = [g \in Gids |-> IF XactOf[g] = t THEN "down" ELSE link[g]]
  /\ UNCHANGED <<xact, outer, number, nextNumber, use2PC,
                 connVars, rows, chan, wtx, recVars, failures>>

PostCommitDone(t) ==
  /\ phase[t] = "post_commit"
  /\ ToCommit(t) = {} /\ AwaitingCommit(t) = {}
  /\ EndTransaction(t)

-----------------------------------------------------------------------------
(* XACT_EVENT_ABORT: CoordinatedRemoteTransactionsAbort                    *)

\* Connections still to be sent a ROLLBACK [PREPARED]; over a broken one nothing can
\* be sent and its state stays as it is.
ToAbort(t) ==
  {g \in GidsOf(t) : /\ link[g] = "up"
                     /\ rstate[g] \notin {"NOT_STARTED", "1PC_ABORTING", "2PC_ABORTING", "ABORTED"}}

StartRemoteTransactionAbort(g) ==
  LET t == XactOf[g] IN
  /\ phase[t] = "post_abort"
  /\ g \in ToAbort(t)
  /\ \/ /\ rstate[g] \in {"PREPARING", "PREPARED"}
        /\ chan[g] \notin Commands
        /\ rstate' = [rstate EXCEPT ![g] = "2PC_ABORTING"]
        /\ chan' = [chan EXCEPT ![g] = "ROLLBACK_PREPARED"]
        /\ link' = link
     \/ /\ rstate[g] \notin {"PREPARING", "PREPARED"}
        /\ chan[g] \notin Commands
        /\ rstate' = [rstate EXCEPT ![g] = "1PC_ABORTING"]
        /\ chan' = [chan EXCEPT ![g] = "ROLLBACK"]
        /\ link' = link
     \/ /\ rstate[g] \notin {"PREPARING", "PREPARED"}
        /\ chan[g] \in Commands
        /\ link' = [link EXCEPT ![g] = "down"]
        /\ UNCHANGED <<rstate, chan>>
  /\ UNCHANGED <<coordVars, failed, critical, access, wrote, rows, wtx, recVars, failures>>

FinishRemoteTransactionAbort(g) ==
  LET t == XactOf[g] IN
  /\ phase[t] = "post_abort"
  /\ ToAbort(t) = {}
  /\ rstate[g] \in {"1PC_ABORTING", "2PC_ABORTING"}
  /\ ResultArrived(g)
  /\ chan' = ConsumeResult(g)
  /\ rstate' = [rstate EXCEPT ![g] = "ABORTED"]
  /\ UNCHANGED <<coordVars, failed, critical, access, wrote, rows, link, wtx, recVars, failures>>

PostAbortDone(t) ==
  /\ phase[t] = "post_abort"
  /\ ToAbort(t) = {}
  /\ \A g \in GidsOf(t) : rstate[g] \notin {"1PC_ABORTING", "2PC_ABORTING"}
  /\ EndTransaction(t)

-----------------------------------------------------------------------------
(* The transaction in another database that started a management           *)
(* transaction.  Its own pre-commit callback sends COMMIT to the main      *)
(* database (PreCommit) and it commits after that has returned.            *)

OuterRecordCommit(t) ==
  /\ outer[t] = "in_progress"
  /\ phase[t] = "finished" /\ xact[t] = "committed"
  /\ outer' = [outer EXCEPT ![t] = "clog_committed"]
  /\ UNCHANGED <<phase, xact, active, number, nextNumber, use2PC,
                 connVars, rows, netVars, recVars, failures>>

OuterEndTransaction(t) ==
  /\ outer[t] = "clog_committed"
  /\ outer' = [outer EXCEPT ![t] = "committed"]
  /\ UNCHANGED <<phase, xact, active, number, nextNumber, use2PC,
                 connVars, rows, netVars, recVars, failures>>

OuterAbort(t) ==
  /\ outer[t] = "in_progress"
  /\ outer' = [outer EXCEPT ![t] = "aborted"]
  /\ UNCHANGED <<phase, xact, active, number, nextNumber, use2PC,
                 connVars, rows, netVars, recVars, failures>>

-----------------------------------------------------------------------------
(* Workers and connections.                                                *)

\* The worker runs the command and answers if the connection is still there.
Reply(g, response) ==
  chan' = [chan EXCEPT ![g] = IF link[g] = "up" THEN response ELSE "none"]

WorkerExec(g) ==
  /\ chan[g] \in Commands
  /\ \/ /\ chan[g] = "PREPARE"
        /\ \/ wtx' = [wtx EXCEPT ![g] = "prepared"] /\ Reply(g, "ok")
           \/ wtx' = [wtx EXCEPT ![g] = "aborted"] /\ Reply(g, "error")
     \/ /\ chan[g] = "COMMIT"
        /\ \/ wtx' = [wtx EXCEPT ![g] = "committed"] /\ Reply(g, "ok")
           \/ wtx' = [wtx EXCEPT ![g] = "aborted"] /\ Reply(g, "error")
     \/ /\ chan[g] = "ROLLBACK"
        /\ wtx' = [wtx EXCEPT ![g] = IF @ = "open" THEN "aborted" ELSE @]
        /\ Reply(g, "ok")
     \/ /\ chan[g] \in {"COMMIT_PREPARED", "ROLLBACK_PREPARED"}
        /\ IF wtx[g] = "prepared"
             THEN /\ wtx' = [wtx EXCEPT ![g] = IF chan[g] = "COMMIT_PREPARED"
                                                 THEN "committed" ELSE "aborted"]
                  /\ Reply(g, "ok")
             ELSE wtx' = wtx /\ Reply(g, "error")
  /\ UNCHANGED <<coordVars, connVars, rows, link, recVars, failures>>

\* A broken connection: the command it carried never arrives.
DropCommand(g) ==
  /\ link[g] = "down" /\ chan[g] \in Commands
  /\ chan' = [chan EXCEPT ![g] = "none"]
  /\ UNCHANGED <<coordVars, connVars, rows, link, wtx, recVars, failures>>

\* The worker notices that the client is gone and rolls back.
WorkerSessionEnds(g) ==
  /\ link[g] = "down" /\ chan[g] = "none" /\ wtx[g] = "open"
  /\ wtx' = [wtx EXCEPT ![g] = "aborted"]
  /\ UNCHANGED <<coordVars, connVars, rows, link, chan, recVars, failures>>

Fail == failures < MaxFailures /\ failures' = failures + 1

\* The responses in transit on the connections in broken are lost.
BreakLinks(broken) ==
  /\ link' = [g \in Gids |-> IF g \in broken THEN "down" ELSE link[g]]
  /\ chan' = [g \in Gids |-> IF g \in broken /\ chan[g] \in Responses THEN "none" ELSE chan[g]]

LinkDown(g) ==
  /\ Fail
  /\ link[g] = "up" /\ phase[XactOf[g]] \notin {"idle", "finished"}
  /\ BreakLinks({g})
  /\ UNCHANGED <<coordVars, connVars, rows, wtx, recVars>>

\* Open transactions and commands in transit are lost; prepared transactions survive.
WorkerCrash(w) ==
  /\ Fail
  /\ link' = [g \in Gids |-> IF WorkerOf[g] = w /\ rstate[g] # "NOT_STARTED" THEN "down" ELSE link[g]]
  /\ chan' = [g \in Gids |-> IF WorkerOf[g] = w THEN "none" ELSE chan[g]]
  /\ wtx' = [g \in Gids |-> IF WorkerOf[g] = w /\ wtx[g] = "open" THEN "aborted" ELSE wtx[g]]
  /\ UNCHANGED <<coordVars, connVars, rows, recVars>>

NoRecovery ==
  /\ rpc' = "idle" /\ todo' = {} /\ rw' = None
  /\ P' = {} /\ A' = {} /\ T' = {} /\ Q' = {} /\ scanned' = {} /\ deletes' = {}
  /\ cur' = None

\* The initiating node restarts: shared memory is new, running transactions and the
\* uncommitted work of recovery are rolled back.
CoordinatorCrash ==
  LET running == {t \in Xacts : phase[t] \notin {"idle", "finished"}} IN
  /\ Fail
  /\ phase' = [t \in Xacts |-> IF t \in running THEN "finished" ELSE phase[t]]
  /\ xact' = [t \in Xacts |-> IF xact[t] = "in_progress" THEN "aborted" ELSE xact[t]]
  /\ outer' = [t \in Xacts |-> IF outer[t] = "in_progress" THEN "aborted"
                               ELSE IF outer[t] = "clog_committed" THEN "committed"
                               ELSE outer[t]]
  /\ active' = {}
  /\ nextNumber' = InitialTransactionNumber
  /\ BreakLinks({g \in Gids : XactOf[g] \in running})
  /\ NoRecovery
  /\ UNCHANGED <<number, use2PC, connVars, rows, wtx>>
-----------------------------------------------------------------------------
(* RecoverTwoPhaseCommits.  It runs in one transaction, under a lock that  *)
(* conflicts with itself, so there is one recovery at a time.              *)

PreparedOn(w) == {g \in Gids : WorkerOf[g] = w /\ wtx[g] = "prepared"}

\* Tuples of the worker's group that a snapshot taken now would show.
VisibleRecords_Dirty(w) == {g \in rows : WorkerOf[g] = w}

VisibleRecords(w) == {g \in rows : WorkerOf[g] = w /\ xact[XactOf[g]] = "committed"}

RecoverTwoPhaseCommits ==
  /\ rpc = "idle"
  /\ rpc' = "next" /\ todo' = Workers
  /\ UNCHANGED <<rw, P, A, T, Q, scanned, cur, deletes>>
  /\ UNCHANGED <<coordVars, connVars, rows, netVars, failures>>

\* A query on the worker fails in PendingWorkerTransactionList, or the session is
\* cancelled: the transaction rolls back and with it the deletes.
RecoveryError ==
  /\ rpc # "idle"
  /\ Fail
  /\ NoRecovery
  /\ UNCHANGED <<coordVars, connVars, rows, netVars>>

\* The worker cannot be reached: it is skipped with a warning.
CannotConnect(w) ==
  /\ rpc = "next" /\ w \in todo
  /\ Fail
  /\ todo' = todo \ {w}
  /\ UNCHANGED <<rpc, rw, P, A, T, Q, scanned, cur, deletes>>
  /\ UNCHANGED <<coordVars, connVars, rows, netVars>>

\* P = prepared transactions on worker
PendingWorkerTransactionList(w) ==
  /\ rpc = "next" /\ w \in todo
  /\ rpc' = "A" /\ rw' = w
  /\ P' = PreparedOn(w)
  /\ UNCHANGED <<todo, A, T, Q, scanned, cur, deletes>>
  /\ UNCHANGED <<coordVars, connVars, rows, netVars, failures>>

\* A = active distributed transactions, collected backend by backend
ActiveDistributedTransactionNumbers(t) ==
  /\ rpc = "A" /\ t \notin scanned
  /\ scanned' = scanned \cup {t}
  /\ A' = IF t \in active THEN A \cup {number[t]} ELSE A
  /\ UNCHANGED <<rpc, todo, rw, P, T, Q, cur, deletes>>
  /\ UNCHANGED <<coordVars, connVars, rows, netVars, failures>>

\* T = pg_dist_transaction snapshot
SnapshotRecords_ThenPending ==
  /\ rpc = "A" /\ scanned = Xacts
  /\ rpc' = "Q"
  /\ T' = VisibleRecords(rw)
  /\ P' = PreparedOn(rw)
  /\ UNCHANGED <<todo, rw, A, Q, scanned, cur, deletes>>
  /\ UNCHANGED <<coordVars, connVars, rows, netVars, failures>>

SnapshotRecords ==
  /\ rpc = "A" /\ scanned = Xacts
  /\ rpc' = "Q"
  /\ T' = VisibleRecords(rw)
  /\ UNCHANGED <<todo, rw, P, A, Q, scanned, cur, deletes>>
  /\ UNCHANGED <<coordVars, connVars, rows, netVars, failures>>

\* Q = prepared transactions on worker
RecheckPreparedTransactions_Skipped ==
  /\ rpc = "Q"
  /\ rpc' = "records"
  /\ Q' = P
  /\ UNCHANGED <<todo, rw, P, A, T, scanned, cur, deletes>>
  /\ UNCHANGED <<coordVars, connVars, rows, netVars, failures>>

RecheckPreparedTransactions ==
  /\ rpc = "Q"
  /\ rpc' = "records"
  /\ Q' = PreparedOn(rw)
  /\ UNCHANGED <<todo, rw, P, A, T, scanned, cur, deletes>>
  /\ UNCHANGED <<coordVars, connVars, rows, netVars, failures>>

\* Only the number in the gid is looked up.
IsTransactionInProgress_NotChecked(g) == FALSE

IsTransactionInProgress(g) == number[XactOf[g]] \in A

LeaveWorker ==
  /\ rpc' = "next" /\ todo' = todo \ {rw} /\ rw' = None
  /\ P' = {} /\ A' = {} /\ T' = {} /\ Q' = {} /\ scanned' = {}
  /\ cur' = None

\* RecoverPreparedTransactionOnWorker: the worker resolves g and says so.
RecoverPreparedTransactionOnWorker(g, outcome) ==
  /\ wtx[g] = "prepared"
  /\ wtx' = [wtx EXCEPT ![g] = outcome]
  /\ failures' = failures

\* It fails: there is no such prepared transaction any more, or the connection broke
\* before or after the worker resolved it.
RecoverPreparedTransactionFails(g, outcome) ==
  \/ wtx[g] # "prepared" /\ wtx' = wtx /\ failures' = failures
  \/ wtx[g] = "prepared" /\ Fail /\ wtx' \in {wtx, [wtx EXCEPT ![g] = outcome]}

\* The body of the loop over the records once it is known that the transaction is not
\* in progress and that its outer transaction, if any, committed.
ResolveRecord(g) ==
  /\ P' = P \ {g}
  /\ \/ /\ g \in P \cap Q
        /\ RecoverPreparedTransactionOnWorker(g, "committed")
        /\ deletes' = deletes \cup {g}
     \/ /\ g \in Q \ P
        /\ UNCHANGED <<deletes, wtx, failures>>
     \/ /\ g \notin Q
        /\ deletes' = deletes \cup {g}
        /\ UNCHANGED <<wtx, failures>>
  /\ T' = T \ {g}
  /\ rpc' = "records" /\ cur' = None
  /\ UNCHANGED <<todo, rw, A, Q, scanned>>

\* COMMIT PREPARED failed: give up on this worker.
ResolveRecordFails(g) ==
  /\ g \in P \cap Q
  /\ RecoverPreparedTransactionFails(g, "committed")
  /\ LeaveWorker
  /\ deletes' = deletes

SkipRecord(g) ==
  /\ T' = T \ {g}
  /\ rpc' = "records" /\ cur' = None
  /\ UNCHANGED <<todo, rw, A, Q, scanned, deletes, wtx, failures>>

RecoverRecord(g) ==
  /\ rpc = "records" /\ g \in T
  /\ \/ IsTransactionInProgress(g) /\ SkipRecord(g) /\ P' = P
     \/ /\ ~IsTransactionInProgress(g)
        /\ outer[XactOf[g]] = "none"
        /\ ResolveRecord(g) \/ ResolveRecordFails(g)
  /\ UNCHANGED <<coordVars, connVars, rows, link, chan>>

\* TransactionIdIsInProgress(outerXid)
LookupOuterXact_NotChecked(g) ==
  /\ rpc = "records" /\ g \in T
  /\ ~IsTransactionInProgress(g) /\ outer[XactOf[g]] # "none"
  /\ rpc' = "outer_ended" /\ cur' = g
  /\ UNCHANGED <<todo, rw, P, A, T, Q, scanned, deletes>>
  /\ UNCHANGED <<coordVars, connVars, rows, netVars, failures>>

LookupOuterXact(g) ==
  /\ rpc = "records" /\ g \in T
  /\ ~IsTransactionInProgress(g) /\ outer[XactOf[g]] # "none"
  /\ rpc' = IF outer[XactOf[g]] \in {"in_progress", "clog_committed"}
              THEN "outer_in_progress" ELSE "outer_ended"
  /\ cur' = g
  /\ UNCHANGED <<todo, rw, P, A, T, Q, scanned, deletes>>
  /\ UNCHANGED <<coordVars, connVars, rows, netVars, failures>>

\* TransactionIdDidCommit(outerXid) and what follows from the two answers
RecoverOuterRecord ==
  LET didCommit == outer[XactOf[cur]] \in {"clog_committed", "committed"} IN
  /\ rpc \in {"outer_in_progress", "outer_ended"}
  /\ \/ didCommit /\ (ResolveRecord(cur) \/ ResolveRecordFails(cur))
     \/ ~didCommit /\ rpc = "outer_in_progress" /\ SkipRecord(cur) /\ P' = P \ {cur}
     \/ ~didCommit /\ rpc = "outer_ended" /\ SkipRecord(cur) /\ P' = P
  /\ UNCHANGED <<coordVars, connVars, rows, link, chan>>

RecordsDone_SkipsAborts ==
  /\ rpc = "records" /\ T = {}
  /\ LeaveWorker
  /\ UNCHANGED <<coordVars, connVars, rows, netVars, deletes, failures>>

RecordsDone ==
  /\ rpc = "records" /\ T = {}
  /\ rpc' = "aborts"
  /\ UNCHANGED <<todo, rw, P, A, T, Q, scanned, cur, deletes>>
  /\ UNCHANGED <<coordVars, connVars, rows, netVars, failures>>

\* What is left in P is rolled back unless its transaction is in progress.
AbortPending(g) ==
  /\ rpc = "aborts" /\ g \in P
  /\ \/ /\ IsTransactionInProgress(g)
        /\ P' = P \ {g}
        /\ UNCHANGED <<rpc, todo, rw, A, T, Q, scanned, cur, wtx, failures>>
     \/ /\ ~IsTransactionInProgress(g)
        /\ RecoverPreparedTransactionOnWorker(g, "aborted")
        /\ P' = P \ {g}
        /\ UNCHANGED <<rpc, todo, rw, A, T, Q, scanned, cur>>
     \/ /\ ~IsTransactionInProgress(g)
        /\ RecoverPreparedTransactionFails(g, "aborted")
        /\ LeaveWorker
  /\ UNCHANGED <<coordVars, connVars, rows, link, chan, deletes>>

WorkerRecovered ==
  /\ rpc = "aborts" /\ P = {}
  /\ LeaveWorker
  /\ UNCHANGED <<coordVars, connVars, rows, netVars, deletes, failures>>

RecoveryCommit_KeepsRecords ==
  /\ rpc = "next" /\ todo = {}
  /\ rows' = rows
  /\ NoRecovery
  /\ UNCHANGED <<coordVars, connVars, netVars, failures>>

RecoveryCommit ==
  /\ rpc = "next" /\ todo = {}
  /\ rows' = rows \ deletes
  /\ NoRecovery
  /\ UNCHANGED <<coordVars, connVars, netVars, failures>>

-----------------------------------------------------------------------------
XactStep(t) ==
  \/ UseCoordinatedTransaction(t)
  \/ Use2PCForCoordinatedTransaction(t)
  \/ PreCommit(t)
  \/ PrepareDone(t)
  \/ OnePhaseCommitDone(t)
  \/ LocalCommit(t)
  \/ PostCommitDone(t)
  \/ PostAbortDone(t)
  \/ RaiseError(t)
  \/ OuterRecordCommit(t)
  \/ OuterEndTransaction(t)
  \/ OuterAbort(t)

ConnectionStep(g) ==
  \/ \E statement \in Statements : Execute(g, statement)
  \/ ReadFails(g)
  \/ StartRemoteTransactionPrepare(g)
  \/ FinishRemoteTransactionPrepare(g)
  \/ StartRemoteTransactionCommit(g)
  \/ FinishRemoteTransactionCommit(g)
  \/ StartRemoteTransactionAbort(g)
  \/ FinishRemoteTransactionAbort(g)

WorkerStep(g) == WorkerExec(g) \/ DropCommand(g) \/ WorkerSessionEnds(g)

Failure ==
  \/ \E g \in Gids : LinkDown(g)
  \/ \E w \in Workers : WorkerCrash(w)
  \/ CoordinatorCrash
  \/ RecoveryError
  \/ \E w \in Workers : CannotConnect(w)

RecoveryStep ==
  \/ RecoverTwoPhaseCommits
  \/ \E w \in Workers : PendingWorkerTransactionList(w)
  \/ \E t \in Xacts : ActiveDistributedTransactionNumbers(t)
  \/ SnapshotRecords
  \/ RecheckPreparedTransactions
  \/ \E g \in Gids : RecoverRecord(g) \/ LookupOuterXact(g) \/ AbortPending(g)
  \/ RecoverOuterRecord
  \/ RecordsDone
  \/ WorkerRecovered
  \/ RecoveryCommit

Next ==
  \/ \E t \in Xacts : XactStep(t)
  \/ \E g \in Gids : ConnectionStep(g) \/ WorkerStep(g)
  \/ Failure
  \/ RecoveryStep

Spec == Init /\ [][Next]_vars

(***************************************************************************)
(* Fairness.  A callback, once entered, runs to its end; a worker handles  *)
(* what it receives or the command is lost with its connection; the outer  *)
(* transaction ends; the maintenance daemon recovers every                 *)
(* Recover2PCInterval.  Nothing is assumed of clients (Execute, PreCommit) *)
(* or of failures, which are bounded by MaxFailures.                       *)
(***************************************************************************)
CallbackStep(t) ==
  PrepareDone(t) \/ OnePhaseCommitDone(t) \/ LocalCommit(t) \/ PostCommitDone(t) \/ PostAbortDone(t)

CallbackConnectionStep(g) ==
  \/ StartRemoteTransactionPrepare(g) \/ FinishRemoteTransactionPrepare(g)
  \/ StartRemoteTransactionCommit(g) \/ FinishRemoteTransactionCommit(g)
  \/ StartRemoteTransactionAbort(g) \/ FinishRemoteTransactionAbort(g)

Fairness ==
  /\ \A t \in Xacts : /\ WF_vars(CallbackStep(t))
                       /\ WF_vars(OuterRecordCommit(t) \/ OuterEndTransaction(t) \/ OuterAbort(t))
  /\ \A g \in Gids : WF_vars(CallbackConnectionStep(g)) /\ WF_vars(WorkerStep(g))
  /\ WF_vars(RecoveryStep)

FairSpec == Spec /\ Fairness

-----------------------------------------------------------------------------
(* Properties                                                              *)

\* The connections whose changes the commit protocol is responsible for.
Participant(g) == g \in wrote /\ (access[g] = {} \/ "write" \in access[g])

\* Workloads for which the executor asks Activate2PCIfModifyingTransactionExpandsToNewNode
\* before every modification that can be the first one over its connection.
EveryWriteChecked == "write_other" \notin Statements

\* No two nodes a transaction wrote to ever disagree on its outcome, whatever breaks
\* between PREPARE TRANSACTION, the local commit, COMMIT PREPARED and recovery, and
\* whether the transaction uses 2PC or not (CoordinatedTransactionCallback,
\* RecoverWorkerTransactions).  It holds of EveryWriteChecked only: a "write_other" over a
\* connection that has only read so far leaves two writers without 2PC.
Agreement ==
  \A g, h \in Gids :
    XactOf[g] = XactOf[h] /\ Participant(g) /\ Participant(h)
      => ~(wtx[g] = "committed" /\ wtx[h] = "aborted")

\* A node commits its part of a 2PC transaction only after the initiating node, and the
\* outer transaction if there is one, committed.
CommitOnlyAfterDecision ==
  \A g \in Gids :
    Participant(g) /\ XactOf[g] \in use2PC /\ wtx[g] = "committed" => CommitDecided(XactOf[g])

\* Once the transaction is committed on the initiating node no node that it wrote to
\* has lost its part: it is committed, or with 2PC prepared and still recoverable.
DecisionIsDurable ==
  \A g \in Gids :
    Participant(g) /\ CommitDecided(XactOf[g])
      => \/ wtx[g] = "committed"
         \/ wtx[g] = "prepared" /\ XactOf[g] \in use2PC

\* The record of a committed transaction is there, and not about to be deleted, as long
\* as its prepared transaction is unresolved: without it the next recovery would roll
\* the prepared transaction back.
RecordUntilResolved ==
  \A g \in Gids :
    wtx[g] = "prepared" /\ CommitDecided(XactOf[g]) => g \in rows \ deletes

\* Recovery never commits or rolls back a prepared transaction whose distributed
\* transaction is still in progress on this node (the P, A, T, Q order).
RecoverySparesActive ==
  [][\A g \in Gids :
       rpc # "idle" /\ wtx'[g] # wtx[g] /\ chan' = chan /\ wtx[g] = "prepared"
         => XactOf[g] \notin active]_vars

\* Every prepared transaction is eventually committed or rolled back, by the session
\* that prepared it or by recovery, after any bounded number of failures.
PreparedIsResolved ==
  \A g \in Gids : wtx[g] = "prepared" ~> wtx[g] # "prepared"

\* The record of a committed transaction is eventually deleted, also when a recovery
\* that had committed the prepared transaction is rolled back before it ends.
RecordIsDeleted ==
  \A g \in Gids : g \in rows /\ CommitDecided(XactOf[g]) ~> g \notin rows

\* Once a transaction has entered its pre-commit or abort callback it ends: no loop over
\* the connections waits forever for a node that is gone.
TransactionEnds ==
  \A t \in Xacts : phase[t] \notin {"idle", "executing", "finished"} ~> phase[t] = "finished"

\* Two connections over which a transaction ran a command that may write agree on the
\* outcome: "For transactions that write to multiple nodes, Citus uses the built-in
\* two-phase commit (2PC) machinery" (README.md:2079).  Two orders of commands break it: a
\* read and then a write_other over the same connection, which the executor does not check,
\* and a node command and then a read, after which the connection counts as read-only.
WritingConnectionsAgree ==
  \A g, h \in wrote :
    XactOf[g] = XactOf[h] => ~(wtx[g] = "committed" /\ wtx[h] = "aborted")
=============================================================================
