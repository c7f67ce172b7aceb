------------------------ MODULE TwoPhaseCommitSteps -------------------------
(*****************************************************************************)
(* Type correctness of TwoPhaseCommit, what each of its actions does to one  *)
(* connection and to its transaction, and the proof that every step keeps    *)
(* the parts of the invariant about phases, connections and writers, and     *)
(* every step but those of recovery the parts about commands in transit and  *)
(* remote transactions.                                                      *)
(*****************************************************************************)
EXTENDS TwoPhaseCommitInv, TLAPS
USE DEF coordVars, connVars, netVars, recVars
\* The provers of the leaves that name none: Zenon, then Z3.
USE ZenonT(30), Z3T(30)

-----------------------------------------------------------------------------
(* Type correctness                                                        *)

\* The initial state, right after the node started, is well typed.
LEMMA TypeInit == Init => TypeOK
BY SMTT(30), Z3T(30), ConstantsAssumption
   DEF ConstantsAssumption, Init, TypeOK, InitialTransactionNumber, Phases, XactStates,
       OuterStates, RemoteStates, Commands, Responses, WorkerXactStates, RecoverySteps

\* The connections that are marked as failed after a health check are connections.
LEMMA FailedType ==
  ASSUME TypeOK, NEW t \in Xacts, NEW noticed \in SUBSET BrokenConnections(t)
  PROVE  FailedAfterHealthCheck(t, noticed) \subseteq Gids
BY DEF TypeOK, FailedAfterHealthCheck, BrokenConnections, GidsOf

\* Every step of a session, of a worker, of recovery and every failure keeps the types.
LEMMA TypeStep == TypeOK /\ [Next]_vars => TypeOK'
<1> SUFFICES ASSUME TypeOK, [Next]_vars PROVE TypeOK'
  OBVIOUS
<1> USE ConstantsAssumption DEF ConstantsAssumption, TypeOK
<1>1. CASE UNCHANGED vars
  BY <1>1 DEF vars
<1>2. ASSUME NEW t \in Xacts, XactStep(t) PROVE TypeOK'
  <2>1. CASE UseCoordinatedTransaction(t)
    BY SMTT(30), Z3T(30), <2>1 DEF UseCoordinatedTransaction, Phases, XactStates, OuterStates
  <2>2. CASE Use2PCForCoordinatedTransaction(t)
    BY <2>2 DEF Use2PCForCoordinatedTransaction
  <2>3. CASE PreCommit(t)
    <3>1. failed' \subseteq Gids
      BY SMTT(30), Z3T(30), <2>3, FailedType DEF PreCommit
    <3> QED
      BY SMTT(30), Z3T(30), <2>3, <3>1 DEF PreCommit, AbortXact, Phases, XactStates
  <2>4. CASE PrepareDone(t)
    <3>1. failed' \subseteq Gids
      BY <2>4, FailedType DEF PrepareDone
    <3> QED
      BY SMTT(30), Z3T(30), <2>4, <3>1 DEF PrepareDone, AbortXact, Phases, XactStates
  <2>5. CASE OnePhaseCommitDone(t)
    BY SMTT(30), Z3T(30), <2>5 DEF OnePhaseCommitDone, Phases, XactStates, AbortXact
  <2>6. CASE LocalCommit(t)
    BY <2>6 DEF LocalCommit, Phases, XactStates
  <2>7. CASE PostCommitDone(t)
    BY <2>7 DEF PostCommitDone, EndTransaction, Phases
  <2>8. CASE PostAbortDone(t)
    BY <2>8 DEF PostAbortDone, EndTransaction, Phases
  <2>9. CASE RaiseError(t)
    BY <2>9 DEF RaiseError, AbortXact, Phases, XactStates
  <2>10. CASE OuterRecordCommit(t)
    BY <2>10 DEF OuterRecordCommit, OuterStates
  <2>11. CASE OuterEndTransaction(t)
    BY <2>11 DEF OuterEndTransaction, OuterStates
  <2>12. CASE OuterAbort(t)
    BY <2>12 DEF OuterAbort, OuterStates
  <2> QED BY <1>2, <2>1, <2>2, <2>3, <2>4, <2>5, <2>6, <2>7, <2>8, <2>9, <2>10, <2>11,
     <2>12 DEF XactStep
<1>3. ASSUME NEW g \in Gids, ConnectionStep(g) PROVE TypeOK'
  <2>0. ASSUME NEW statement \in Statements, Execute(g, statement) PROVE TypeOK'
    BY SMTT(30), Z3T(30), <2>0 DEF Execute, Modifications, RemoteStates, WorkerXactStates
  <2>1. CASE ReadFails(g)
    BY SMTT(30), Z3T(30), <2>1 DEF ReadFails, RemoteStates
  <2>2. CASE StartRemoteTransactionPrepare(g)
    BY SMTT(30), Z3T(30), <2>2 DEF StartRemoteTransactionPrepare, RemoteStates, Commands, AbortXact, Phases,
       XactStates
  <2>3. CASE FinishRemoteTransactionPrepare(g)
    BY SMTT(30), Z3T(30), <2>3 DEF FinishRemoteTransactionPrepare, RemoteStates, Commands, ConsumeResult,
       AbortXact, Phases, XactStates
  <2>4. CASE StartRemoteTransactionCommit(g)
    BY SMTT(30), Z3T(30), <2>4 DEF StartRemoteTransactionCommit, RemoteStates, Commands, Send
  <2>5. CASE FinishRemoteTransactionCommit(g)
    BY SMTT(30), Z3T(30), <2>5 DEF FinishRemoteTransactionCommit, RemoteStates, Commands, ConsumeResult
  <2>6. CASE StartRemoteTransactionAbort(g)
    BY SMTT(30), Z3T(30), <2>6 DEF StartRemoteTransactionAbort, RemoteStates, Commands
  <2>7. CASE FinishRemoteTransactionAbort(g)
    BY <2>7 DEF FinishRemoteTransactionAbort, RemoteStates, Commands, ConsumeResult
  <2> QED BY <1>3, <2>0, <2>1, <2>2, <2>3, <2>4, <2>5, <2>6, <2>7 DEF ConnectionStep
<1>4. ASSUME NEW g \in Gids, WorkerStep(g) PROVE TypeOK'
  <2>1. CASE WorkerExec(g)
    BY SMTT(30), Z3T(30), <2>1 DEF WorkerExec, Commands, Responses, WorkerXactStates, Reply
  <2>2. CASE DropCommand(g)
    BY <2>2 DEF DropCommand, Commands
  <2>3. CASE WorkerSessionEnds(g)
    BY <2>3 DEF WorkerSessionEnds, WorkerXactStates
  <2> QED BY <1>4, <2>1, <2>2, <2>3 DEF WorkerStep
<1>5. CASE Failure
  <2>1. ASSUME NEW g \in Gids, LinkDown(g) PROVE TypeOK'
    BY SMTT(30), Z3T(30), <2>1 DEF LinkDown, BreakLinks, Fail, Commands, Responses
  <2>2. ASSUME NEW w \in Workers, WorkerCrash(w) PROVE TypeOK'
    BY SMTT(30), Z3T(30), <2>2 DEF WorkerCrash, Fail, WorkerXactStates
  <2>3. CASE CoordinatorCrash
    BY SMTT(30), Z3T(30), <2>3 DEF CoordinatorCrash, BreakLinks, NoRecovery, Fail, InitialTransactionNumber,
                Phases, XactStates, OuterStates, RecoverySteps
  <2>4. CASE RecoveryError
    BY SMTT(30), Z3T(30), <2>4 DEF RecoveryError, NoRecovery, Fail, RecoverySteps
  <2>5. ASSUME NEW w \in Workers, CannotConnect(w) PROVE TypeOK'
    BY SMTT(30), Z3T(30), <2>5 DEF CannotConnect, Fail
  <2> QED BY <1>5, <2>1, <2>2, <2>3, <2>4, <2>5 DEF Failure
<1>6. CASE RecoveryStep
  <2>1. CASE RecoverTwoPhaseCommits
    BY <2>1 DEF RecoverTwoPhaseCommits, RecoverySteps
  <2>2. ASSUME NEW w \in Workers, PendingWorkerTransactionList(w) PROVE TypeOK'
    BY <2>2 DEF PendingWorkerTransactionList, PreparedOn, RecoverySteps
  <2>3. ASSUME NEW t \in Xacts, ActiveDistributedTransactionNumbers(t) PROVE TypeOK'
    BY <2>3 DEF ActiveDistributedTransactionNumbers
  <2>4. CASE SnapshotRecords
    BY <2>4 DEF SnapshotRecords, VisibleRecords, RecoverySteps
  <2>5. CASE RecheckPreparedTransactions
    BY <2>5 DEF RecheckPreparedTransactions, PreparedOn, RecoverySteps
  <2>6. ASSUME NEW g \in Gids, ResolveRecord(g) \/ ResolveRecordFails(g),
               UNCHANGED <<coordVars, connVars, rows, link, chan>>
        PROVE  TypeOK'
    <3>1. CASE ResolveRecord(g)
      BY SMTT(30), Z3T(30), <2>6, <3>1 DEF ResolveRecord, RecoverPreparedTransactionOnWorker, RecoverySteps,
         WorkerXactStates
    <3>2. CASE ResolveRecordFails(g)
      BY SMTT(30), Z3T(30), <2>6, <3>2 DEF ResolveRecordFails, RecoverPreparedTransactionFails, LeaveWorker, Fail,
                        RecoverySteps, WorkerXactStates
    <3> QED BY <2>6, <3>1, <3>2
  <2>7. ASSUME NEW g \in Gids, RecoverRecord(g) PROVE TypeOK'
    <3>1. CASE SkipRecord(g) /\ P' = P
      BY <2>7, <3>1 DEF RecoverRecord, SkipRecord, RecoverySteps
    <3> QED BY <2>6, <2>7, <3>1 DEF RecoverRecord
  <2>8. ASSUME NEW g \in Gids, LookupOuterXact(g) PROVE TypeOK'
    BY <2>8 DEF LookupOuterXact, RecoverySteps
  <2>9. ASSUME NEW g \in Gids, AbortPending(g) PROVE TypeOK'
    <3>1. CASE RecoverPreparedTransactionFails(g, "aborted") /\ LeaveWorker
      BY SMTT(30), Z3T(30), <2>9, <3>1 DEF AbortPending, RecoverPreparedTransactionFails, LeaveWorker, Fail,
                        RecoverySteps, WorkerXactStates
    <3>2. CASE /\ UNCHANGED <<wtx, failures>> \/ RecoverPreparedTransactionOnWorker(g, "aborted")
               /\ UNCHANGED <<rpc, todo, rw, A, T, Q, scanned, cur>> /\ P' = P \ {g}
      BY <2>9, <3>2 DEF AbortPending, RecoverPreparedTransactionOnWorker,
         WorkerXactStates
    <3> QED BY <2>9, <3>1, <3>2 DEF AbortPending
  <2>10. CASE RecoverOuterRecord
    <3>1. cur \in Gids
      BY <2>10 DEF RecoverOuterRecord
    <3>2. ASSUME SkipRecord(cur), P' \in {P, P \ {cur}} PROVE TypeOK'
      BY <2>10, <3>2 DEF RecoverOuterRecord, SkipRecord, RecoverySteps
    <3> QED BY <2>6, <2>10, <3>1, <3>2 DEF RecoverOuterRecord
  <2>11. CASE RecordsDone
    BY <2>11 DEF RecordsDone, RecoverySteps
  <2>12. CASE WorkerRecovered
    BY <2>12 DEF WorkerRecovered, LeaveWorker, RecoverySteps
  <2>13. CASE RecoveryCommit
    BY <2>13 DEF RecoveryCommit, NoRecovery, RecoverySteps
  <2> QED
    BY <1>6, <2>1, <2>2, <2>3, <2>4, <2>5, <2>7, <2>8, <2>9, <2>10, <2>11, <2>12,
       <2>13 DEF RecoveryStep
<1> QED
  BY <1>1, <1>2, <1>3, <1>4, <1>5, <1>6 DEF Next

\* The types hold in every reachable state.
THEOREM TypeCorrect == Spec => []TypeOK
<1>1. Init => TypeOK
  BY TypeInit
<1>2. TypeOK /\ [Next]_vars => TypeOK'
  BY TypeStep
<1> QED
  BY <1>1, <1>2, PTL DEF Spec

-----------------------------------------------------------------------------
(* What the steps leave alone                                              *)

\* A worker's step changes its transaction and the connection's channel only.
LEMMA WorkerFrame ==
  ASSUME NEW g \in Gids, WorkerStep(g)
  PROVE  UNCHANGED <<coordVars, connVars, rows, link, recVars, failures>>
BY DEF WorkerStep, WorkerExec, DropCommand, WorkerSessionEnds

\* Recovery leaves the sessions and their connections alone.
LEMMA RecoveryFrame ==
  ASSUME RecoveryStep
  PROVE  UNCHANGED <<coordVars, connVars, link, chan>>
BY DEF RecoveryStep, RecoverTwoPhaseCommits, PendingWorkerTransactionList,
       ActiveDistributedTransactionNumbers, SnapshotRecords, RecheckPreparedTransactions,
       RecoverRecord, LookupOuterXact, AbortPending, RecoverOuterRecord, RecordsDone,
       WorkerRecovered, RecoveryCommit

\* Every step keeps the phase, status, id and outer transaction of a transaction together.
LEMMA XactInvStep ==
  ASSUME IInv, [Next]_vars
  PROVE  XactInv'
<1> USE ConstantsAssumption DEF ConstantsAssumption
<1>0. /\ XactInv
      /\ phase \in [Xacts -> Phases] /\ xact \in [Xacts -> XactStates] /\ outer \in [Xacts -> OuterStates]
      /\ active \subseteq Xacts /\ use2PC \subseteq Xacts
  BY DEF IInv, TypeOK
<1> USE <1>0 DEF XactInv, XactOK, InProgressPhases
<1>1. CASE UNCHANGED coordVars
  BY <1>1
<1>2. ASSUME NEW t \in Xacts, AbortXact(t), phase[t] \in InProgressPhases PROVE XactInv'
  BY SMTT(30), Z3T(30), <1>2 DEF AbortXact
<1>3. ASSUME NEW t \in Xacts, XactStep(t) PROVE XactInv'
  <2>1. CASE UseCoordinatedTransaction(t)
    BY SMTT(30), Z3T(30), <2>1 DEF UseCoordinatedTransaction
  <2>2. CASE Use2PCForCoordinatedTransaction(t)
    BY <2>2 DEF Use2PCForCoordinatedTransaction
  <2>3. CASE PreCommit(t)
    BY SMTT(30), Z3T(30), <2>3, <1>2 DEF PreCommit
  <2>4. CASE PrepareDone(t)
    BY SMTT(30), Z3T(30), <2>4, <1>2 DEF PrepareDone
  <2>5. CASE OnePhaseCommitDone(t)
    BY SMTT(30), Z3T(30), <2>5, <1>2 DEF OnePhaseCommitDone
  <2>6. CASE LocalCommit(t)
    BY SMTT(30), Z3T(30), <2>6 DEF LocalCommit
  <2>7. CASE PostCommitDone(t)
    BY SMTT(30), Z3T(30), <2>7 DEF PostCommitDone, EndTransaction
  <2>8. CASE PostAbortDone(t)
    BY SMTT(30), Z3T(30), <2>8 DEF PostAbortDone, EndTransaction
  <2>9. CASE RaiseError(t)
    BY <2>9, <1>2 DEF RaiseError
  <2>10. CASE OuterRecordCommit(t)
    BY SMTT(30), Z3T(30), <2>10 DEF OuterRecordCommit
  <2>11. CASE OuterEndTransaction(t)
    BY SMTT(30), Z3T(30), <2>11 DEF OuterEndTransaction
  <2>12. CASE OuterAbort(t)
    BY <2>12 DEF OuterAbort
  <2> QED
    BY <1>3, <2>1, <2>2, <2>3, <2>4, <2>5, <2>6, <2>7, <2>8, <2>9, <2>10, <2>11,
       <2>12 DEF XactStep
<1>4. ASSUME NEW g \in Gids, ConnectionStep(g) PROVE XactInv'
  <2>1. ASSUME NEW statement \in Statements, Execute(g, statement) PROVE XactInv'
    BY <2>1 DEF Execute
  <2>2. CASE StartRemoteTransactionPrepare(g)
    BY <2>2, <1>1, <1>2 DEF StartRemoteTransactionPrepare
  <2>3. CASE FinishRemoteTransactionPrepare(g)
    BY <2>3, <1>1, <1>2 DEF FinishRemoteTransactionPrepare
  <2> QED
    BY <1>1, <1>4, <2>1, <2>2, <2>3
       DEF ConnectionStep, ReadFails, StartRemoteTransactionCommit,
          FinishRemoteTransactionCommit,
           StartRemoteTransactionAbort, FinishRemoteTransactionAbort
<1>5. CASE Failure
  <2>1. CASE CoordinatorCrash
    <3>1. ASSUME NEW t \in Xacts
          PROVE  /\ phase'[t] = IF phase[t] \in {"idle", "finished"} THEN phase[t] ELSE "finished"
                 /\ xact'[t] = IF xact[t] = "in_progress" THEN "aborted" ELSE xact[t]
                 /\ outer'[t] = IF outer[t] = "in_progress" THEN "aborted"
                                ELSE IF outer[t] = "clog_committed" THEN "committed" ELSE outer[t]
      BY <2>1 DEF CoordinatorCrash
    <3>2. active' = {} /\ use2PC' = use2PC
      BY <2>1 DEF CoordinatorCrash
    <3> QED
      BY SMTT(30), Z3T(30), <3>1, <3>2 DEF Phases, XactStates, OuterStates
  <2> QED
    BY <1>1, <1>5, <2>1 DEF Failure, LinkDown, WorkerCrash, RecoveryError, CannotConnect
<1> QED
  BY <1>1, <1>3, <1>4, <1>5, WorkerFrame, RecoveryFrame DEF Next, vars

-----------------------------------------------------------------------------
(* What each action does to one connection and to its transaction            *)

\* Whether a connection takes part in its transaction's outcome hangs on its accesses only.
LEMMA SameParticipant ==
  ASSUME NEW g \in Gids, access' = access, wrote' = wrote
  PROVE  Participant(g)' <=> Participant(g)
BY DEF Participant

\* A step of the callbacks that only moves a transaction along: what it means for
\* connection g and its transaction u.
LEMMA CallbackEffect ==
  ASSUME TypeOK, NEW t \in Xacts, NEW g \in Gids, NEW u \in Xacts, u = XactOf[g],
         PreCommit(t) \/ PrepareDone(t) \/ OnePhaseCommitDone(t) \/ RaiseError(t) \/ LocalCommit(t)
  PROVE  /\ UNCHANGED <<outer, active, number, nextNumber, use2PC>>
         /\ UNCHANGED <<rstate, critical, access, wrote, rows, netVars, recVars>>
         /\ g \in failed => g \in failed'
         /\ g \in failed' =>
              g \in failed \/ (rstate[g] # "NOT_STARTED" /\ (g \in critical => phase'[u] = "post_abort"))
         /\ \/ phase'[u] = phase[u] /\ xact'[u] = xact[u]
            \/ /\ phase[u] \in InProgressPhases
               /\ phase'[u] = "post_abort" /\ xact'[u] = "aborted"
            \/ /\ phase[u] = "executing" /\ phase'[u] = "prepare" /\ xact'[u] = xact[u]
               /\ u \in use2PC
            \/ /\ phase[u] = "executing" /\ phase'[u] = "commit_1pc" /\ xact'[u] = xact[u]
               /\ u \notin use2PC
            \/ /\ phase[u] = "prepare" /\ phase'[u] = "checked" /\ xact'[u] = xact[u]
               /\ ToPrepare(u) = {} /\ rstate[g] # "PREPARING"
            \/ /\ phase[u] = "commit_1pc" /\ phase'[u] = "checked" /\ xact'[u] = xact[u]
               /\ ToCommit(u) = {} /\ AwaitingCommit(u) = {}
               /\ ErrorIfPostCommitFailedShardPlacements(u, failed)
            \/ /\ phase[u] = "checked" /\ phase'[u] = "post_commit" /\ xact'[u] = "committed"
<1> USE DEF TypeOK
<1>1. CASE RaiseError(t)
  BY <1>1 DEF RaiseError, AbortXact, InProgressPhases
<1>2. CASE LocalCommit(t)
  BY <1>2 DEF LocalCommit
<1>3. CASE PreCommit(t)
  <2>1. CASE u # t
    <3>1. g \in failed' <=> g \in failed
      BY <1>3, <2>1 DEF PreCommit, FailedAfterHealthCheck, BrokenConnections, GidsOf
    <3> QED BY <1>3, <2>1, <3>1 DEF PreCommit, AbortXact
  <2>2. CASE u = t /\ phase'[u] = "post_abort"
    <3>1. (g \in failed => g \in failed') /\ (g \in failed' => g \in failed \/ rstate[g] # "NOT_STARTED")
      BY <1>3, <2>2 DEF PreCommit, FailedAfterHealthCheck
    <3> QED BY <1>3, <2>2, <3>1 DEF PreCommit, AbortXact, InProgressPhases
  <2>3. CASE u = t /\ phase'[u] # "post_abort"
    <3>1. \/ failed' = failed
          \/ /\ failed \subseteq failed'
             /\ g \in failed' => g \in failed \/ (rstate[g] # "NOT_STARTED" /\ g \notin critical)
      BY <1>3, <2>3 DEF PreCommit, FailedAfterHealthCheck, CheckRemoteTransactionsHealth,
         GidsOf, AbortXact
    <3> QED BY <1>3, <2>3, <3>1 DEF PreCommit, AbortXact
  <2> QED BY <2>1, <2>2, <2>3
<1>4. CASE PrepareDone(t)
  <2>1. CASE u # t
    <3>1. g \in failed' <=> g \in failed
      BY <1>4, <2>1 DEF PrepareDone, FailedAfterHealthCheck, BrokenConnections, GidsOf
    <3> QED BY <1>4, <2>1, <3>1 DEF PrepareDone, AbortXact
  <2>2. CASE u = t /\ phase'[u] = "post_abort"
    <3>1. (g \in failed => g \in failed') /\ (g \in failed' => g \in failed \/ rstate[g] # "NOT_STARTED")
      BY <1>4, <2>2 DEF PrepareDone, FailedAfterHealthCheck
    <3> QED BY <1>4, <2>2, <3>1 DEF PrepareDone, AbortXact, InProgressPhases
  <2>3. CASE u = t /\ phase'[u] # "post_abort"
    <3>1. /\ failed \subseteq failed'
          /\ g \in failed' => g \in failed \/ (rstate[g] # "NOT_STARTED" /\ g \notin critical)
      BY <1>4, <2>3 DEF PrepareDone, FailedAfterHealthCheck,
         CheckRemoteTransactionsHealth, GidsOf, AbortXact
    <3> QED BY <1>4, <2>3, <3>1 DEF PrepareDone, AbortXact, GidsOf
  <2> QED BY <2>1, <2>2, <2>3
<1>5. CASE OnePhaseCommitDone(t)
  BY <1>5 DEF OnePhaseCommitDone, AbortXact, InProgressPhases
<1> QED BY <1>1, <1>2, <1>3, <1>4, <1>5

\* What such a step leaves alone, and the connections it may mark as failed.
LEMMA CallbackFrame ==
  ASSUME TypeOK, NEW t \in Xacts, NEW g \in Gids, NEW u \in Xacts, u = XactOf[g],
         PreCommit(t) \/ PrepareDone(t) \/ OnePhaseCommitDone(t) \/ RaiseError(t) \/ LocalCommit(t)
  PROVE  /\ UNCHANGED <<outer, active, number, nextNumber, use2PC>>
         /\ UNCHANGED <<rstate, critical, access, wrote, rows, netVars, recVars>>
         /\ g \in failed' =>
              g \in failed \/ (rstate[g] # "NOT_STARTED" /\ (g \in critical => phase'[u] = "post_abort"))
BY CallbackEffect

\* The order of the phases.
LEMMA CallbackPhases ==
  ASSUME TypeOK, NEW t \in Xacts, NEW g \in Gids, NEW u \in Xacts, u = XactOf[g],
         PreCommit(t) \/ PrepareDone(t) \/ OnePhaseCommitDone(t) \/ RaiseError(t) \/ LocalCommit(t)
  PROVE  \/ phase'[u] = phase[u] /\ xact'[u] = xact[u]
         \/ phase[u] \in InProgressPhases /\ phase'[u] = "post_abort" /\ xact'[u] = "aborted"
         \/ phase[u] = "executing" /\ phase'[u] = "prepare" /\ xact'[u] = xact[u] /\ u \in use2PC
         \/ phase[u] = "executing" /\ phase'[u] = "commit_1pc" /\ xact'[u] = xact[u] /\ u \notin use2PC
         \/ phase[u] \in {"prepare", "commit_1pc"} /\ phase'[u] = "checked" /\ xact'[u] = xact[u]
         \/ phase[u] = "checked" /\ phase'[u] = "post_commit" /\ xact'[u] = "committed"
BY SMTT(30), Z3T(30), CallbackEffect

\* What is over when a transaction is ready to commit locally.
LEMMA CallbackReady ==
  ASSUME TypeOK, NEW t \in Xacts, NEW g \in Gids, NEW u \in Xacts, u = XactOf[g],
         PreCommit(t) \/ PrepareDone(t) \/ OnePhaseCommitDone(t) \/ RaiseError(t) \/ LocalCommit(t),
         phase'[u] = "checked"
  PROVE  /\ phase[u] = "prepare" => ToPrepare(u) = {} /\ rstate[g] # "PREPARING"
         /\ phase[u] = "commit_1pc" =>
              /\ ToCommit(u) = {} /\ AwaitingCommit(u) = {}
              /\ ErrorIfPostCommitFailedShardPlacements(u, failed)
BY CallbackEffect

\* The end of a transaction.
LEMMA EndEffect ==
  ASSUME TypeOK, NEW t \in Xacts, NEW u \in Xacts, PostCommitDone(t) \/ PostAbortDone(t)
  PROVE  /\ UNCHANGED <<xact, outer, number, nextNumber, use2PC, connVars, rows, chan, wtx, recVars>>
         /\ \/ phase'[u] = phase[u] /\ (u \in active' <=> u \in active)
            \/ /\ phase[u] \in {"post_commit", "post_abort"} /\ phase'[u] = "finished"
               /\ u \notin active'
         /\ \A g \in Gids : link'[g] = link[g] \/ link'[g] = "down"
BY DEF PostCommitDone, PostAbortDone, EndTransaction, TypeOK

\* A command is executed: BEGIN and the accesses it leaves on the connection.
LEMMA ExecuteEffect ==
  ASSUME TypeOK, NEW g \in Gids, NEW statement \in Statements, Execute(g, statement)
  PROVE  /\ "write" \in access'[g] <=> ("write" \in access[g] \/ statement \in Modifications)
         /\ access'[g] = {} => access[g] = {} /\ statement = "node"
         /\ \A h \in Gids \ {g} : access'[h] = access[h]
         /\ phase[XactOf[g]] = "executing" /\ link[g] = "up" /\ g \notin failed
         /\ rstate[g] \in {"NOT_STARTED", "STARTED"}
         /\ rstate'[g] = "STARTED" /\ wtx'[g] = "open"
         /\ critical' = critical \cup {g}
         /\ wrote' = wrote \/ wrote' = wrote \cup {g}
         /\ statement # "read" => "write" \in access'[g] \/ XactOf[g] \in use2PC'
         /\ statement # "read" => g \in wrote'
         /\ statement = "read" => wrote' = wrote
         /\ use2PC' = use2PC \/ use2PC' = use2PC \cup {XactOf[g]}
         /\ UNCHANGED <<phase, xact, outer, active, number, nextNumber>>
         /\ UNCHANGED <<failed, rows, link, chan, recVars>>
BY ConstantsAssumption DEF ConstantsAssumption, Execute, NodeCommand, Modifications, TypeOK

\* A SELECT finds its connection broken before BEGIN: the connection is marked as failed.
LEMMA ReadFailsEffect ==
  ASSUME TypeOK, NEW g \in Gids, ReadFails(g)
  PROVE  /\ "write" \in access'[g] <=> "write" \in access[g]
         /\ access'[g] # {}
         /\ phase[XactOf[g]] = "executing" /\ link[g] = "down" /\ g \notin critical
         /\ rstate'[g] = "STARTED" /\ failed' = failed \cup {g}
         /\ UNCHANGED <<coordVars, critical, wrote, rows, netVars, recVars>>
BY SMTT(30), Z3T(30) DEF ReadFails, TypeOK

\* PREPARE TRANSACTION is sent, or the connection turns out to be broken.
LEMMA StartPrepareEffect ==
  ASSUME TypeOK, NEW g \in Gids, NEW t \in Xacts, t = XactOf[g], StartRemoteTransactionPrepare(g)
  PROVE  /\ phase[t] = "prepare" /\ rstate[g] = "STARTED" /\ g \notin failed
         /\ access[g] = {} \/ "write" \in access[g]
         /\ rows' = rows \cup {g}
         /\ UNCHANGED <<outer, active, number, nextNumber, use2PC>>
         /\ UNCHANGED <<critical, access, wrote, link, wtx, recVars>>
         /\ \/ /\ link[g] = "up" /\ rstate'[g] = "PREPARING" /\ chan'[g] = "PREPARE"
               /\ phase'[t] = phase[t] /\ xact'[t] = xact[t] /\ failed' = failed
            \/ /\ rstate'[g] = rstate[g] /\ chan'[g] = chan[g] /\ failed' = failed \cup {g}
               /\ \/ g \notin critical /\ phase'[t] = phase[t] /\ xact'[t] = xact[t]
                  \/ phase'[t] = "post_abort" /\ xact'[t] = "aborted"
BY SMTT(30), Z3T(30) DEF StartRemoteTransactionPrepare, ToPrepare, ConnectionModifiedPlacement, AbortXact, TypeOK

\* The response to PREPARE TRANSACTION, or the lack of one, is acted upon.
LEMMA FinishPrepareEffect ==
  ASSUME TypeOK, NEW g \in Gids, NEW t \in Xacts, t = XactOf[g], FinishRemoteTransactionPrepare(g)
  PROVE  /\ phase[t] = "prepare" /\ rstate[g] = "PREPARING"
         /\ UNCHANGED <<outer, active, number, nextNumber, use2PC>>
         /\ UNCHANGED <<critical, access, wrote, rows, link, wtx, recVars>>
         /\ \/ /\ chan[g] = "ok" /\ chan'[g] = "none" /\ rstate'[g] = "PREPARED"
               /\ phase'[t] = phase[t] /\ xact'[t] = xact[t] /\ failed' = failed
            \/ /\ chan'[g] \in {chan[g], "none"} /\ rstate'[g] = "ABORTED" /\ failed' = failed \cup {g}
               /\ \/ g \notin critical /\ phase'[t] = phase[t] /\ xact'[t] = xact[t]
                  \/ phase'[t] = "post_abort" /\ xact'[t] = "aborted"
BY SMTT(30), Z3T(30) DEF FinishRemoteTransactionPrepare, ConsumeResult, ResponseOK, AbortXact, TypeOK

\* COMMIT, COMMIT PREPARED or, on a failed connection, ROLLBACK is sent.
LEMMA StartCommitEffect ==
  ASSUME TypeOK, NEW g \in Gids, NEW t \in Xacts, t = XactOf[g], StartRemoteTransactionCommit(g)
  PROVE  /\ phase[t] \in {"commit_1pc", "post_commit"}
         /\ phase[t] = "post_commit" => outer[t] = "none"
         /\ rstate[g] \in {"STARTED", "PREPARED"}
         /\ UNCHANGED <<coordVars, critical, access, wrote, rows, link, wtx, recVars>>
         /\ failed' = failed \/ failed' = failed \cup {g}
         /\ \/ g \in failed /\ rstate'[g] = "1PC_ABORTING"
            \/ g \notin failed /\ rstate[g] = "PREPARED" /\ rstate'[g] = "2PC_COMMITTING"
            \/ g \notin failed /\ rstate[g] = "STARTED" /\ rstate'[g] = "1PC_COMMITTING"
         /\ \/ link[g] = "down" /\ chan'[g] = chan[g]
            \/ /\ link[g] = "up"
               /\ chan'[g] = CASE rstate'[g] = "1PC_ABORTING" -> "ROLLBACK"
                               [] rstate'[g] = "2PC_COMMITTING" -> "COMMIT_PREPARED"
                               [] rstate'[g] = "1PC_COMMITTING" -> "COMMIT"
<1> USE DEF TypeOK, Send
<1>1. /\ phase[t] \in {"commit_1pc", "post_commit"}
      /\ phase[t] = "post_commit" => outer[t] = "none"
      /\ rstate[g] \in {"STARTED", "PREPARED"}
      /\ UNCHANGED <<coordVars, critical, access, wrote, rows, link, wtx, recVars>>
      /\ failed' = failed \/ failed' = failed \cup {g}
  BY DEF StartRemoteTransactionCommit, Committing, ToCommit, GidsOf
<1>2. CASE g \in failed
  BY SMTT(30), Z3T(30), <1>1, <1>2 DEF StartRemoteTransactionCommit
<1>3. CASE g \notin failed /\ rstate[g] = "PREPARED"
  BY SMTT(30), Z3T(30), <1>1, <1>3 DEF StartRemoteTransactionCommit
<1>4. CASE g \notin failed /\ rstate[g] = "STARTED"
  BY SMTT(30), Z3T(30), <1>1, <1>4 DEF StartRemoteTransactionCommit
<1> QED BY <1>1, <1>2, <1>3, <1>4

\* The response to COMMIT or COMMIT PREPARED, or the lack of one, is acted upon.
LEMMA FinishCommitEffect ==
  ASSUME TypeOK, NEW g \in Gids, FinishRemoteTransactionCommit(g)
  PROVE  /\ phase[XactOf[g]] \in {"commit_1pc", "post_commit"}
         /\ UNCHANGED <<coordVars, critical, access, wrote, rows, link, wtx, recVars>>
         /\ \/ /\ rstate[g] \in {"1PC_COMMITTING", "2PC_COMMITTING"} /\ chan[g] = "ok"
               /\ chan'[g] = "none" /\ rstate'[g] = "COMMITTED" /\ failed' = failed
            \/ /\ rstate[g] = "1PC_ABORTING" /\ chan[g] = "ok"
               /\ chan'[g] = "none" /\ rstate'[g] = "ABORTED" /\ failed' = failed
            \/ /\ rstate[g] \in {"1PC_COMMITTING", "2PC_COMMITTING", "1PC_ABORTING"}
               /\ chan'[g] \in {chan[g], "none"} /\ rstate'[g] = rstate[g] /\ failed' = failed \cup {g}
BY DEF FinishRemoteTransactionCommit, Committing, AwaitingCommit, ConsumeResult,
   ResponseOK, TypeOK

\* ROLLBACK or ROLLBACK PREPARED is sent, or its response is waited for.
LEMMA AbortEffect ==
  ASSUME TypeOK, NEW g \in Gids, StartRemoteTransactionAbort(g) \/ FinishRemoteTransactionAbort(g)
  PROVE  /\ phase[XactOf[g]] = "post_abort"
         /\ UNCHANGED <<coordVars, failed, critical, access, wrote, rows, wtx, recVars>>
         /\ link'[g] = link[g] \/ link'[g] = "down"
         /\ \/ /\ rstate[g] \in {"PREPARING", "PREPARED"}
               /\ rstate'[g] = "2PC_ABORTING" /\ chan'[g] = "ROLLBACK_PREPARED"
            \/ /\ rstate[g] \notin {"NOT_STARTED", "PREPARING", "PREPARED"}
               /\ rstate'[g] = "1PC_ABORTING" /\ chan'[g] = "ROLLBACK"
            \/ rstate[g] # "NOT_STARTED" /\ rstate'[g] = rstate[g] /\ chan'[g] = chan[g]
            \/ /\ rstate[g] \in {"1PC_ABORTING", "2PC_ABORTING"}
               /\ rstate'[g] = "ABORTED" /\ chan'[g] \in {chan[g], "none"}
<1>1. CASE StartRemoteTransactionAbort(g)
  BY SMTT(30), Z3T(30), <1>1 DEF StartRemoteTransactionAbort, ToAbort, TypeOK
<1>2. CASE FinishRemoteTransactionAbort(g)
  BY <1>2 DEF FinishRemoteTransactionAbort, ConsumeResult, TypeOK
<1> QED BY <1>1, <1>2

\* What a worker does with the command it receives.
LEMMA WorkerEffect ==
  ASSUME TypeOK, NEW g \in Gids, WorkerStep(g)
  PROVE  /\ UNCHANGED <<coordVars, connVars, rows, link, recVars, failures>>
         /\ \/ /\ chan[g] = "PREPARE"
               /\ \/ wtx'[g] = "prepared" /\ chan'[g] \in {"ok", "none"}
                  \/ wtx'[g] = "aborted" /\ chan'[g] \in {"error", "none"}
            \/ /\ chan[g] = "COMMIT"
               /\ \/ wtx'[g] = "committed" /\ chan'[g] \in {"ok", "none"}
                  \/ wtx'[g] = "aborted" /\ chan'[g] \in {"error", "none"}
            \/ /\ chan[g] = "ROLLBACK" /\ chan'[g] \in {"ok", "none"}
               /\ wtx'[g] = IF wtx[g] = "open" THEN "aborted" ELSE wtx[g]
            \/ /\ chan[g] = "COMMIT_PREPARED" /\ wtx[g] = "prepared"
               /\ wtx'[g] = "committed" /\ chan'[g] \in {"ok", "none"}
            \/ /\ chan[g] = "ROLLBACK_PREPARED" /\ wtx[g] = "prepared"
               /\ wtx'[g] = "aborted" /\ chan'[g] \in {"ok", "none"}
            \/ /\ chan[g] \in {"COMMIT_PREPARED", "ROLLBACK_PREPARED"} /\ wtx[g] # "prepared"
               /\ wtx'[g] = wtx[g] /\ chan'[g] \in {"error", "none"}
            \/ wtx'[g] = wtx[g] /\ chan'[g] = "none"
            \/ /\ wtx[g] = "open" /\ link[g] = "down" /\ chan[g] = "none"
               /\ wtx'[g] = "aborted" /\ chan'[g] = "none"
<1>1. CASE WorkerExec(g)
  BY SMTT(30), Z3T(30), <1>1 DEF WorkerExec, Reply, TypeOK
<1>2. CASE DropCommand(g) \/ WorkerSessionEnds(g)
  BY <1>2 DEF DropCommand, WorkerSessionEnds, TypeOK
<1> QED BY <1>1, <1>2 DEF WorkerStep

\* A connection breaks or a worker crashes.
LEMMA BreakEffect ==
  ASSUME TypeOK, NEW g \in Gids,
         (\E h \in Gids : LinkDown(h)) \/ (\E w \in Workers : WorkerCrash(w))
  PROVE  /\ UNCHANGED <<coordVars, connVars, rows, recVars>>
         /\ chan'[g] = chan[g] \/ chan'[g] = "none"
         /\ \/ link'[g] = link[g] /\ wtx'[g] = wtx[g]
            \/ /\ link'[g] = "down"
               /\ wtx'[g] = wtx[g] \/ (wtx[g] = "open" /\ wtx'[g] = "aborted" /\ chan'[g] = "none")
            \/ /\ rstate[g] = "NOT_STARTED" /\ link'[g] = link[g]
               /\ wtx'[g] = wtx[g] \/ wtx[g] = "open"
<1>1. ASSUME NEW h \in Gids, LinkDown(h)
      PROVE  /\ UNCHANGED <<coordVars, connVars, rows, recVars, wtx>>
             /\ chan'[g] = chan[g] \/ chan'[g] = "none"
             /\ link'[g] = link[g] \/ link'[g] = "down"
  BY <1>1 DEF LinkDown, BreakLinks, TypeOK
<1>2. ASSUME NEW w \in Workers, WorkerCrash(w)
      PROVE  /\ UNCHANGED <<coordVars, connVars, rows, recVars>>
             /\ chan'[g] = IF WorkerOf[g] = w THEN "none" ELSE chan[g]
             /\ wtx'[g] = IF WorkerOf[g] = w /\ wtx[g] = "open" THEN "aborted" ELSE wtx[g]
             /\ link'[g] = IF WorkerOf[g] = w /\ rstate[g] # "NOT_STARTED" THEN "down" ELSE link[g]
  BY <1>2 DEF WorkerCrash, TypeOK
<1> QED BY <1>1, <1>2

\* A transaction begins or decides to use 2PC.
LEMMA BeginEffect ==
  ASSUME TypeOK, NEW t \in Xacts, NEW u \in Xacts,
         UseCoordinatedTransaction(t) \/ Use2PCForCoordinatedTransaction(t)
  PROVE  /\ UNCHANGED <<connVars, rows, netVars, recVars>>
         /\ \/ /\ phase'[u] = phase[u] /\ xact'[u] = xact[u] /\ outer'[u] = outer[u]
               /\ number'[u] = number[u]
               /\ u \in active' <=> u \in active
               /\ (u \in use2PC' <=> u \in use2PC) \/ (phase[u] = "executing" /\ u \in use2PC')
            \/ /\ phase[u] = "idle" /\ phase'[u] = "executing" /\ xact'[u] = "in_progress"
               /\ outer'[u] \in {"none", "in_progress"}
BY SMTT(30), Z3T(30) DEF UseCoordinatedTransaction, Use2PCForCoordinatedTransaction, TypeOK

\* The outer transaction goes on.
LEMMA OuterEffect ==
  ASSUME TypeOK, NEW t \in Xacts, NEW u \in Xacts,
         OuterRecordCommit(t) \/ OuterEndTransaction(t) \/ OuterAbort(t)
  PROVE  /\ UNCHANGED <<phase, xact, active, number, use2PC, connVars, rows, netVars, recVars>>
         /\ \/ outer'[u] = outer[u]
            \/ outer[u] = "in_progress" /\ outer'[u] \in {"clog_committed", "aborted"}
            \/ outer[u] = "clog_committed" /\ outer'[u] = "committed"
BY DEF OuterRecordCommit, OuterEndTransaction, OuterAbort, TypeOK

\* A restart of the initiating node.
LEMMA CrashEffect ==
  ASSUME TypeOK, CoordinatorCrash
  PROVE  /\ \A t \in Xacts :
              /\ phase'[t] = IF phase[t] \in {"idle", "finished"} THEN phase[t] ELSE "finished"
              /\ xact'[t] = IF xact[t] = "in_progress" THEN "aborted" ELSE xact[t]
              /\ outer'[t] = IF outer[t] = "in_progress" THEN "aborted"
                             ELSE IF outer[t] = "clog_committed" THEN "committed" ELSE outer[t]
         /\ \A g \in Gids :
              /\ chan'[g] = chan[g] \/ (chan'[g] = "none" /\ chan[g] \in Responses)
              /\ link'[g] = link[g] \/ link'[g] = "down"
         /\ active' = {}
         /\ NoRecovery
         /\ UNCHANGED <<number, use2PC, connVars, rows, wtx>>
BY ConstantsAssumption DEF ConstantsAssumption, TypeOK, CoordinatorCrash, BreakLinks

\* A step on another connection h: connection g is as it was, and its transaction may
\* have been aborted or have started to use 2PC.
LEMMA OtherConnections ==
  ASSUME TypeOK, NEW g \in Gids, NEW h \in Gids \ {g}, ConnectionStep(h) \/ WorkerStep(h)
  PROVE  /\ rstate'[g] = rstate[g] /\ access'[g] = access[g]
         /\ link'[g] = link[g] /\ chan'[g] = chan[g] /\ wtx'[g] = wtx[g]
         /\ g \in failed' <=> g \in failed
         /\ g \in critical' <=> g \in critical
         /\ g \in wrote' <=> g \in wrote
         /\ g \in rows' <=> g \in rows
         /\ UNCHANGED <<outer, active, number, recVars>>
         /\ \/ UNCHANGED <<phase, xact, use2PC>>
            \/ /\ phase[XactOf[g]] = "prepare"
               /\ phase'[XactOf[g]] = "post_abort" /\ xact'[XactOf[g]] = "aborted" /\ use2PC' = use2PC
            \/ /\ phase[XactOf[g]] = "executing" /\ XactOf[g] \in use2PC'
               /\ UNCHANGED <<phase, xact>>
            \/ /\ phase'[XactOf[g]] = phase[XactOf[g]] /\ xact'[XactOf[g]] = xact[XactOf[g]]
               /\ XactOf[g] \in use2PC' <=> XactOf[g] \in use2PC
<1>0. /\ DOMAIN rstate = Gids /\ DOMAIN access = Gids /\ DOMAIN link = Gids
      /\ DOMAIN chan = Gids /\ DOMAIN wtx = Gids
      /\ DOMAIN phase = Xacts /\ DOMAIN xact = Xacts
      /\ XactOf[g] \in Xacts /\ XactOf[h] \in Xacts
  BY ConstantsAssumption DEF ConstantsAssumption, TypeOK
<1> USE <1>0 DEF AbortXact
<1>1. ASSUME NEW statement \in Statements, Execute(h, statement) PROVE access'[g] = access[g]
  BY <1>1 DEF Execute
<1>2. CASE \E statement \in Statements : Execute(h, statement)
  BY SMTT(30), Z3T(30), <1>1, <1>2 DEF Execute
<1>3. CASE ReadFails(h)
  BY <1>3 DEF ReadFails
<1>4. CASE StartRemoteTransactionPrepare(h)
  BY SMTT(30), Z3T(30), <1>4 DEF StartRemoteTransactionPrepare
<1>5. CASE FinishRemoteTransactionPrepare(h)
  BY <1>5 DEF FinishRemoteTransactionPrepare, ConsumeResult
<1>6. CASE StartRemoteTransactionCommit(h)
  BY <1>6 DEF StartRemoteTransactionCommit, Send
<1>7. CASE FinishRemoteTransactionCommit(h)
  BY <1>7 DEF FinishRemoteTransactionCommit, ConsumeResult
<1>8. CASE StartRemoteTransactionAbort(h)
  BY <1>8 DEF StartRemoteTransactionAbort
<1>9. CASE FinishRemoteTransactionAbort(h)
  BY <1>9 DEF FinishRemoteTransactionAbort, ConsumeResult
<1>10. CASE WorkerExec(h)
  BY <1>10 DEF WorkerExec, Reply
<1>11. CASE DropCommand(h) \/ WorkerSessionEnds(h)
  BY <1>11 DEF DropCommand, WorkerSessionEnds
<1> QED
  BY <1>2, <1>3, <1>4, <1>5, <1>6, <1>7, <1>8, <1>9, <1>10, <1>11 DEF ConnectionStep, WorkerStep

\* Records are deleted when recovery commits, and only then.
LEMMA RecoveryRows ==
  ASSUME RecoveryStep
  PROVE  rows' = rows \/ (rows' = rows \ deletes /\ NoRecovery)
BY DEF RecoveryStep, RecoverTwoPhaseCommits, PendingWorkerTransactionList,
       ActiveDistributedTransactionNumbers, SnapshotRecords, RecheckPreparedTransactions,
       RecoverRecord, LookupOuterXact, AbortPending, RecoverOuterRecord, RecordsDone,
       WorkerRecovered, RecoveryCommit

\* A step of a transaction touches neither the workers nor recovery.
LEMMA SessionsFrame ==
  ASSUME TypeOK, NEW t \in Xacts, XactStep(t)
  PROVE  UNCHANGED <<wtx, rows, recVars>>
BY DEF XactStep, UseCoordinatedTransaction, Use2PCForCoordinatedTransaction, PreCommit,
   PrepareDone,
       OnePhaseCommitDone, LocalCommit, PostCommitDone, PostAbortDone, EndTransaction,
          RaiseError,
       OuterRecordCommit, OuterEndTransaction, OuterAbort

-----------------------------------------------------------------------------
(* Connections, writers, commands in transit, remote transactions            *)

\* The state of a connection: a step of the callbacks.
LEMMA ConnInvCallbacks ==
  ASSUME TypeOK, NEW g \in Gids, XactOf[g] \in Xacts, XactOK(XactOf[g]), ConnOK(g), ChanOK(g),
         RemoteOK(g), OutcomeOK(g), RecoveryOK(g),
         NEW t \in Xacts, XactStep(t)
  PROVE  ConnOK(g)'
<1>1. CASE UseCoordinatedTransaction(t) \/ Use2PCForCoordinatedTransaction(t)
  BY <1>1, BeginEffect DEF ConnOK
<1>2. CASE PreCommit(t) \/ PrepareDone(t) \/ OnePhaseCommitDone(t) \/ RaiseError(t) \/ LocalCommit(t)
  <2>1. /\ UNCHANGED <<use2PC, rstate, critical, access, wrote, rows, link, chan, wtx>>
        /\ g \in failed' =>
             g \in failed \/ (rstate[g] # "NOT_STARTED" /\ (g \in critical => phase'[XactOf[g]] = "post_abort"))
    BY <1>2, CallbackFrame
  <2> QED
    BY <1>2, <2>1, CallbackPhases DEF ConnOK, XactOK, InProgressPhases
<1>3. CASE PostCommitDone(t) \/ PostAbortDone(t)
  BY <1>3, EndEffect DEF ConnOK
<1>4. CASE OuterRecordCommit(t) \/ OuterEndTransaction(t) \/ OuterAbort(t)
  BY <1>4, OuterEffect DEF ConnOK
<1> QED
  BY <1>1, <1>2, <1>3, <1>4 DEF XactStep

\* The state of a connection: a command on the connection itself.
LEMMA ConnInvConnection ==
  ASSUME TypeOK, NEW g \in Gids, XactOf[g] \in Xacts, XactOK(XactOf[g]), ConnOK(g), ChanOK(g),
         RemoteOK(g), OutcomeOK(g), RecoveryOK(g),
         ConnectionStep(g)
  PROVE  ConnOK(g)'
<1>1. ASSUME NEW statement \in Statements, Execute(g, statement) PROVE ConnOK(g)'
  <2>1. phase[XactOf[g]] = "executing" /\ g \notin failed /\ rstate[g] \in {"NOT_STARTED", "STARTED"}
    BY <1>1, ExecuteEffect
  <2>2. rstate'[g] = "STARTED" /\ wtx'[g] = "open" /\ critical' = critical \cup {g}
    BY <1>1, ExecuteEffect
  <2>3. phase' = phase /\ failed' = failed /\ rows' = rows /\ chan' = chan
    BY <1>1, ExecuteEffect
  <2>4. /\ "write" \in access'[g] <=> ("write" \in access[g] \/ statement \in Modifications)
        /\ access'[g] = {} => access[g] = {} /\ statement = "node"
    <3>1. "write" \in access'[g] <=> ("write" \in access[g] \/ statement \in Modifications)
      BY <1>1, ExecuteEffect
    <3>2. access'[g] = {} => access[g] = {} /\ statement = "node"
      BY ZenonT(120), <1>1, ExecuteEffect
    <3> QED
      BY <3>1, <3>2
  <2>5. statement = "read" => wrote' = wrote
    BY <1>1, ExecuteEffect
  <2>6. statement # "read" => g \in wrote' /\ ("write" \in access'[g] \/ XactOf[g] \in use2PC')
    BY <1>1, ExecuteEffect
  <2>7. use2PC' = use2PC \/ use2PC' = use2PC \cup {XactOf[g]}
    BY <1>1, ExecuteEffect
  <2>8. chan[g] = "none" /\ g \notin rows
    BY <2>1 DEF ConnOK
  <2>9. /\ "write" \in access'[g] => g \in wrote'
        /\ access'[g] = {} => g \in wrote'
    BY <2>4, <2>5, <2>6 DEF ConnOK, Modifications
  <2>10. g \in wrote' /\ XactOf[g] \notin use2PC' => "write" \in access'[g]
    BY <2>4, <2>5, <2>6, <2>7 DEF ConnOK, Modifications
  <2> QED
    BY <2>1, <2>2, <2>3, <2>8, <2>9, <2>10 DEF ConnOK
<1>2. CASE ReadFails(g)
  BY <1>2, ReadFailsEffect DEF ConnOK
<1>3. CASE StartRemoteTransactionPrepare(g)
  BY <1>3, StartPrepareEffect DEF ConnOK
<1>4. CASE FinishRemoteTransactionPrepare(g)
  <2>1. PICK u \in Xacts : u = XactOf[g]
    OBVIOUS
  <2>2. /\ phase[u] = "prepare" /\ rstate[g] = "PREPARING" /\ chan'[g] \in {chan[g], "none"}
        /\ UNCHANGED <<use2PC, critical, access, wrote, rows, link, wtx>>
    BY <1>4, <2>1, FinishPrepareEffect
  <2>3. \/ rstate'[g] = "PREPARED" /\ phase'[u] = phase[u] /\ failed' = failed
        \/ /\ rstate'[g] = "ABORTED" /\ failed' = failed \cup {g}
           /\ \/ g \notin critical /\ phase'[u] = phase[u]
              \/ phase'[u] = "post_abort"
    BY <1>4, <2>1, FinishPrepareEffect
  <2> QED
    BY <2>1, <2>2, <2>3 DEF ConnOK
<1>5. CASE StartRemoteTransactionCommit(g)
  BY SMTT(30), Z3T(30), <1>5, StartCommitEffect DEF ConnOK
<1>6. CASE FinishRemoteTransactionCommit(g)
  BY <1>6, FinishCommitEffect DEF ConnOK
<1>7. CASE StartRemoteTransactionAbort(g) \/ FinishRemoteTransactionAbort(g)
  BY <1>7, AbortEffect DEF ConnOK
<1> QED
  BY <1>1, <1>2, <1>3, <1>4, <1>5, <1>6, <1>7 DEF ConnectionStep

\* The state of a connection: a node executes a command, or something fails.
LEMMA ConnInvEnvironment ==
  ASSUME TypeOK, NEW g \in Gids, XactOf[g] \in Xacts, XactOK(XactOf[g]), ConnOK(g), ChanOK(g),
         RemoteOK(g), OutcomeOK(g), RecoveryOK(g),
         WorkerStep(g) \/ Failure
  PROVE  ConnOK(g)'
<1>1. CASE WorkerStep(g)
  BY ZenonT(120), <1>1, WorkerEffect DEF ConnOK, ChanOK
<1>2. CASE (\E h \in Gids : LinkDown(h)) \/ (\E w \in Workers : WorkerCrash(w))
  BY <1>2, BreakEffect DEF ConnOK
<1>3. CASE CoordinatorCrash \/ RecoveryError \/ (\E w \in Workers : CannotConnect(w))
  <2>1. CASE CoordinatorCrash
    BY <2>1, CrashEffect DEF ConnOK, NoRecovery
  <2>2. CASE RecoveryError
    BY <2>2 DEF RecoveryError, NoRecovery, ConnOK
  <2>3. CASE \E w \in Workers : CannotConnect(w)
    BY <2>3 DEF CannotConnect, ConnOK
  <2> QED
    BY <1>3, <2>1, <2>2, <2>3
<1> QED
  BY <1>1, <1>2, <1>3 DEF Failure

\* A statement keeps a transaction without 2PC to one written connection: the write that
\* reaches a second connection switches 2PC on, if the executor asks before it.
LEMMA OneWriterExecute ==
  ASSUME TypeOK, OneWriter, ConnInv, NEW g \in Gids, NEW statement \in Statements,
         Execute(g, statement), EveryWriteChecked
  PROVE  OneWriter'
<1> USE ConstantsAssumption DEF ConstantsAssumption
<1>0. statement # "write_other"
  BY DEF EveryWriteChecked
<1>1. /\ \A h \in Gids \ {g} : "write" \in access'[h] <=> "write" \in access[h]
      /\ "write" \in access'[g] <=> ("write" \in access[g] \/ statement = "write")
  BY <1>0, ExecuteEffect DEF Modifications
<1>2. use2PC \subseteq use2PC'
  BY DEF Execute
<1>3. CASE "write" \in access[g] \/ statement # "write"
  BY <1>1, <1>2, <1>3 DEF OneWriter, EveryWriteChecked
<1>4. CASE "write" \notin access[g] /\ statement = "write"
  <2>1. CASE rstate[g] # "NOT_STARTED" /\ access[g] = {}
    <3>1. XactOf[g] \in use2PC
      BY <1>4, <2>1 DEF ConnInv, ConnOK
    <3> QED BY <1>1, <1>2, <3>1 DEF OneWriter, EveryWriteChecked
  <2>2. CASE ~(rstate[g] # "NOT_STARTED" /\ access[g] = {})
    <3>1. ASSUME NEW h \in Gids, XactOf[h] = XactOf[g], "write" \in access[h]
          PROVE  XactOf[g] \in use2PC'
      <4>1. ExpandsToNewConnection(g)
        BY <1>4, <2>2, <3>1 DEF ExpandsToNewConnection, TransactionModified,
           ConnectionModifiedPlacement, GidsOf, Execute
      <4>2. ChecksExpansion(g, statement) /\ statement \in Modifications
        BY <1>4, <2>2 DEF ChecksExpansion, Modifications
      <4> QED
        BY <4>1, <4>2 DEF Execute
    <3> QED BY <1>1, <1>2, <3>1 DEF OneWriter, EveryWriteChecked
  <2> QED BY <2>1, <2>2
<1> QED BY <1>3, <1>4

\* Every step keeps a transaction without 2PC to one written connection: a second one
\* switches 2PC on before it is used.
LEMMA OneWriterStep ==
  ASSUME IInv, [Next]_vars
  PROVE  OneWriter'
<1> USE ConstantsAssumption DEF ConstantsAssumption
<1>0. TypeOK /\ OneWriter /\ ConnInv
  BY DEF IInv
<1> SUFFICES ASSUME EveryWriteChecked PROVE OneWriter'
  BY DEF OneWriter, EveryWriteChecked
<1>1. CASE access' = access /\ use2PC \subseteq use2PC'
  BY <1>0, <1>1 DEF OneWriter, EveryWriteChecked
<1>2. ASSUME NEW g \in Gids, ReadFails(g) PROVE OneWriter'
  <2>1. \A h \in Gids : "write" \in access'[h] <=> "write" \in access[h]
    BY SMTT(30), Z3T(30), <1>0, <1>2 DEF ReadFails
  <2> QED
    BY <1>0, <1>2, <2>1 DEF ReadFails, OneWriter, EveryWriteChecked
<1>3. ASSUME NEW g \in Gids, NEW statement \in Statements, Execute(g, statement) PROVE OneWriter'
  BY <1>0, <1>3, OneWriterExecute
<1>4. ASSUME NEW t \in Xacts, XactStep(t) PROVE access' = access /\ use2PC \subseteq use2PC'
  BY <1>4 DEF XactStep, UseCoordinatedTransaction, Use2PCForCoordinatedTransaction,
     PreCommit, PrepareDone,
     OnePhaseCommitDone, LocalCommit, PostCommitDone, PostAbortDone, EndTransaction,
        RaiseError, OuterRecordCommit,
     OuterEndTransaction, OuterAbort, AbortXact
<1>5. ASSUME NEW g \in Gids, ConnectionStep(g) PROVE OneWriter'
  <2>1. CASE ~ReadFails(g) /\ ~\E statement \in Statements : Execute(g, statement)
    <3>1. access' = access /\ use2PC' = use2PC
      BY <1>5, <2>1 DEF ConnectionStep, StartRemoteTransactionPrepare,
         FinishRemoteTransactionPrepare,
         StartRemoteTransactionCommit, FinishRemoteTransactionCommit,
            StartRemoteTransactionAbort, FinishRemoteTransactionAbort, AbortXact
    <3> QED BY <1>1, <3>1
  <2> QED BY <1>2, <1>3, <2>1
<1>6. CASE Failure
  <2>1. access' = access /\ use2PC' = use2PC
    BY <1>6 DEF Failure, LinkDown, WorkerCrash, CoordinatorCrash, RecoveryError,
       CannotConnect
  <2> QED BY <1>1, <2>1
<1>7. CASE UNCHANGED <<coordVars, connVars>>
  BY <1>1, <1>7
<1> QED
  BY <1>1, <1>4, <1>5, <1>6, <1>7, WorkerFrame, RecoveryFrame DEF Next, vars

-----------------------------------------------------------------------------
(* Commands in transit and remote transactions                             *)

\* Commands in transit: a step of the callbacks.
LEMMA ChanInvCallbacks ==
  ASSUME TypeOK, NEW g \in Gids, XactOf[g] \in Xacts, XactOK(XactOf[g]), ConnOK(g), ChanOK(g),
         RemoteOK(g), OutcomeOK(g), RecoveryOK(g),
         NEW t \in Xacts, XactStep(t)
  PROVE  ChanOK(g)'
<1>1. CASE UseCoordinatedTransaction(t) \/ Use2PCForCoordinatedTransaction(t)
  <2>1. PICK u \in Xacts : u = XactOf[g]
    OBVIOUS
  <2>2. CASE phase[u] = "idle"
    BY <1>1, <2>1, <2>2, BeginEffect DEF ConnOK, ChanOK, Participant
  <2>3. CASE phase[u] # "idle"
    <3>1. /\ xact'[u] = xact[u] /\ outer'[u] = outer[u] /\ phase'[u] = phase[u]
          /\ u \in active' <=> u \in active
          /\ (u \in use2PC' <=> u \in use2PC) \/ (phase[u] = "executing" /\ u \in use2PC')
      BY <1>1, <2>3, BeginEffect
    <3>2. CommitDecided(u)' <=> CommitDecided(u)
      BY <3>1 DEF CommitDecided
    <3>3. /\ rstate' = rstate /\ critical' = critical /\ access' = access /\ wrote' = wrote
          /\ rows' = rows /\ chan' = chan /\ wtx' = wtx
      BY <1>1, BeginEffect DEF connVars, netVars
    <3> QED
      BY <2>1, <2>3, <3>1, <3>2, <3>3 DEF ChanOK, Participant, CommitDecided
  <2> QED BY <2>2, <2>3
<1>2. CASE PreCommit(t) \/ PrepareDone(t) \/ OnePhaseCommitDone(t) \/ RaiseError(t) \/ LocalCommit(t)
  <2>1. PICK u \in Xacts : u = XactOf[g]
    OBVIOUS
  <2>2. phase[u] = "prepare" /\ phase'[u] = "checked" => rstate[g] # "PREPARING"
    BY <1>2, <2>1, CallbackReady
  <2>3. Participant(g) /\ phase[u] = "commit_1pc" /\ phase'[u] = "checked" => chan[g] # "COMMIT"
    BY <1>2, <2>1, CallbackReady DEF AwaitingCommit,
       ErrorIfPostCommitFailedShardPlacements, GidsOf, ConnOK, ChanOK, Participant
  <2> QED
    BY ZenonT(120), <1>2, <2>1, <2>2, <2>3, CallbackFrame, CallbackPhases, SameParticipant
       DEF XactOK, ChanOK, CommitDecided, InProgressPhases
<1>3. CASE PostCommitDone(t) \/ PostAbortDone(t)
  BY <1>3, EndEffect, SameParticipant DEF ChanOK, CommitDecided
<1>4. CASE OuterRecordCommit(t) \/ OuterEndTransaction(t) \/ OuterAbort(t)
  BY <1>4, OuterEffect, SameParticipant DEF ChanOK, CommitDecided
<1> QED
  BY <1>1, <1>2, <1>3, <1>4 DEF XactStep

\* Commands in transit: a command on the connection itself.
LEMMA ChanInvConnection ==
  ASSUME TypeOK, NEW g \in Gids, XactOf[g] \in Xacts, XactOK(XactOf[g]), ConnOK(g), ChanOK(g),
         RemoteOK(g), OutcomeOK(g), RecoveryOK(g),
         ConnectionStep(g)
  PROVE  ChanOK(g)'
<1>1. ASSUME NEW statement \in Statements, Execute(g, statement) PROVE ChanOK(g)'
  BY <1>1, ExecuteEffect DEF ChanOK
<1>2. CASE ReadFails(g)
  BY <1>2, ReadFailsEffect DEF ConnOK, ChanOK
<1>3. CASE StartRemoteTransactionPrepare(g)
  <2>1. /\ rstate[g] = "STARTED" /\ chan[g] = "none" /\ XactOf[g] \in use2PC
        /\ phase[XactOf[g]] = "prepare" /\ g \in rows'
        /\ UNCHANGED <<outer, active, use2PC, access, wrote, wtx>>
    BY <1>3, StartPrepareEffect DEF XactOK, ConnOK
  <2>2. Participant(g) /\ Participant(g)'
    BY <1>3, <2>1, StartPrepareEffect, SameParticipant DEF ConnOK, Participant
  <2>3. CASE chan'[g] = "none"
    <3>1. rstate'[g] = "STARTED"
      BY <1>3, <2>1, <2>3, StartPrepareEffect
    <3> QED
      BY <2>3, <3>1 DEF ChanOK
  <2>4. CASE chan'[g] # "none"
    <3>1. /\ chan'[g] = "PREPARE" /\ rstate'[g] = "PREPARING" /\ link[g] = "up"
          /\ phase'[XactOf[g]] = "prepare"
      BY <1>3, <2>1, <2>4, StartPrepareEffect
    <3>2. wtx[g] = "open"
      BY <2>1, <3>1 DEF ConnOK
    <3> QED
      BY <2>1, <2>2, <3>1, <3>2 DEF ChanOK
  <2> QED
    BY <2>3, <2>4
<1>4. CASE FinishRemoteTransactionPrepare(g)
  BY <1>4, FinishPrepareEffect, SameParticipant DEF ConnOK, ChanOK
<1>5. CASE StartRemoteTransactionCommit(g)
  <2>1. /\ phase[XactOf[g]] \in {"commit_1pc", "post_commit"}
        /\ phase[XactOf[g]] = "post_commit" => outer[XactOf[g]] = "none"
        /\ rstate[g] \in {"STARTED", "PREPARED"}
        /\ UNCHANGED <<coordVars, critical, access, wrote, rows, link, wtx>>
    BY <1>5, StartCommitEffect
  <2>2. UNCHANGED <<phase, xact, outer, use2PC>> /\ (Participant(g)' <=> Participant(g))
    BY <2>1, SameParticipant DEF coordVars
  <2>3. chan[g] = "none"
    BY <2>1 DEF ConnOK, ChanOK
  <2>4. CASE chan'[g] = "none"
    BY <2>4 DEF ChanOK
  <2>5. CASE chan'[g] = "ROLLBACK" /\ rstate'[g] = "1PC_ABORTING" /\ g \in failed
    <3>1. g \notin critical
      BY <2>1, <2>5 DEF ConnOK
    <3> QED
      BY <2>1, <2>5, <3>1 DEF ChanOK
  <2>6. CASE /\ chan'[g] = "COMMIT_PREPARED" /\ rstate'[g] = "2PC_COMMITTING"
             /\ rstate[g] = "PREPARED"
    <3>1. phase[XactOf[g]] = "post_commit"
      BY <2>1, <2>6 DEF ConnOK, RemoteOK
    <3>2. CommitDecided(XactOf[g])'
      BY <2>1, <2>2, <3>1 DEF XactOK, CommitDecided
    <3> QED
      BY <2>6, <3>2 DEF ChanOK
  <2>7. CASE /\ chan'[g] = "COMMIT" /\ rstate'[g] = "1PC_COMMITTING"
             /\ rstate[g] = "STARTED" /\ link[g] = "up"
    <3>1. wtx[g] = "open"
      BY <2>7 DEF ConnOK
    <3>2. Participant(g) => XactOf[g] \notin use2PC
      BY <2>1, <2>7 DEF XactOK, RemoteOK
    <3>3. Participant(g) => xact[XactOf[g]] # "committed"
      BY <3>1, <3>2 DEF OutcomeOK
    <3> QED
      BY <2>1, <2>2, <2>7, <3>1, <3>2, <3>3 DEF ChanOK
  <2>8. \/ g \in failed /\ rstate'[g] = "1PC_ABORTING"
        \/ rstate[g] = "PREPARED" /\ rstate'[g] = "2PC_COMMITTING"
        \/ rstate[g] = "STARTED" /\ rstate'[g] = "1PC_COMMITTING"
    BY <1>5, StartCommitEffect
  <2>9. \/ chan'[g] = chan[g]
        \/ /\ link[g] = "up"
           /\ rstate'[g] = "1PC_ABORTING" => chan'[g] = "ROLLBACK"
           /\ rstate'[g] = "2PC_COMMITTING" => chan'[g] = "COMMIT_PREPARED"
           /\ rstate'[g] = "1PC_COMMITTING" => chan'[g] = "COMMIT"
    BY <1>5, StartCommitEffect
  <2> QED
    BY <2>3, <2>4, <2>5, <2>6, <2>7, <2>8, <2>9
<1>6. CASE FinishRemoteTransactionCommit(g)
  BY ZenonT(120), <1>6, FinishCommitEffect, SameParticipant DEF ChanOK, CommitDecided
<1>7. CASE StartRemoteTransactionAbort(g) \/ FinishRemoteTransactionAbort(g)
  BY <1>7, AbortEffect, SameParticipant DEF XactOK, ChanOK, CommitDecided
<1> QED
  BY <1>1, <1>2, <1>3, <1>4, <1>5, <1>6, <1>7 DEF ConnectionStep

\* Commands in transit: a node executes a command, or something fails.
LEMMA ChanInvEnvironment ==
  ASSUME TypeOK, NEW g \in Gids, XactOf[g] \in Xacts, XactOK(XactOf[g]), ConnOK(g), ChanOK(g),
         RemoteOK(g), OutcomeOK(g), RecoveryOK(g),
         WorkerStep(g) \/ Failure
  PROVE  ChanOK(g)'
<1>1. CASE WorkerStep(g)
  BY <1>1, WorkerEffect DEF ChanOK
<1>2. CASE (\E h \in Gids : LinkDown(h)) \/ (\E w \in Workers : WorkerCrash(w))
  BY <1>2, BreakEffect, SameParticipant DEF ChanOK, CommitDecided
<1>3. CASE CoordinatorCrash \/ RecoveryError \/ (\E w \in Workers : CannotConnect(w))
  <2>1. CASE CoordinatorCrash
    BY ZenonT(120), <2>1, CrashEffect DEF XactOK, ChanOK, Participant, CommitDecided, InProgressPhases,
       NoRecovery
  <2>2. CASE RecoveryError
    BY <2>2 DEF RecoveryError, NoRecovery, ChanOK, Participant, CommitDecided
  <2>3. CASE \E w \in Workers : CannotConnect(w)
    BY <2>3 DEF CannotConnect, ChanOK, Participant, CommitDecided
  <2> QED
    BY <1>3, <2>1, <2>2, <2>3
<1> QED
  BY <1>1, <1>2, <1>3 DEF Failure

\* The coordinator's view: a step of the callbacks.
LEMMA RemoteInvCallbacks ==
  ASSUME TypeOK, NEW g \in Gids, XactOf[g] \in Xacts, XactOK(XactOf[g]), ConnOK(g), ChanOK(g),
         RemoteOK(g), OutcomeOK(g), RecoveryOK(g),
         NEW t \in Xacts, XactStep(t)
  PROVE  RemoteOK(g)'
<1>1. CASE UseCoordinatedTransaction(t) \/ Use2PCForCoordinatedTransaction(t)
  <2>1. PICK u \in Xacts : u = XactOf[g]
    OBVIOUS
  <2>2. UNCHANGED <<rstate, wtx, critical, access, wrote>>
    BY <1>1, BeginEffect DEF connVars, netVars
  <2>3. \/ phase'[u] = phase[u] /\ (u \in use2PC' <=> u \in use2PC)
        \/ phase'[u] = "executing"
    BY <1>1, BeginEffect
  <2> QED
    BY <2>1, <2>2, <2>3 DEF Participant, RemoteOK
<1>2. CASE PreCommit(t) \/ PrepareDone(t) \/ OnePhaseCommitDone(t) \/ RaiseError(t) \/ LocalCommit(t)
  <2>1. PICK u \in Xacts : u = XactOf[g]
    OBVIOUS
  <2>2. Participant(g) /\ phase[u] = "prepare" /\ phase'[u] = "checked" => rstate[g] = "PREPARED"
    BY <1>2, <2>1, CallbackReady DEF ToPrepare, GidsOf, ConnectionModifiedPlacement,
       ConnOK, Participant
  <2>3. Participant(g) /\ phase[u] = "commit_1pc" /\ phase'[u] = "checked" => wtx[g] = "committed"
    <3> SUFFICES ASSUME Participant(g), phase[u] = "commit_1pc", phase'[u] = "checked"
                 PROVE  wtx[g] = "committed"
      OBVIOUS
    <3>1. /\ ToCommit(u) = {} /\ AwaitingCommit(u) = {}
          /\ ErrorIfPostCommitFailedShardPlacements(u, failed)
      BY <1>2, <2>1, CallbackReady
    <3>2. g \in wrote /\ g \in critical /\ rstate[g] # "NOT_STARTED"
      BY DEF Participant, ConnOK
    <3>3. rstate[g] \in {"STARTED", "1PC_COMMITTING", "COMMITTED"}
      BY <2>1, <3>2 DEF RemoteOK
    <3>4. rstate[g] # "STARTED"
      BY <2>1, <3>1 DEF ToCommit, GidsOf
    <3>5. rstate[g] # "1PC_COMMITTING" \/ g \in failed
      BY <2>1, <3>1 DEF AwaitingCommit, GidsOf
    <3>6. u \notin use2PC
      BY <2>1 DEF XactOK
    <3>7. "write" \in access[g]
      BY <2>1, <3>2, <3>6 DEF ConnOK
    <3>8. g \notin failed
      BY <2>1, <3>1, <3>7 DEF ErrorIfPostCommitFailedShardPlacements, GidsOf
    <3> QED
      BY <3>3, <3>4, <3>5, <3>8 DEF RemoteOK
  <2>4. /\ phase[u] = "prepare" => u \in use2PC
        /\ phase[u] = "commit_1pc" => u \notin use2PC
        /\ phase[u] = "executing" => rstate[g] \in {"NOT_STARTED", "STARTED"}
        /\ g \notin critical => rstate[g] # "PREPARED"
    BY <2>1 DEF XactOK, ConnOK
  <2>5. UNCHANGED <<use2PC, rstate, critical, wtx>> /\ (Participant(g)' <=> Participant(g))
    BY <1>2, <2>1, CallbackFrame, SameParticipant
  <2>6. \/ phase'[u] = phase[u] \/ phase'[u] = "post_abort"
        \/ phase[u] = "executing" /\ phase'[u] \in {"prepare", "commit_1pc"}
        \/ phase[u] \in {"prepare", "commit_1pc"} /\ phase'[u] = "checked"
        \/ phase[u] = "checked" /\ phase'[u] = "post_commit"
    BY <1>2, <2>1, CallbackPhases
  <2> QED
    BY <2>1, <2>2, <2>3, <2>4, <2>5, <2>6 DEF RemoteOK
<1>3. CASE PostCommitDone(t) \/ PostAbortDone(t)
  <2>1. PICK u \in Xacts : u = XactOf[g]
    OBVIOUS
  <2>2. UNCHANGED <<use2PC, rstate, critical, wtx, access, wrote>>
    BY <1>3, <2>1, EndEffect
  <2>3. phase'[u] = phase[u] \/ phase'[u] = "finished"
    BY <1>3, <2>1, EndEffect
  <2>4. Participant(g)' <=> Participant(g)
    BY <2>2, SameParticipant
  <2> QED
    BY <2>1, <2>2, <2>3, <2>4 DEF RemoteOK
<1>4. CASE OuterRecordCommit(t) \/ OuterEndTransaction(t) \/ OuterAbort(t)
  <2>1. UNCHANGED <<phase, use2PC, rstate, critical, wtx, access, wrote>>
    BY <1>4, OuterEffect
  <2>2. Participant(g)' <=> Participant(g)
    BY <2>1, SameParticipant
  <2> QED
    BY <2>1, <2>2 DEF RemoteOK
<1> QED
  BY <1>1, <1>2, <1>3, <1>4 DEF XactStep

\* The coordinator's view: a command on the connection itself.
LEMMA RemoteInvConnection ==
  ASSUME TypeOK, NEW g \in Gids, XactOf[g] \in Xacts, XactOK(XactOf[g]), ConnOK(g), ChanOK(g),
         RemoteOK(g), OutcomeOK(g), RecoveryOK(g),
         ConnectionStep(g)
  PROVE  RemoteOK(g)'
<1>1. ASSUME NEW statement \in Statements, Execute(g, statement) PROVE RemoteOK(g)'
  BY <1>1, ExecuteEffect DEF RemoteOK
<1>2. CASE ReadFails(g)
  BY <1>2, ReadFailsEffect DEF RemoteOK
<1>3. CASE StartRemoteTransactionPrepare(g)
  BY <1>3, StartPrepareEffect DEF RemoteOK
<1>4. CASE FinishRemoteTransactionPrepare(g)
  <2>1. chan[g] = "ok" => wtx[g] = "prepared"
    BY <1>4, FinishPrepareEffect DEF XactOK, ChanOK
  <2>2. PICK u \in Xacts : u = XactOf[g]
    OBVIOUS
  <2>3. /\ phase[u] = "prepare" /\ UNCHANGED <<use2PC, critical, access, wrote, wtx>>
        /\ \/ chan[g] = "ok" /\ rstate'[g] = "PREPARED" /\ phase'[u] = phase[u]
           \/ /\ rstate'[g] = "ABORTED" /\ phase'[u] \in {phase[u], "post_abort"}
    BY <1>4, <2>2, FinishPrepareEffect
  <2> QED
    BY <2>1, <2>2, <2>3 DEF RemoteOK
<1>5. CASE StartRemoteTransactionCommit(g)
  BY <1>5, StartCommitEffect, SameParticipant DEF ConnOK, RemoteOK
<1>6. CASE FinishRemoteTransactionCommit(g)
  BY <1>6, FinishCommitEffect, SameParticipant DEF ChanOK, RemoteOK
<1>7. CASE StartRemoteTransactionAbort(g) \/ FinishRemoteTransactionAbort(g)
  BY <1>7, AbortEffect DEF RemoteOK
<1> QED
  BY <1>1, <1>2, <1>3, <1>4, <1>5, <1>6, <1>7 DEF ConnectionStep

\* The coordinator's view: a node executes a command, or something fails.
LEMMA RemoteInvEnvironment ==
  ASSUME TypeOK, NEW g \in Gids, XactOf[g] \in Xacts, XactOK(XactOf[g]), ConnOK(g), ChanOK(g),
         RemoteOK(g), OutcomeOK(g), RecoveryOK(g),
         WorkerStep(g) \/ Failure
  PROVE  RemoteOK(g)'
<1>1. CASE WorkerStep(g)
  BY <1>1, WorkerEffect, SameParticipant DEF ChanOK, RemoteOK
<1>2. CASE (\E h \in Gids : LinkDown(h)) \/ (\E w \in Workers : WorkerCrash(w))
  BY <1>2, BreakEffect, SameParticipant DEF RemoteOK
<1>3. CASE CoordinatorCrash \/ RecoveryError \/ (\E w \in Workers : CannotConnect(w))
  <2>1. CASE CoordinatorCrash
    BY <2>1, CrashEffect DEF RemoteOK, NoRecovery
  <2>2. CASE RecoveryError
    BY <2>2 DEF RecoveryError, NoRecovery, Participant, RemoteOK
  <2>3. CASE \E w \in Workers : CannotConnect(w)
    BY <2>3 DEF CannotConnect, Participant, RemoteOK
  <2> QED
    BY <1>3, <2>1, <2>2, <2>3
<1> QED
  BY <1>1, <1>2, <1>3 DEF Failure
=============================================================================
