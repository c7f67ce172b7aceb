------------------------ MODULE TwoPhaseCommitProofs ------------------------
(*****************************************************************************)
(* TwoPhaseCommit keeps its inductive invariant, and what follows from it:   *)
(* agreement, durability of the decision, the record outliving the           *)
(* prepared transaction, and recovery sparing running transactions.  It      *)
(* implements AtomicCommit, unless commands over node connections are mixed  *)
(* with reads: then a connection that wrote may stop counting as modified    *)
(* (ConnectionModifiedPlacement).                                            *)
(*****************************************************************************)
EXTENDS TwoPhaseCommitSteps, TwoPhaseCommitRefinement
USE DEF coordVars, connVars, netVars, recVars
\* The provers of the leaves that name none: Zenon, then Z3.
USE ZenonT(30), Z3T(30)

-----------------------------------------------------------------------------
(* Outcomes: what a node did with its part of a transaction, the decision,   *)
(* and what recovery may do to a prepared transaction and a record           *)

\* Outcomes: a step that changes nothing they speak of.
LEMMA OutcomeSame ==
  ASSUME NEW g \in Gids, OutcomeOK(g),
         UNCHANGED <<phase, xact, outer, use2PC, access, wrote, wtx, rows, deletes>>
  PROVE  OutcomeOK(g)'
<1>1. Participant(g)' <=> Participant(g)
  BY SameParticipant
<1>2. CommitDecided(XactOf[g])' <=> CommitDecided(XactOf[g])
  BY DEF CommitDecided
<1> QED
  BY <1>1, <1>2 DEF OutcomeOK

\* Outcomes: a step of the callbacks.
LEMMA OutcomeInvCallbacks ==
  ASSUME TypeOK, NEW g \in Gids, XactOf[g] \in Xacts, XactOK(XactOf[g]), ConnOK(g), ChanOK(g),
         RemoteOK(g), OutcomeOK(g), RecoveryOK(g),
         NEW t \in Xacts, XactStep(t)
  PROVE  OutcomeOK(g)'
<1>1. CASE UseCoordinatedTransaction(t) \/ Use2PCForCoordinatedTransaction(t)
  <2>1. PICK u \in Xacts : u = XactOf[g]
    OBVIOUS
  <2>2. UNCHANGED <<access, wrote, wtx, rows, deletes, rstate>>
    BY <1>1, <2>1, BeginEffect
  <2>3. Participant(g)' <=> Participant(g)
    BY <2>2, SameParticipant
  <2>4. CASE phase[u] = "idle"
    <3>1. wtx[g] = "none" /\ g \notin rows /\ g \notin deletes /\ ~Participant(g)
      BY <2>1, <2>4 DEF ConnOK, OutcomeOK, Participant
    <3> QED
      BY <2>1, <2>2, <2>3, <3>1 DEF OutcomeOK
  <2>5. CASE phase[u] # "idle"
    <3>1. /\ xact'[u] = xact[u] /\ outer'[u] = outer[u] /\ phase'[u] = phase[u]
          /\ (u \in use2PC' <=> u \in use2PC) \/ (phase[u] = "executing" /\ u \in use2PC')
      BY <1>1, <2>5, BeginEffect
    <3>2. CommitDecided(u)' <=> CommitDecided(u)
      BY <3>1 DEF CommitDecided
    <3> QED
      BY <2>1, <2>2, <2>3, <3>1, <3>2 DEF XactOK, ConnOK, OutcomeOK
  <2> QED
    BY <2>4, <2>5
<1>2. CASE PreCommit(t) \/ PrepareDone(t) \/ OnePhaseCommitDone(t) \/ RaiseError(t) \/ LocalCommit(t)
  <2>1. PICK u \in Xacts : u = XactOf[g]
    OBVIOUS
  <2>2. UNCHANGED <<outer, use2PC, access, wrote, wtx, rows, deletes>>
    BY <1>2, <2>1, CallbackFrame
  <2>3. Participant(g)' <=> Participant(g)
    BY <2>2, SameParticipant
  <2>4. \/ phase'[u] = phase[u] /\ xact'[u] = xact[u]
        \/ phase[u] \in InProgressPhases /\ phase'[u] = "post_abort" /\ xact'[u] = "aborted"
        \/ phase'[u] \notin {"idle", "executing"} /\ xact'[u] = xact[u]
        \/ phase[u] = "checked" /\ phase'[u] = "post_commit" /\ xact'[u] = "committed"
    BY <1>2, <2>1, CallbackPhases
  <2>5. CASE phase[u] \in InProgressPhases /\ phase'[u] = "post_abort" /\ xact'[u] = "aborted"
    <3>1. xact[u] = "in_progress" /\ outer[u] \notin {"clog_committed", "committed"}
      BY <2>1, <2>5 DEF XactOK, InProgressPhases
    <3>2. CommitDecided(u)' <=> CommitDecided(u)
      BY <2>2, <2>5, <3>1 DEF CommitDecided
    <3> QED
      BY <2>1, <2>2, <2>3, <2>5, <3>2 DEF OutcomeOK
  <2>6. CASE phase[u] = "checked" /\ phase'[u] = "post_commit" /\ xact'[u] = "committed"
    <3>1. xact[u] = "in_progress"
      BY <2>1, <2>6 DEF XactOK, InProgressPhases
    <3>2. CommitDecided(u) => CommitDecided(u)'
      BY <2>2, <2>6, <3>1 DEF CommitDecided
    <3>3. Participant(g) => wtx[g] = IF u \in use2PC THEN "prepared" ELSE "committed"
      BY <2>1, <2>6 DEF RemoteOK
    <3> QED
      BY <2>1, <2>2, <2>3, <2>6, <3>2, <3>3 DEF OutcomeOK, Resolvable
  <2>7. CASE xact'[u] = xact[u] /\ (phase'[u] = phase[u] \/ phase'[u] \notin {"idle", "executing"})
    <3>1. CommitDecided(u)' <=> CommitDecided(u)
      BY <2>2, <2>7 DEF CommitDecided
    <3> QED
      BY <2>1, <2>2, <2>3, <2>7, <3>1 DEF OutcomeOK
  <2> QED
    BY <2>4, <2>5, <2>6, <2>7
<1>3. CASE PostCommitDone(t) \/ PostAbortDone(t)
  BY SMTT(30), Z3T(30), <1>3, EndEffect, SameParticipant DEF CommitDecided, OutcomeOK
<1>4. CASE OuterRecordCommit(t) \/ OuterEndTransaction(t) \/ OuterAbort(t)
  BY <1>4, OuterEffect, SameParticipant DEF CommitDecided, OutcomeOK
<1> QED
  BY <1>1, <1>2, <1>3, <1>4 DEF XactStep

\* Outcomes: a command on the connection itself.
LEMMA OutcomeInvConnection ==
  ASSUME TypeOK, NEW g \in Gids, XactOf[g] \in Xacts, XactOK(XactOf[g]), ConnOK(g), ChanOK(g),
         RemoteOK(g), OutcomeOK(g), RecoveryOK(g),
         ConnectionStep(g)
  PROVE  OutcomeOK(g)'
<1>1. ASSUME NEW statement \in Statements, Execute(g, statement) PROVE OutcomeOK(g)'
  BY <1>1, ExecuteEffect DEF XactOK, ConnOK, InProgressPhases, OutcomeOK
<1>2. CASE ReadFails(g)
  BY <1>2, ReadFailsEffect DEF ConnOK, Participant, OutcomeOK
<1>3. CASE StartRemoteTransactionPrepare(g)
  <2>1. PICK u \in Xacts : u = XactOf[g]
    OBVIOUS
  <2>2. /\ phase[u] = "prepare" /\ rows' = rows \cup {g}
        /\ UNCHANGED <<outer, use2PC, access, wrote, wtx, deletes>>
    BY <1>3, <2>1, StartPrepareEffect
  <2>3. rstate[g] = "STARTED" /\ (access[g] = {} \/ "write" \in access[g])
    BY <1>3, <2>1, StartPrepareEffect
  <2>4. \/ phase'[u] = phase[u] /\ xact'[u] = xact[u]
        \/ phase'[u] = "post_abort" /\ xact'[u] = "aborted"
    BY <1>3, <2>1, StartPrepareEffect
  <2>5. Participant(g)' <=> Participant(g)
    BY <2>2, SameParticipant
  <2>6. Participant(g) /\ u \in use2PC /\ xact[u] = "in_progress"
    BY <2>1, <2>2, <2>3 DEF XactOK, InProgressPhases, ConnOK, Participant
  <2>7. wtx[g] \in {"none", "open", "aborted"} /\ g \notin deletes
    BY <2>3 DEF ConnOK, OutcomeOK
  <2> QED
    BY <2>1, <2>2, <2>4, <2>5, <2>6, <2>7 DEF XactOK, OutcomeOK
<1>4. CASE FinishRemoteTransactionPrepare(g)
  <2>1. PICK u \in Xacts : u = XactOf[g]
    OBVIOUS
  <2>2. phase[u] = "prepare" /\ UNCHANGED <<outer, use2PC, access, wrote, rows, wtx, deletes>>
    BY <1>4, <2>1, FinishPrepareEffect
  <2>3. \/ phase'[u] = phase[u] /\ xact'[u] = xact[u]
        \/ phase'[u] = "post_abort" /\ xact'[u] = "aborted"
    BY <1>4, <2>1, FinishPrepareEffect
  <2>4. Participant(g)' <=> Participant(g)
    BY <2>2, SameParticipant
  <2>5. xact[u] = "in_progress" /\ outer[u] \notin {"clog_committed", "committed"}
    BY <2>1, <2>2 DEF XactOK, InProgressPhases
  <2>6. CommitDecided(u)' <=> CommitDecided(u)
    BY <2>2, <2>3, <2>5 DEF CommitDecided
  <2> QED
    BY <2>1, <2>2, <2>3, <2>4, <2>5, <2>6 DEF OutcomeOK
<1>5. CASE StartRemoteTransactionCommit(g)
  BY <1>5, StartCommitEffect, OutcomeSame
<1>6. CASE FinishRemoteTransactionCommit(g)
  BY <1>6, FinishCommitEffect, OutcomeSame
<1>7. CASE StartRemoteTransactionAbort(g) \/ FinishRemoteTransactionAbort(g)
  BY <1>7, AbortEffect, OutcomeSame
<1> QED
  BY <1>1, <1>2, <1>3, <1>4, <1>5, <1>6, <1>7 DEF ConnectionStep

\* Outcomes: a node executes a command, or something fails.
LEMMA OutcomeInvEnvironment ==
  ASSUME TypeOK, NEW g \in Gids, XactOf[g] \in Xacts, XactOK(XactOf[g]), ConnOK(g), ChanOK(g),
         RemoteOK(g), OutcomeOK(g), RecoveryOK(g),
         WorkerStep(g) \/ Failure
  PROVE  OutcomeOK(g)'
<1>1. CASE WorkerStep(g)
  BY <1>1, WorkerEffect, SameParticipant DEF ConnOK, ChanOK, CommitDecided, OutcomeOK,
     Resolvable
<1>2. CASE (\E h \in Gids : LinkDown(h)) \/ (\E w \in Workers : WorkerCrash(w))
  BY <1>2, BreakEffect, SameParticipant DEF ConnOK, CommitDecided, OutcomeOK, Resolvable
<1>3. CASE CoordinatorCrash \/ RecoveryError \/ (\E w \in Workers : CannotConnect(w))
  <2>1. CASE CoordinatorCrash
    BY <2>1, CrashEffect DEF Participant, CommitDecided, OutcomeOK, NoRecovery
  <2>2. CASE RecoveryError
    BY <2>2 DEF RecoveryError, NoRecovery, Participant, CommitDecided, OutcomeOK
  <2>3. CASE \E w \in Workers : CannotConnect(w)
    BY <2>3 DEF CannotConnect, Participant, CommitDecided, OutcomeOK
  <2> QED
    BY <1>3, <2>1, <2>2, <2>3
<1> QED
  BY <1>1, <1>2, <1>3 DEF Failure

\* Recovery resolves a prepared transaction only when its distributed transaction has
\* ended, and the way that transaction was decided.
LEMMA RecoveryResolves ==
  ASSUME IInv, RecoveryStep
  PROVE  \A g \in Gids :
           \/ wtx'[g] = wtx[g]
           \/ /\ wtx[g] = "prepared" /\ phase[XactOf[g]] = "finished"
              /\ \/ wtx'[g] = "committed" /\ CommitDecided(XactOf[g])
                 \/ wtx'[g] = "aborted" /\ AbortDecided(XactOf[g])
<1> USE ConstantsAssumption DEF ConstantsAssumption
<1>0. TypeOK /\ XactInv /\ RecoveryControl /\ RecoveryInv
  BY DEF IInv
<1> USE <1>0
<1> DEFINE Goal == \A g \in Gids :
           \/ wtx'[g] = wtx[g]
           \/ /\ wtx[g] = "prepared" /\ phase[XactOf[g]] = "finished"
              /\ \/ wtx'[g] = "committed" /\ CommitDecided(XactOf[g])
                 \/ wtx'[g] = "aborted" /\ AbortDecided(XactOf[g])
<1>1. CASE wtx' = wtx
  BY <1>1
<1>2. ASSUME NEW g \in T, ResolveRecord(g) \/ ResolveRecordFails(g),
             rpc \in {"records", "outer_in_progress", "outer_ended"},
             number[XactOf[g]] \notin A, CommitDecided(XactOf[g])
      PROVE  Goal
  <2>1. wtx' = wtx \/ (g \in P /\ wtx[g] = "prepared" /\ wtx' = [wtx EXCEPT ![g] = "committed"])
    BY <1>2 DEF ResolveRecord, ResolveRecordFails, RecoverPreparedTransactionOnWorker,
       RecoverPreparedTransactionFails
  <2>2. g \in P => phase[XactOf[g]] = "finished"
    BY <1>2 DEF RecoveryInv, RecoveryOK, RecoveryControl, TypeOK
  <2> QED BY SMTT(30), Z3T(30), <1>2, <2>1, <2>2 DEF TypeOK
<1>3. ASSUME NEW g \in Gids, RecoverRecord(g) PROVE Goal
  <2>1. CASE IsTransactionInProgress(g)
    BY <1>1, <1>3, <2>1 DEF RecoverRecord, SkipRecord
  <2>2. CASE ~IsTransactionInProgress(g)
    <3>1. CommitDecided(XactOf[g])
      BY <1>3, <2>2 DEF RecoverRecord, CommitDecided, RecoveryInv, RecoveryOK
    <3> QED BY <1>2, <1>3, <2>2, <3>1 DEF RecoverRecord, IsTransactionInProgress
  <2> QED BY <2>1, <2>2
<1>4. CASE RecoverOuterRecord
  <2>1. cur \in T /\ number[XactOf[cur]] \notin A /\ outer[XactOf[cur]] # "none"
    BY <1>4 DEF RecoverOuterRecord, RecoveryControl
  <2>2. CASE outer[XactOf[cur]] \in {"clog_committed", "committed"}
    BY <1>2, <1>4, <2>1, <2>2 DEF RecoverOuterRecord, CommitDecided
  <2>3. CASE outer[XactOf[cur]] \notin {"clog_committed", "committed"}
    BY <1>1, <1>4, <2>3 DEF RecoverOuterRecord, SkipRecord
  <2> QED BY <2>2, <2>3
<1>5. ASSUME NEW g \in Gids, AbortPending(g) PROVE Goal
  <2>1. wtx' = wtx \/ (wtx[g] = "prepared" /\ ~IsTransactionInProgress(g) /\ wtx' = [wtx EXCEPT ![g] = "aborted"])
    BY <1>5 DEF AbortPending, RecoverPreparedTransactionOnWorker,
       RecoverPreparedTransactionFails
  <2>2. ~IsTransactionInProgress(g) => phase[XactOf[g]] = "finished"
    BY <1>5 DEF AbortPending, RecoveryInv, RecoveryOK, RecoveryControl,
       IsTransactionInProgress
  <2>3. ~IsTransactionInProgress(g) => AbortDecided(XactOf[g])
    BY <1>5, <2>2 DEF AbortPending, RecoveryInv, RecoveryOK, RecoveryControl,
       IsTransactionInProgress, AbortDecided, XactInv, XactOK
  <2> QED BY SMTT(30), Z3T(30), <2>1, <2>2, <2>3 DEF TypeOK
<1> QED
  BY <1>1, <1>3, <1>4, <1>5 DEF RecoveryStep, RecoverTwoPhaseCommits,
     PendingWorkerTransactionList,
       ActiveDistributedTransactionNumbers, SnapshotRecords, RecheckPreparedTransactions,
       LookupOuterXact, RecordsDone, WorkerRecovered, RecoveryCommit

\* Recovery deletes the record of a transaction only once it is committed on the worker.
LEMMA RecoveryDeletes ==
  ASSUME IInv, RecoveryStep, NEW g \in Gids, g \in deletes', g \notin deletes
  PROVE  wtx'[g] = "committed" /\ CommitDecided(XactOf[g])
<1>0. TypeOK /\ RecoveryControl /\ RecoveryOK(g) /\ OutcomeOK(g)
  BY DEF IInv, RecoveryInv, OutcomeInv
<1>1. ASSUME NEW h \in T, ResolveRecord(h) \/ ResolveRecordFails(h),
             rpc \in {"records", "outer_in_progress", "outer_ended"}, CommitDecided(XactOf[h])
      PROVE  wtx'[g] = "committed" /\ CommitDecided(XactOf[g])
  <2>1. g = h /\ ResolveRecord(g)
    BY <1>1 DEF ResolveRecord, ResolveRecordFails
  <2>2. CASE g \in P \cap Q /\ RecoverPreparedTransactionOnWorker(g, "committed")
    BY <1>0, <1>1, <2>1, <2>2 DEF RecoverPreparedTransactionOnWorker, TypeOK
  <2>3. CASE g \notin Q /\ wtx' = wtx
    <3>1. wtx[g] # "prepared" /\ xact[XactOf[g]] = "committed" /\ g \in rows
      BY <1>0, <1>1, <2>1, <2>3 DEF RecoveryOK
    <3>2. outer[XactOf[g]] # "aborted"
      BY <1>1, <2>1, IInv, ConstantsAssumption DEF CommitDecided, IInv, XactInv,
         XactOK, ConstantsAssumption
    <3>3. wtx[g] = "committed"
      BY <1>0, <3>1, <3>2 DEF OutcomeOK
    <3> QED BY <1>1, <2>1, <2>3, <3>3
  <2> QED
    BY <1>1, <2>1, <2>2, <2>3 DEF ResolveRecord
<1>2. ASSUME NEW h \in Gids, RecoverRecord(h) PROVE wtx'[g] = "committed" /\ CommitDecided(XactOf[g])
  <2>1. h \in T /\ outer[XactOf[h]] = "none" /\ (ResolveRecord(h) \/ ResolveRecordFails(h)) /\ rpc = "records"
    BY <1>2 DEF RecoverRecord, SkipRecord
  <2>2. CommitDecided(XactOf[h])
    BY <2>1, IInv DEF CommitDecided, IInv, RecoveryInv, RecoveryOK
  <2> QED BY <1>1, <2>1, <2>2
<1>3. CASE RecoverOuterRecord
  <2>1. /\ cur \in T /\ outer[XactOf[cur]] # "none" /\ rpc \in {"outer_in_progress", "outer_ended"}
        /\ outer[XactOf[cur]] \in {"clog_committed", "committed"}
        /\ ResolveRecord(cur) \/ ResolveRecordFails(cur)
    BY <1>0, <1>3 DEF RecoverOuterRecord, SkipRecord, RecoveryControl
  <2> QED BY <1>1, <2>1 DEF CommitDecided
<1> QED
  BY <1>2, <1>3 DEF RecoveryStep, RecoverTwoPhaseCommits, PendingWorkerTransactionList,
       ActiveDistributedTransactionNumbers, SnapshotRecords, RecheckPreparedTransactions,
       LookupOuterXact, AbortPending, RecordsDone, WorkerRecovered, RecoveryCommit, NoRecovery

\* What a step of recovery does to connection g's transaction on its node and to its record.
LEMMA RecoveryEffect ==
  ASSUME IInv, RecoveryStep, NEW g \in Gids
  PROVE  /\ \/ wtx'[g] = wtx[g]
            \/ /\ wtx[g] = "prepared" /\ phase[XactOf[g]] = "finished"
               /\ \/ wtx'[g] = "committed" /\ CommitDecided(XactOf[g])
                  \/ wtx'[g] = "aborted" /\ AbortDecided(XactOf[g])
         /\ UNCHANGED <<coordVars, connVars, link, chan>>
         /\ g \in rows' => g \in rows
         /\ g \in rows /\ g \notin rows' => g \in deletes
         /\ g \in deletes' => wtx'[g] = "committed" /\ CommitDecided(XactOf[g])
<1>1. /\ \/ wtx'[g] = wtx[g]
         \/ /\ wtx[g] = "prepared" /\ phase[XactOf[g]] = "finished"
            /\ \/ wtx'[g] = "committed" /\ CommitDecided(XactOf[g])
               \/ wtx'[g] = "aborted" /\ AbortDecided(XactOf[g])
      /\ UNCHANGED <<coordVars, connVars, link, chan>>
  BY RecoveryResolves, RecoveryFrame
<1>2. (g \in rows' => g \in rows) /\ (g \in rows /\ g \notin rows' => g \in deletes)
  BY RecoveryRows
<1>3. OutcomeOK(g)
  BY DEF IInv, OutcomeInv
<1>4. g \in deletes' => wtx'[g] = "committed" /\ CommitDecided(XactOf[g])
  BY <1>1, <1>3, RecoveryDeletes DEF OutcomeOK
<1> QED
  BY <1>1, <1>2, <1>4

-----------------------------------------------------------------------------
(* Recovery's sets P, A, T and Q                                             *)

\* What no step of a transaction, connection or worker, and no broken connection, undoes.
Progresses(g) ==
  LET t == XactOf[g] IN
  /\ UNCHANGED <<rpc, P, A, T, Q, scanned>>
  /\ g \in rows => g \in rows'
  /\ number'[t] = number[t] \/ phase[t] = "idle"
  /\ phase[t] = "finished" => phase'[t] = "finished"
  /\ phase[t] \notin {"idle", "executing"} => phase'[t] \notin {"idle", "executing"}
  /\ xact[t] = "committed" => xact'[t] = "committed"
  /\ xact'[t] = "committed" => xact[t] = "committed" \/ phase[t] = "checked"
  /\ outer[t] = "aborted" => outer'[t] = "aborted"
  /\ wtx[g] \in Resolvable /\ phase[t] # "executing" => wtx'[g] \in Resolvable
  /\ xact[t] = "committed" /\ wtx[g] # "prepared" => wtx'[g] # "prepared"

\* Outside recovery a transaction only moves forward, and a resolved part stays resolved.
LEMMA OutsideRecovery ==
  ASSUME IInv, NEW g \in Gids,
         \/ \E t \in Xacts : XactStep(t)
         \/ \E h \in Gids : ConnectionStep(h) \/ WorkerStep(h) \/ LinkDown(h)
         \/ \E w \in Workers : WorkerCrash(w)
  PROVE  Progresses(g)
<1>1. TypeOK /\ XactOf[g] \in Xacts /\ XactOK(XactOf[g]) /\ ConnOK(g) /\ ChanOK(g)
  BY ConstantsAssumption DEF ConstantsAssumption, IInv, XactInv, ConnInv, ChanInv
<1>2. LET t == XactOf[g] IN
      /\ phase[t] = "idle" => xact[t] = "none" /\ outer[t] = "none"
      /\ xact[t] = "committed" => phase[t] \notin InProgressPhases
      /\ chan[g] = "PREPARE" => xact[t] # "committed"
      /\ rstate[g] = "NOT_STARTED" => wtx[g] = "none"
  BY <1>1 DEF ChanOK, ConnOK, XactOK, InProgressPhases
<1>3. ASSUME NEW t \in Xacts, XactStep(t) PROVE Progresses(g)
  <2>1. CASE UseCoordinatedTransaction(t) \/ Use2PCForCoordinatedTransaction(t)
    BY <1>1, <1>2, <2>1, BeginEffect DEF Progresses
  <2>2. CASE PreCommit(t) \/ PrepareDone(t) \/ OnePhaseCommitDone(t) \/ RaiseError(t) \/ LocalCommit(t)
    BY <1>1, <1>2, <2>2, CallbackEffect DEF Progresses, InProgressPhases
  <2>3. CASE PostCommitDone(t) \/ PostAbortDone(t)
    BY <1>1, <1>2, <2>3, EndEffect DEF Progresses
  <2>4. CASE OuterRecordCommit(t) \/ OuterEndTransaction(t) \/ OuterAbort(t)
    BY <1>1, <1>2, <2>4, OuterEffect DEF Progresses
  <2> QED
    BY <1>3, <2>1, <2>2, <2>3, <2>4 DEF XactStep
<1>4. ASSUME NEW h \in Gids \ {g}, ConnectionStep(h) \/ WorkerStep(h) PROVE Progresses(g)
  BY <1>1, <1>2, <1>4, OtherConnections DEF Progresses, InProgressPhases
<1>5. CASE ConnectionStep(g)
  <2>1. ASSUME NEW statement \in Statements, Execute(g, statement) PROVE Progresses(g)
    BY <1>1, <1>2, <2>1, ExecuteEffect DEF Progresses, InProgressPhases
  <2>2. CASE ReadFails(g)
    BY <1>1, <2>2, ReadFailsEffect DEF Progresses
  <2>3. CASE StartRemoteTransactionPrepare(g)
    BY <1>1, <1>2, <2>3, StartPrepareEffect DEF Progresses, InProgressPhases
  <2>4. CASE FinishRemoteTransactionPrepare(g)
    BY <1>1, <1>2, <2>4, FinishPrepareEffect DEF Progresses, InProgressPhases
  <2>5. CASE StartRemoteTransactionCommit(g)
    BY <1>1, <2>5, StartCommitEffect DEF Progresses
  <2>6. CASE FinishRemoteTransactionCommit(g)
    BY <1>1, <2>6, FinishCommitEffect DEF Progresses
  <2>7. CASE StartRemoteTransactionAbort(g) \/ FinishRemoteTransactionAbort(g)
    BY <1>1, <2>7, AbortEffect DEF Progresses
  <2> QED
    BY <1>5, <2>1, <2>2, <2>3, <2>4, <2>5, <2>6, <2>7 DEF ConnectionStep
<1>6. CASE WorkerStep(g)
  BY <1>1, <1>2, <1>6, WorkerEffect DEF Progresses, Resolvable
<1>7. CASE (\E h \in Gids : LinkDown(h)) \/ (\E w \in Workers : WorkerCrash(w))
  BY <1>1, <1>2, <1>7, BreakEffect DEF Progresses, Resolvable
<1> QED
  BY <1>3, <1>4, <1>5, <1>6, <1>7

\* Recovery's reads, in the order of the code: P, A, T, Q; and its leaving a worker or
\* ending, which empties them.
LEMMA RecoveryReads ==
  ASSUME IInv, NEW g \in Gids, RecoveryStep,
         \/ NoRecovery
         \/ rows' = rows /\ LeaveWorker
         \/ RecoverTwoPhaseCommits
         \/ \E w \in Workers : PendingWorkerTransactionList(w)
         \/ \E t \in Xacts : ActiveDistributedTransactionNumbers(t)
         \/ SnapshotRecords
         \/ RecheckPreparedTransactions
  PROVE  RecoveryOK(g)'
<1>0. TypeOK /\ XactOf[g] \in Xacts /\ XactOK(XactOf[g]) /\ OutcomeOK(g) /\ RecoveryOK(g)
  BY ConstantsAssumption DEF ConstantsAssumption, IInv, XactInv, OutcomeInv, RecoveryInv
<1>1. /\ \/ wtx'[g] = wtx[g]
         \/ wtx[g] = "prepared" /\ wtx'[g] \in {"committed", "aborted"}
      /\ UNCHANGED <<phase, xact, outer, number>>
  BY RecoveryResolves, RecoveryFrame
<1>2. RecoveryControl
  BY DEF IInv
<1>3. CASE NoRecovery
  BY <1>0, <1>1, <1>3 DEF NoRecovery, RecoveryOK
<1>4. CASE rows' = rows /\ LeaveWorker
  BY <1>0, <1>1, <1>4 DEF LeaveWorker, RecoveryOK
<1>5. CASE RecoverTwoPhaseCommits
  BY <1>0, <1>1, <1>2, <1>5 DEF RecoverTwoPhaseCommits, RecoveryOK, RecoveryControl
<1>6. ASSUME NEW w \in Workers, PendingWorkerTransactionList(w) PROVE RecoveryOK(g)'
  BY <1>0, <1>1, <1>2, <1>6 DEF PendingWorkerTransactionList, PreparedOn, RecoveryOK,
     RecoveryControl, OutcomeOK, Resolvable
<1>7. ASSUME NEW t \in Xacts, ActiveDistributedTransactionNumbers(t) PROVE RecoveryOK(g)'
  BY <1>0, <1>1, <1>2, <1>7 DEF ActiveDistributedTransactionNumbers, RecoveryOK,
     RecoveryControl, XactOK
<1>8. CASE SnapshotRecords
  <2>1. g \in P => WorkerOf[g] = rw
    BY <1>2 DEF RecoveryControl
  <2> QED
    BY <1>0, <1>1, <1>2, <1>8, <2>1 DEF SnapshotRecords, VisibleRecords, RecoveryOK,
       RecoveryControl
<1>9. CASE RecheckPreparedTransactions
  <2>1. g \in T => WorkerOf[g] = rw
    BY <1>2 DEF RecoveryControl
  <2> QED
    BY <1>0, <1>1, <1>9, <2>1 DEF RecheckPreparedTransactions, PreparedOn, RecoveryOK
<1> QED
  BY <1>3, <1>4, <1>5, <1>6, <1>7, <1>8, <1>9

\* What recovery does about the records and pending transactions it read.
LEMMA RecoveryActs ==
  ASSUME IInv, NEW g \in Gids, RecoveryStep,
         \/ \E h \in Gids : RecoverRecord(h) \/ LookupOuterXact(h) \/ AbortPending(h)
         \/ RecoverOuterRecord
         \/ RecordsDone
  PROVE  RecoveryOK(g)'
<1>0. TypeOK /\ XactOf[g] \in Xacts /\ XactOK(XactOf[g]) /\ OutcomeOK(g) /\ RecoveryOK(g)
  BY ConstantsAssumption DEF ConstantsAssumption, IInv, XactInv, OutcomeInv, RecoveryInv
<1>1. /\ \/ wtx'[g] = wtx[g]
         \/ wtx[g] = "prepared" /\ wtx'[g] \in {"committed", "aborted"}
      /\ UNCHANGED <<phase, xact, outer, number>>
  BY RecoveryResolves, RecoveryFrame
<1>2. RecoveryControl
  BY DEF IInv
<1>3. CASE rows' = rows /\ LeaveWorker
  BY <1>3, RecoveryReads
<1>4. ASSUME NEW h \in T, ResolveRecord(h), UNCHANGED rows, rpc \in {"records", "outer_in_progress", "outer_ended"}
       PROVE  RecoveryOK(g)'
  BY <1>0, <1>1, <1>4 DEF ResolveRecord, RecoveryOK, Resolvable
<1>5. ASSUME NEW h \in Gids, RecoverRecord(h) PROVE RecoveryOK(g)'
  <2>1. CASE IsTransactionInProgress(h) /\ SkipRecord(h) /\ P' = P
    BY <1>0, <1>1, <1>5, <2>1 DEF RecoverRecord, SkipRecord, IsTransactionInProgress,
       RecoveryOK
  <2> QED
    BY <1>3, <1>4, <1>5, <2>1 DEF RecoverRecord, ResolveRecordFails
<1>6. ASSUME NEW h \in Gids, LookupOuterXact(h) PROVE RecoveryOK(g)'
  BY <1>0, <1>1, <1>6 DEF LookupOuterXact, RecoveryOK
<1>7. CASE RecoverOuterRecord
  <2>1. cur \in T /\ (rpc = "outer_ended" => outer[XactOf[cur]] \in {"committed", "aborted"})
    BY <1>2, <1>7 DEF RecoveryControl, RecoverOuterRecord
  <2>2. CASE SkipRecord(cur) /\ P' = P \ {cur}
    BY <1>0, <1>1, <1>7, <2>1, <2>2 DEF RecoverOuterRecord, SkipRecord, RecoveryOK
  <2>3. CASE SkipRecord(cur) /\ P' = P /\ outer[XactOf[cur]] = "aborted"
    BY <1>0, <1>1, <1>7, <2>1, <2>3 DEF RecoverOuterRecord, SkipRecord, RecoveryOK
  <2> QED
    BY <1>3, <1>4, <1>7, <2>1, <2>2, <2>3 DEF RecoverOuterRecord, ResolveRecordFails
<1>8. CASE RecordsDone
  BY <1>0, <1>1, <1>8 DEF RecordsDone, RecoveryOK
<1>9. ASSUME NEW h \in Gids, AbortPending(h) PROVE RecoveryOK(g)'
  <2>1. CASE P' = P \ {h} /\ UNCHANGED <<rpc, A, T, Q, scanned, rows>>
    BY <1>0, <1>1, <2>1 DEF RecoveryOK, Resolvable
  <2> QED
    BY <1>3, <1>9, <2>1 DEF AbortPending
<1> QED
  BY <1>5, <1>6, <1>7, <1>8, <1>9

\* Every step keeps what P, A, T and Q tell about a transaction: the order in which recovery
\* reads them makes a pending transaction missing from A a finished one, and a committed one
\* missing from T impossible.
LEMMA RecoveryInvStep ==
  ASSUME IInv, [Next]_vars
  PROVE  RecoveryInv'
<1> SUFFICES ASSUME NEW g \in Gids PROVE RecoveryOK(g)'
  BY DEF RecoveryInv
<1>0. /\ TypeOK /\ XactOf[g] \in Xacts
      /\ XactOK(XactOf[g]) /\ OutcomeOK(g) /\ RecoveryOK(g)
  BY ConstantsAssumption
     DEF ConstantsAssumption, IInv, XactInv, OutcomeInv, RecoveryInv
<1>1. CASE UNCHANGED vars
  BY <1>0, <1>1 DEF vars, RecoveryOK, Resolvable
<1>2. CASE \/ \E t \in Xacts : XactStep(t)
           \/ \E h \in Gids : ConnectionStep(h) \/ WorkerStep(h) \/ LinkDown(h)
           \/ \E w \in Workers : WorkerCrash(w)
  <2>1. Progresses(g)
    BY <1>2, OutsideRecovery
  <2>2. /\ rpc \in {"Q", "records", "outer_in_progress", "outer_ended", "aborts"} => scanned = Xacts
        /\ phase[XactOf[g]] = "idle" => xact[XactOf[g]] = "none"
    BY <1>0 DEF IInv, RecoveryControl, XactOK
  <2> QED
    BY <1>0, <2>1, <2>2 DEF Progresses, RecoveryOK
<1>3. CASE CoordinatorCrash \/ RecoveryError \/ (\E w \in Workers : CannotConnect(w))
  <2>1. CASE CoordinatorCrash
    BY <1>0, <2>1, CrashEffect DEF RecoveryOK, NoRecovery
  <2>2. CASE RecoveryError
    BY <1>0, <2>2 DEF RecoveryError, NoRecovery, RecoveryOK
  <2>3. CASE \E w \in Workers : CannotConnect(w)
    BY <1>0, <2>3 DEF CannotConnect, RecoveryOK, Resolvable
  <2> QED
    BY <1>3, <2>1, <2>2, <2>3
<1>4. CASE RecoveryStep
  <2>1. rows' = rows \/ NoRecovery
    BY <1>4, RecoveryRows
  <2> QED
    BY <1>4, <2>1, RecoveryReads, RecoveryActs DEF RecoveryStep, WorkerRecovered,
       RecoveryCommit
<1> QED
  BY <1>1, <1>2, <1>3, <1>4 DEF Next, Failure

-----------------------------------------------------------------------------
(* The inductive invariant and what follows from it                          *)

\* Every step keeps what a connection's state says about its transaction's phase and about
\* the node (the order of the callbacks, the critical flag, failed connections).
LEMMA ConnInvStep ==
  ASSUME IInv, [Next]_vars
  PROVE  ConnInv'
<1> SUFFICES ASSUME NEW g \in Gids PROVE ConnOK(g)'
  BY DEF ConnInv
<1>0. /\ TypeOK /\ XactOf[g] \in Xacts
      /\ XactOK(XactOf[g]) /\ ConnOK(g) /\ ChanOK(g) /\ RemoteOK(g) /\ OutcomeOK(g) /\ RecoveryOK(g)
  BY ConstantsAssumption
     DEF ConstantsAssumption, IInv, XactInv, ConnInv, ChanInv, RemoteInv, OutcomeInv,
        RecoveryInv
<1>1. CASE UNCHANGED vars
  BY <1>0, <1>1 DEF vars, ConnOK
<1>2. ASSUME NEW t \in Xacts, XactStep(t) PROVE ConnOK(g)'
  BY <1>0, <1>2, ConnInvCallbacks
<1>3. ASSUME NEW h \in Gids \ {g}, ConnectionStep(h) \/ WorkerStep(h) PROVE ConnOK(g)'
  BY <1>0, <1>3, OtherConnections DEF ConnOK
<1>4. CASE ConnectionStep(g)
  BY <1>0, <1>4, ConnInvConnection
<1>5. CASE WorkerStep(g) \/ Failure
  BY <1>0, <1>5, ConnInvEnvironment
<1>6. CASE RecoveryStep
  <2>1. UNCHANGED <<coordVars, connVars, link, chan>> /\ (g \in rows' => g \in rows)
    BY <1>6, RecoveryEffect
  <2>2. wtx'[g] = wtx[g] \/ (wtx[g] = "prepared" /\ wtx'[g] \in {"committed", "aborted"})
    BY <1>6, RecoveryEffect
  <2> QED
    BY <1>0, <2>1, <2>2 DEF ConnOK
<1> QED
  BY <1>1, <1>2, <1>3, <1>4, <1>5, <1>6 DEF Next

\* Every step keeps what a command in transit presupposes: COMMIT PREPARED is only ever in
\* transit after the decision, PREPARE only while the callback waits or after an abort.
LEMMA ChanInvStep ==
  ASSUME IInv, [Next]_vars
  PROVE  ChanInv'
<1> SUFFICES ASSUME NEW g \in Gids PROVE ChanOK(g)'
  BY DEF ChanInv
<1>0. /\ TypeOK /\ XactOf[g] \in Xacts
      /\ XactOK(XactOf[g]) /\ ConnOK(g) /\ ChanOK(g) /\ RemoteOK(g) /\ OutcomeOK(g) /\ RecoveryOK(g)
  BY ConstantsAssumption
     DEF ConstantsAssumption, IInv, XactInv, ConnInv, ChanInv, RemoteInv, OutcomeInv,
        RecoveryInv
<1>1. CASE UNCHANGED vars
  BY <1>0, <1>1 DEF vars, ChanOK, Participant, CommitDecided
<1>2. ASSUME NEW t \in Xacts, XactStep(t) PROVE ChanOK(g)'
  BY <1>0, <1>2, ChanInvCallbacks
<1>3. ASSUME NEW h \in Gids \ {g}, ConnectionStep(h) \/ WorkerStep(h) PROVE ChanOK(g)'
  <2>1. PICK u \in Xacts : u = XactOf[g]
    BY <1>0
  <2>2. /\ rstate'[g] = rstate[g] /\ access'[g] = access[g] /\ chan'[g] = chan[g] /\ wtx'[g] = wtx[g]
        /\ outer' = outer /\ active' = active
    BY <1>0, <1>3, OtherConnections
  <2>3. (g \in wrote' <=> g \in wrote) /\ (g \in rows' <=> g \in rows) /\ (g \in critical' <=> g \in critical)
    BY <1>0, <1>3, OtherConnections
  <2>4. \/ /\ phase[u] = "prepare" /\ phase'[u] = "post_abort" /\ xact'[u] = "aborted"
           /\ u \in use2PC' <=> u \in use2PC
        \/ /\ phase'[u] = phase[u] /\ xact'[u] = xact[u]
           /\ (u \in use2PC' <=> u \in use2PC) \/ (phase[u] = "executing" /\ u \in use2PC')
    BY <1>0, <1>3, <2>1, OtherConnections
  <2>5. Participant(g)' <=> Participant(g)
    BY <2>2, <2>3 DEF Participant
  <2>6. CASE phase[u] = "prepare" /\ phase'[u] = "post_abort" /\ xact'[u] = "aborted" /\ (u \in use2PC' <=> u \in use2PC)
    <3>1. rstate[g] \in {"NOT_STARTED", "STARTED", "PREPARING", "PREPARED"}
      BY <1>0, <2>1, <2>6 DEF ConnOK
    <3> QED
      BY <1>0, <2>1, <2>2, <2>3, <2>5, <2>6, <3>1 DEF ChanOK
  <2>7. CASE /\ phase'[u] = phase[u] /\ xact'[u] = xact[u]
             /\ (u \in use2PC' <=> u \in use2PC) \/ (phase[u] = "executing" /\ u \in use2PC')
    <3>1. CommitDecided(u)' <=> CommitDecided(u)
      BY <2>2, <2>7 DEF CommitDecided
    <3> QED
      BY <1>0, <2>1, <2>2, <2>3, <2>5, <2>7, <3>1 DEF ChanOK
  <2> QED
    BY <2>4, <2>6, <2>7
<1>4. CASE ConnectionStep(g)
  BY <1>0, <1>4, ChanInvConnection
<1>5. CASE WorkerStep(g) \/ Failure
  BY <1>0, <1>5, ChanInvEnvironment
<1>6. CASE RecoveryStep
  <2>1. UNCHANGED <<coordVars, connVars, link, chan>> /\ (g \in rows /\ g \notin rows' => g \in deletes)
    BY <1>6, RecoveryEffect
  <2>2. wtx'[g] = wtx[g] \/ (wtx[g] = "prepared" /\ phase[XactOf[g]] = "finished")
    BY <1>6, RecoveryEffect
  <2>3. Participant(g)' <=> Participant(g)
    BY <2>1, SameParticipant
  <2>4. CommitDecided(XactOf[g])' <=> CommitDecided(XactOf[g])
    BY <2>1 DEF CommitDecided
  <2>5. wtx[g] = "open" => (g \in rows => g \in rows')
    BY <1>0, <2>1 DEF OutcomeOK
  <2>6. phase[XactOf[g]] = "finished" => XactOf[g] \notin active
    BY <1>0 DEF XactOK
  <2> QED
    BY <1>0, <2>1, <2>2, <2>3, <2>4, <2>5, <2>6 DEF ChanOK
<1> QED
  BY <1>1, <1>2, <1>3, <1>4, <1>5, <1>6 DEF Next

\* Every step keeps the coordinator's view of a remote transaction true of the node.
LEMMA RemoteInvStep ==
  ASSUME IInv, [Next]_vars
  PROVE  RemoteInv'
<1> SUFFICES ASSUME NEW g \in Gids PROVE RemoteOK(g)'
  BY DEF RemoteInv
<1>0. /\ TypeOK /\ XactOf[g] \in Xacts
      /\ XactOK(XactOf[g]) /\ ConnOK(g) /\ ChanOK(g) /\ RemoteOK(g) /\ OutcomeOK(g) /\ RecoveryOK(g)
  BY ConstantsAssumption
     DEF ConstantsAssumption, IInv, XactInv, ConnInv, ChanInv, RemoteInv, OutcomeInv,
        RecoveryInv
<1>1. CASE UNCHANGED vars
  BY <1>0, <1>1 DEF vars, Participant, RemoteOK
<1>2. ASSUME NEW t \in Xacts, XactStep(t) PROVE RemoteOK(g)'
  BY <1>0, <1>2, RemoteInvCallbacks
<1>3. ASSUME NEW h \in Gids \ {g}, ConnectionStep(h) \/ WorkerStep(h) PROVE RemoteOK(g)'
  BY SMTT(30), Z3T(30), <1>0, <1>3, OtherConnections DEF Participant, RemoteOK
<1>4. CASE ConnectionStep(g)
  BY <1>0, <1>4, RemoteInvConnection
<1>5. CASE WorkerStep(g) \/ Failure
  BY <1>0, <1>5, RemoteInvEnvironment
<1>6. CASE RecoveryStep
  BY <1>0, <1>6, RecoveryEffect DEF Participant, RemoteOK
<1> QED
  BY <1>1, <1>2, <1>3, <1>4, <1>5, <1>6 DEF Next

\* Every step keeps the outcome of a part in line with the decision and its record.
LEMMA OutcomeInvStep ==
  ASSUME IInv, [Next]_vars
  PROVE  OutcomeInv'
<1> SUFFICES ASSUME NEW g \in Gids PROVE OutcomeOK(g)'
  BY DEF OutcomeInv
<1>0. /\ TypeOK /\ XactOf[g] \in Xacts
      /\ XactOK(XactOf[g]) /\ ConnOK(g) /\ ChanOK(g) /\ RemoteOK(g) /\ OutcomeOK(g) /\ RecoveryOK(g)
  BY ConstantsAssumption
     DEF ConstantsAssumption, IInv, XactInv, ConnInv, ChanInv, RemoteInv, OutcomeInv,
        RecoveryInv
<1>1. CASE UNCHANGED vars
  BY <1>0, <1>1 DEF vars, Participant, CommitDecided, OutcomeOK
<1>2. ASSUME NEW t \in Xacts, XactStep(t) PROVE OutcomeOK(g)'
  BY <1>0, <1>2, OutcomeInvCallbacks
<1>3. ASSUME NEW h \in Gids \ {g}, ConnectionStep(h) \/ WorkerStep(h) PROVE OutcomeOK(g)'
  <2>1. /\ access'[g] = access[g] /\ wtx'[g] = wtx[g] /\ outer' = outer /\ deletes' = deletes
        /\ g \in wrote' <=> g \in wrote
        /\ g \in rows' <=> g \in rows
    BY <1>0, <1>3, OtherConnections DEF recVars
  <2>2. CASE UNCHANGED <<phase, xact, use2PC>>
    BY <1>0, <2>1, <2>2 DEF Participant, CommitDecided, OutcomeOK
  <2>3. CASE /\ phase[XactOf[g]] = "prepare"
             /\ phase'[XactOf[g]] = "post_abort" /\ xact'[XactOf[g]] = "aborted" /\ use2PC' = use2PC
    BY <1>0, <2>1, <2>3 DEF XactOK, Participant, CommitDecided, InProgressPhases, OutcomeOK
  <2>4. CASE phase[XactOf[g]] = "executing" /\ XactOf[g] \in use2PC' /\ UNCHANGED <<phase, xact>>
    BY <1>0, <2>1, <2>4 DEF XactOK, ConnOK, Participant, CommitDecided, InProgressPhases,
       OutcomeOK
  <2>5. CASE /\ phase'[XactOf[g]] = phase[XactOf[g]] /\ xact'[XactOf[g]] = xact[XactOf[g]]
             /\ XactOf[g] \in use2PC' <=> XactOf[g] \in use2PC
    BY <1>0, <2>1, <2>5 DEF Participant, CommitDecided, OutcomeOK
  <2> QED
    BY <1>0, <1>3, <2>2, <2>3, <2>4, <2>5, OtherConnections
<1>4. CASE ConnectionStep(g)
  BY <1>0, <1>4, OutcomeInvConnection
<1>5. CASE WorkerStep(g) \/ Failure
  BY <1>0, <1>5, OutcomeInvEnvironment
<1>6. CASE RecoveryStep
  BY <1>0, <1>6, RecoveryEffect DEF AbortDecided, Participant, CommitDecided, OutcomeOK,
     Resolvable
<1> QED
  BY <1>1, <1>2, <1>3, <1>4, <1>5, <1>6 DEF Next

\* Every step keeps recovery's sets empty where the code has not filled them yet, and its
\* three-way look at an outer transaction's state stable.
LEMMA RecoveryControlStep ==
  ASSUME IInv, [Next]_vars
  PROVE  RecoveryControl'
<1>0. TypeOK /\ RecoveryControl
  BY DEF IInv
<1>1. CASE UNCHANGED recVars /\ UNCHANGED outer /\ UNCHANGED number
  BY <1>0, <1>1 DEF RecoveryControl
<1>2. CASE NoRecovery
  BY <1>2 DEF NoRecovery, RecoveryControl
<1>3. CASE LeaveWorker
  BY <1>3 DEF LeaveWorker, RecoveryControl
<1>4. ASSUME NEW t \in Xacts, XactStep(t) PROVE RecoveryControl'
  <2>1. rpc \notin {"outer_in_progress", "outer_ended"} \/ (cur \in Gids /\ XactOf[cur] \in Xacts)
    BY <1>0, ConstantsAssumption DEF TypeOK, ConstantsAssumption
  <2>2. CASE UseCoordinatedTransaction(t) \/ Use2PCForCoordinatedTransaction(t)
    <3>1. rpc \in {"outer_in_progress", "outer_ended"} => phase[XactOf[cur]] # "idle"
      BY <1>0, <2>1, IInv DEF IInv, RecoveryControl, RecoveryInv, RecoveryOK, XactInv,
         XactOK
    <3>2. UNCHANGED recVars
      BY <1>0, <1>4, SessionsFrame
    <3>3. rpc \in {"outer_in_progress", "outer_ended"} =>
            outer'[XactOf[cur]] = outer[XactOf[cur]] /\ number'[XactOf[cur]] = number[XactOf[cur]]
      BY <1>0, <2>1, <2>2, <3>1, BeginEffect
    <3> QED
      BY <1>0, <3>2, <3>3 DEF RecoveryControl, recVars
  <2>3. CASE OuterRecordCommit(t) \/ OuterEndTransaction(t) \/ OuterAbort(t)
    <3>1. UNCHANGED recVars /\ UNCHANGED number
      BY <1>0, <2>3, OuterEffect
    <3>2. rpc \in {"outer_in_progress", "outer_ended"} =>
            \/ outer'[XactOf[cur]] = outer[XactOf[cur]]
            \/ /\ outer[XactOf[cur]] \notin {"committed", "aborted"}
               /\ outer'[XactOf[cur]] # "none"
      BY <1>0, <2>1, <2>3, OuterEffect
    <3> QED
      BY <1>0, <3>1, <3>2 DEF RecoveryControl, recVars
  <2>4. CASE PreCommit(t) \/ PrepareDone(t) \/ OnePhaseCommitDone(t) \/ RaiseError(t) \/ LocalCommit(t)
    BY <1>1, <2>4 DEF PreCommit, PrepareDone, OnePhaseCommitDone, RaiseError,
       LocalCommit, AbortXact
  <2>5. CASE PostCommitDone(t) \/ PostAbortDone(t)
    BY <1>0, <1>1, <2>5, EndEffect
  <2> QED
    BY <1>4, <2>2, <2>3, <2>4, <2>5 DEF XactStep
<1>5. ASSUME NEW g \in Gids, ConnectionStep(g) \/ WorkerStep(g) PROVE RecoveryControl'
  BY <1>1, <1>5, WorkerFrame DEF ConnectionStep, Execute, ReadFails,
     StartRemoteTransactionPrepare,
     FinishRemoteTransactionPrepare, StartRemoteTransactionCommit,
        FinishRemoteTransactionCommit,
     StartRemoteTransactionAbort, FinishRemoteTransactionAbort, AbortXact
<1>6. CASE Failure
  BY <1>0, <1>1, <1>2, <1>6 DEF Failure, LinkDown, WorkerCrash, CoordinatorCrash,
     RecoveryError, CannotConnect, RecoveryControl
<1>7. CASE RecoveryStep
  <2>0. UNCHANGED coordVars
    BY <1>7, RecoveryFrame
  <2>1. CASE RecoverTwoPhaseCommits
    BY <1>0, <2>0, <2>1 DEF RecoverTwoPhaseCommits, RecoveryControl
  <2>2. ASSUME NEW w \in Workers, PendingWorkerTransactionList(w) PROVE RecoveryControl'
    BY <1>0, <2>0, <2>2 DEF PendingWorkerTransactionList, PreparedOn, RecoveryControl
  <2>3. ASSUME NEW t \in Xacts, ActiveDistributedTransactionNumbers(t) PROVE RecoveryControl'
    BY <1>0, <2>0, <2>3 DEF ActiveDistributedTransactionNumbers, RecoveryControl
  <2>4. CASE SnapshotRecords
    BY <1>0, <2>0, <2>4 DEF SnapshotRecords, VisibleRecords, RecoveryControl
  <2>5. CASE RecheckPreparedTransactions
    BY <1>0, <2>0, <2>5 DEF RecheckPreparedTransactions, PreparedOn, RecoveryControl
  <2>6. ASSUME NEW h \in Gids, ResolveRecord(h) \/ (SkipRecord(h) /\ P' \subseteq P),
               rpc \in {"records", "outer_in_progress", "outer_ended"} PROVE RecoveryControl'
    BY <1>0, <2>0, <2>6 DEF ResolveRecord, SkipRecord, RecoveryControl
  <2>7. ASSUME NEW h \in Gids, RecoverRecord(h) PROVE RecoveryControl'
    BY <1>3, <2>6, <2>7 DEF RecoverRecord, ResolveRecordFails
  <2>8. ASSUME NEW h \in Gids, LookupOuterXact(h) PROVE RecoveryControl'
    <3>1. outer[XactOf[h]] \in OuterStates \ {"none"}
      <4>1. XactOf[h] \in Xacts
        BY ConstantsAssumption DEF ConstantsAssumption
      <4>2. outer[XactOf[h]] # "none"
        BY <2>8 DEF LookupOuterXact
      <4> QED
        BY <1>0, <4>1, <4>2 DEF TypeOK
    <3> QED
      BY <1>0, <2>0, <2>8, <3>1 DEF LookupOuterXact, RecoveryControl, IsTransactionInProgress,
         OuterStates
  <2>9. CASE RecoverOuterRecord
    <3>1. cur \in Gids
      BY <1>0, <2>9 DEF RecoverOuterRecord, TypeOK
    <3> QED
      BY <1>3, <2>6, <2>9, <3>1 DEF RecoverOuterRecord, ResolveRecordFails
  <2>10. CASE RecordsDone
    BY <1>0, <2>0, <2>10 DEF RecordsDone, RecoveryControl
  <2>11. ASSUME NEW h \in Gids, AbortPending(h) PROVE RecoveryControl'
    <3>1. CASE P' = P \ {h} /\ UNCHANGED <<rpc, todo, rw, A, T, Q, scanned, cur, deletes>>
      BY <1>0, <2>0, <3>1 DEF RecoveryControl
    <3> QED
      BY <1>3, <2>11, <3>1 DEF AbortPending
  <2> QED
    BY <1>2, <1>3, <1>7, <2>1, <2>2, <2>3, <2>4, <2>5, <2>7, <2>8, <2>9, <2>10, <2>11
       DEF RecoveryStep, WorkerRecovered, RecoveryCommit
<1> QED
  BY <1>1, <1>4, <1>5, <1>6, <1>7 DEF Next, vars

\* The invariant holds before the first transaction.
LEMMA IInvInit == Init => IInv
<1> SUFFICES ASSUME Init PROVE IInv
  OBVIOUS
<1>1. TypeOK
  BY TypeInit
<1>2. XactInv /\ ConnInv /\ OneWriter /\ ChanInv
  BY ConstantsAssumption
     DEF ConstantsAssumption, Init, XactInv, XactOK, InProgressPhases, ConnInv, ConnOK,
        OneWriter, EveryWriteChecked, ChanInv, ChanOK
<1>3. RemoteInv /\ OutcomeInv /\ RecoveryControl /\ RecoveryInv
  BY ConstantsAssumption
     DEF ConstantsAssumption, Init, RemoteInv, RemoteOK, OutcomeInv, OutcomeOK, Participant,
         RecoveryControl, RecoveryInv, RecoveryOK
<1> QED
  BY <1>1, <1>2, <1>3 DEF IInv

\* Every step of the coordinator, the nodes, recovery and their failures keeps it.
LEMMA IInvStep == IInv /\ [Next]_vars => IInv'
<1> SUFFICES ASSUME IInv, [Next]_vars PROVE IInv'
  OBVIOUS
<1>1. TypeOK'
  BY TypeStep DEF IInv
<1> QED
  BY <1>1, XactInvStep, ConnInvStep, OneWriterStep, ChanInvStep, RemoteInvStep,
     OutcomeInvStep,
     RecoveryControlStep, RecoveryInvStep DEF IInv

\* The inductive invariant: what the phases of the callbacks, the commands in transit and
\* recovery's sets P, A, T and Q guarantee about each other.
THEOREM Invariance == Spec => []IInv
<1>1. Init => IInv
  BY IInvInit
<1>2. IInv /\ [Next]_vars => IInv'
  BY IInvStep
<1> QED
  BY <1>1, <1>2, PTL DEF Spec

-----------------------------------------------------------------------------
(* What follows from it                                                    *)

\* A committed transaction is committed or prepared wherever it wrote.
LEMMA DurableFromInv == IInv => DecisionIsDurable
<1> SUFFICES ASSUME IInv, NEW g \in Gids, Participant(g), CommitDecided(XactOf[g])
             PROVE  \/ wtx[g] = "committed"
                    \/ wtx[g] = "prepared" /\ XactOf[g] \in use2PC
  BY DEF DecisionIsDurable
<1>1. XactOK(XactOf[g]) /\ OutcomeOK(g)
  BY ConstantsAssumption DEF ConstantsAssumption, IInv, XactInv, OutcomeInv
<1> QED
  BY <1>1 DEF XactOK, OutcomeOK, CommitDecided

\* Two nodes with different outcomes: with 2PC both follow the decision; without it there
\* is only one writer.
LEMMA AgreementFromInv == EveryWriteChecked /\ IInv => Agreement
<1> SUFFICES ASSUME EveryWriteChecked, IInv, NEW g \in Gids, NEW h \in Gids, XactOf[g] = XactOf[h],
                    Participant(g), Participant(h), wtx[g] = "committed", wtx[h] = "aborted"
             PROVE  FALSE
  BY DEF Agreement
<1>1. CASE XactOf[g] \in use2PC
  <2>1. CommitDecided(XactOf[g])
    BY <1>1 DEF IInv, OutcomeInv, OutcomeOK
  <2> QED
    BY <2>1, DurableFromInv DEF DecisionIsDurable
<1>2. CASE XactOf[g] \notin use2PC
  <2>1. "write" \in access[g] /\ "write" \in access[h]
    BY <1>2 DEF IInv, ConnInv, ConnOK, Participant
  <2> QED
    BY <1>2, <2>1 DEF IInv, OneWriter
<1> QED
  BY <1>1, <1>2

\* No two nodes a transaction wrote to disagree on its outcome, as long as the executor asks
\* Activate2PCIfModifyingTransactionExpandsToNewNode before every first modification over a
\* connection.
THEOREM AgreementHolds ==
  ASSUME EveryWriteChecked
  PROVE  Spec => []Agreement
<1>1. IInv => Agreement
  BY AgreementFromInv
<1> QED
  BY <1>1, Invariance, PTL

\* No node that a committed transaction wrote to has lost its part, also where the executor
\* does not ask: without 2PC a node that failed to commit makes the transaction fail
\* (ErrorIfPostCommitFailedShardPlacements).
THEOREM DecisionIsDurableHolds == Spec => []DecisionIsDurable
BY Invariance, DurableFromInv, PTL

\* A node commits its part of a 2PC transaction only after the decision.
THEOREM CommitOnlyAfterDecisionHolds == Spec => []CommitOnlyAfterDecision
<1>1. IInv => CommitOnlyAfterDecision
  BY DEF IInv, OutcomeInv, OutcomeOK, CommitOnlyAfterDecision
<1> QED
  BY <1>1, Invariance, PTL

\* The record outlives the prepared transaction it is about.
THEOREM RecordUntilResolvedHolds == Spec => []RecordUntilResolved
<1>1. IInv => RecordUntilResolved
  BY DEF IInv, OutcomeInv, OutcomeOK, RecordUntilResolved
<1> QED
  BY <1>1, Invariance, PTL

\* Recovery leaves the prepared transactions of running distributed transactions alone.
THEOREM RecoverySparesActiveHolds == Spec => RecoverySparesActive
<1> DEFINE Spared == \A g \in Gids :
       rpc # "idle" /\ wtx'[g] # wtx[g] /\ chan' = chan /\ wtx[g] = "prepared" => XactOf[g] \notin active
<1>1. IInv /\ [Next]_vars => [Spared]_vars
  <2> SUFFICES ASSUME IInv, Next, NEW g \in Gids, wtx'[g] # wtx[g], chan' = chan, wtx[g] = "prepared"
               PROVE  XactOf[g] \notin active
    OBVIOUS
  <2>0. TypeOK /\ XactOf[g] \in Xacts /\ XactOK(XactOf[g]) /\ ConnOK(g)
    BY ConstantsAssumption DEF ConstantsAssumption, IInv, XactInv, ConnInv
  <2>1. ASSUME NEW t \in Xacts, XactStep(t) PROVE FALSE
    BY <2>0, <2>1, SessionsFrame
  <2>2. ASSUME NEW h \in Gids \ {g}, ConnectionStep(h) \/ WorkerStep(h) PROVE FALSE
    BY <2>0, <2>2, OtherConnections
  <2>3. CASE ConnectionStep(g)
    BY <2>0, <2>3, ExecuteEffect, ReadFailsEffect, StartPrepareEffect, FinishPrepareEffect,
       StartCommitEffect, FinishCommitEffect, AbortEffect DEF ConnectionStep, ConnOK
  <2>4. CASE WorkerStep(g)
    BY <2>0, <2>4, WorkerEffect
  <2>5. CASE Failure
    BY <2>0, <2>5, BreakEffect, CrashEffect DEF Failure, RecoveryError, CannotConnect
  <2>6. CASE RecoveryStep
    BY <2>0, <2>6, RecoveryResolves DEF XactOK
  <2> QED
    BY <2>1, <2>2, <2>3, <2>4, <2>5, <2>6 DEF Next
<1> QED
  BY <1>1, Invariance, PTL DEF Spec, RecoverySparesActive

-----------------------------------------------------------------------------
(* The implementation of AtomicCommit                                        *)

\* No transaction mixes commands over node connections with reads.
NodeCommandsApart == "node" \notin Statements \/ "read" \notin Statements

\* What the accesses of a connection tell about the commands that ran over it.
StatementInv ==
  \A g \in Gids :
    /\ g \in wrote /\ "node" \notin Statements => "write" \in access[g]
    /\ "read" \in access[g] => "read" \in Statements

\* The steps that leave the accesses alone.
LEMMA AccessFrame ==
  ASSUME Next
  PROVE  \/ \E g \in Gids : \E statement \in Statements : Execute(g, statement)
         \/ \E g \in Gids : ReadFails(g)
         \/ UNCHANGED <<access, wrote>>
<1>1. ASSUME NEW t \in Xacts, XactStep(t) PROVE UNCHANGED <<access, wrote>>
  BY <1>1 DEF XactStep, UseCoordinatedTransaction, Use2PCForCoordinatedTransaction, PreCommit, PrepareDone,
     OnePhaseCommitDone, LocalCommit, PostCommitDone, PostAbortDone, EndTransaction, RaiseError,
     OuterRecordCommit, OuterEndTransaction, OuterAbort
<1>2. ASSUME NEW g \in Gids, ConnectionStep(g)
      PROVE  \/ \E statement \in Statements : Execute(g, statement)
             \/ ReadFails(g)
             \/ UNCHANGED <<access, wrote>>
  BY <1>2 DEF ConnectionStep, StartRemoteTransactionPrepare, FinishRemoteTransactionPrepare,
     StartRemoteTransactionCommit, FinishRemoteTransactionCommit, StartRemoteTransactionAbort,
     FinishRemoteTransactionAbort
<1>3. CASE Failure
  BY <1>3 DEF Failure, LinkDown, WorkerCrash, CoordinatorCrash, RecoveryError, CannotConnect
<1> QED
  BY <1>1, <1>2, <1>3, WorkerFrame, RecoveryFrame DEF Next

\* Execute and ReadFails record their accesses.
LEMMA StatementStep ==
  ASSUME TypeOK, StatementInv, [Next]_vars
  PROVE  StatementInv'
<1>1. CASE UNCHANGED <<access, wrote>>
  BY <1>1 DEF StatementInv
<1>2. ASSUME NEW h \in Gids, NEW statement \in Statements, Execute(h, statement), NEW g \in Gids
      PROVE  /\ g \in wrote' /\ "node" \notin Statements => "write" \in access'[g]
             /\ "read" \in access'[g] => "read" \in Statements
  <2>1. CASE g # h
    <3>1. access'[g] = access[g] /\ (g \in wrote' => g \in wrote)
      BY <1>2, <2>1 DEF Execute, TypeOK
    <3> QED
      BY <3>1 DEF StatementInv
  <2>2. CASE g = h
    <3>1. access'[g] = access[g] \cup (IF statement \in Modifications THEN {"write"}
                                       ELSE {statement} \ {"node"})
      BY <1>2, <2>2 DEF Execute, TypeOK
    <3>2. g \in wrote' => g \in wrote \/ statement # "read"
      BY <1>2, <2>2 DEF Execute
    <3>3. statement \in {"read", "write", "write_other", "node"}
      BY ConstantsAssumption DEF ConstantsAssumption
    <3> QED
      BY <3>1, <3>2, <3>3 DEF StatementInv, Modifications
  <2> QED
    BY <2>1, <2>2
<1>3. ASSUME NEW h \in Gids, ReadFails(h), NEW g \in Gids
      PROVE  /\ g \in wrote' /\ "node" \notin Statements => "write" \in access'[g]
             /\ "read" \in access'[g] => "read" \in Statements
  BY SMTT(30), Z3T(30), <1>3 DEF ReadFails, StatementInv, TypeOK
<1> QED
  BY <1>1, <1>2, <1>3, AccessFrame DEF vars, StatementInv

-----------------------------------------------------------------------------
(* Steps of AtomicCommit                                                   *)

\* A stuttering step, ...
LEMMA Stutters ==
  ASSUME \A t \in Xacts : Decision(t)' = Decision(t), \A g \in Gids : Site(g)' = Site(g)
  PROVE  UNCHANGED AC!vars
BY DEF AC!vars

\* ... transactions that abort, ...
LEMMA AbortsAreDecided ==
  ASSUME \A t \in Xacts : \/ Decision(t)' = Decision(t)
                          \/ Decision(t) = "undecided" /\ Decision(t)' = "abort",
         \A g \in Gids : Site(g)' = Site(g)
  PROVE  AC!Next
<1> DEFINE ts == {t \in Xacts : Decision(t)' # Decision(t)}
<1>1. AC!DecideAbort(ts)
  BY DEF AC!DecideAbort
<1> QED
  BY <1>1 DEF AC!Next

\* ... one that commits, ...
LEMMA CommitIsDecided ==
  ASSUME NEW t \in Xacts, Decision(t) = "undecided", Decision(t)' = "commit",
         \A u \in Xacts \ {t} : Decision(u)' = Decision(u),
         \A g \in GidsOf(t) : Site(g) \in {"none", "prepared"},
         \A g \in Gids : Site(g)' = Site(g)
  PROVE  AC!Next
<1>1. AC!DecideCommit(t)
  BY DEF AC!DecideCommit, AC!SitesOf, GidsOf
<1> QED
  BY <1>1 DEF AC!Next

\* ... and a change of one site.
LEMMA SiteMoves ==
  ASSUME NEW g \in Gids, \A h \in Gids \ {g} : Site(h)' = Site(h),
         \A u \in Xacts : Decision(u)' = Decision(u),
         \/ Site(g) = "none" /\ Site(g)' = "working" /\ Decision(XactOf[g]) # "commit"
         \/ Site(g) = "working" /\ Site(g)' = "prepared" /\ Decision(XactOf[g]) # "commit"
         \/ Site(g) = "prepared" /\ Site(g)' = "committed" /\ Decision(XactOf[g]) = "commit"
  PROVE  AC!Next
<1>1. XactOf[g] \in Xacts
  BY ConstantsAssumption DEF ConstantsAssumption
<1>2. AC!Enlist(g) \/ AC!Prepare(g) \/ AC!CommitSite(g)
  BY <1>1 DEF AC!Enlist, AC!Prepare, AC!CommitSite
<1> QED
  BY <1>2 DEF AC!Next

\* Sites that abort.
LEMMA SitesAbort ==
  ASSUME NEW ss \in SUBSET Gids,
         \A g \in ss : /\ Site(g)' = "aborted"
                       /\ \/ Site(g) = "working" /\ Decision(XactOf[g]) # "commit"
                          \/ Site(g) = "prepared" /\ Decision(XactOf[g]) = "abort",
         \A g \in Gids \ ss : Site(g)' = Site(g),
         \A t \in Xacts : Decision(t)' = IF \E g \in ss : XactOf[g] = t THEN "abort" ELSE Decision(t)
  PROVE  AC!Next
<1>1. \A g \in Gids : XactOf[g] \in Xacts
  BY ConstantsAssumption DEF ConstantsAssumption
<1>2. \A t \in Xacts : AC!SitesOf(t) \cap ss # {} <=> \E g \in ss : XactOf[g] = t
  BY DEF AC!SitesOf
<1>3. AC!AbortSites(ss)
  BY <1>1, <1>2 DEF AC!AbortSites
<1> QED
  BY <1>3 DEF AC!Next

\* The only site of a transaction commits without 2PC.
LEMMA SiteDecides ==
  ASSUME NEW g \in Gids, Site(g) = "working", Site(g)' = "committed",
         \A h \in Gids \ {g} : Site(h)' = Site(h) /\ (XactOf[h] = XactOf[g] => Site(h) = "none"),
         Decision(XactOf[g]) = "undecided", Decision(XactOf[g])' = "commit",
         \A u \in Xacts \ {XactOf[g]} : Decision(u)' = Decision(u)
  PROVE  AC!Next
<1>1. XactOf[g] \in Xacts
  BY ConstantsAssumption DEF ConstantsAssumption
<1>2. AC!OnePhaseCommit(g)
  BY <1>1 DEF AC!OnePhaseCommit, AC!SitesOf
<1> QED
  BY <1>2 DEF AC!Next

-----------------------------------------------------------------------------
(* Decisions                                                               *)

\* A connection whose part did not change stands where it stood.
LEMMA SiteKept ==
  ASSUME NEW g \in Gids, access' = access, wrote' = wrote, Participant(g) => wtx'[g] = wtx[g]
  PROVE  Site(g)' = Site(g)
<1>1. Participant(g)' <=> Participant(g)
  BY SameParticipant
<1> QED
  BY <1>1 DEF Site

\* The connections that count for a transaction hang on the accesses only.
LEMMA SameParticipants ==
  ASSUME access' = access, wrote' = wrote, NEW t \in Xacts
  PROVE  Participants(t)' = Participants(t)
BY DEF Participants, Participant, GidsOf

\* A decision is kept as long as nothing it hangs on changes, ...
LEMMA DecisionKept ==
  ASSUME NEW t \in Xacts, access' = access, wrote' = wrote, use2PC' = use2PC,
         xact'[t] = xact[t], outer'[t] = outer[t],
         \A g \in GidsOf(t) : Participant(g) => wtx'[g] = wtx[g]
  PROVE  Decision(t)' = Decision(t)
<1>1. Participants(t)' = Participants(t)
  BY SameParticipants
<1>2. \A g \in Participants(t) : wtx'[g] = wtx[g]
  BY DEF Participants
<1>3. (CommitDecided(t)' <=> CommitDecided(t)) /\ (AbortDecided(t)' <=> AbortDecided(t))
  BY DEF CommitDecided, AbortDecided
<1> QED
  BY <1>1, <1>2, <1>3 DEF Decision

\* ... and becomes an abort at most if the transaction aborts.
LEMMA AbortsAtMost ==
  ASSUME NEW t \in Xacts, access' = access, wrote' = wrote, wtx' = wtx, use2PC' = use2PC,
         CommitDecided(t)' <=> CommitDecided(t), AbortDecided(t) => AbortDecided(t)'
  PROVE  \/ Decision(t)' = Decision(t)
         \/ Decision(t) = "undecided" /\ Decision(t)' = "abort"
<1>1. Participants(t)' = Participants(t)
  BY SameParticipants
<1> QED
  BY <1>1 DEF Decision

\* A transaction that commits does not abort: the outer transaction ends after it.
LEMMA NotBoth ==
  ASSUME IInv, NEW t \in Xacts
  PROVE  ~(CommitDecided(t) /\ AbortDecided(t))
<1>1. XactOK(t)
  BY DEF IInv, XactInv
<1> QED
  BY <1>1 DEF XactOK, CommitDecided, AbortDecided

\* Without 2PC a connection that counts is the only one that does.
LEMMA SoleParticipant ==
  ASSUME IInv, EveryWriteChecked, NEW g \in Gids, Participant(g), XactOf[g] \notin use2PC
  PROVE  Participants(XactOf[g]) = {g}
<1>1. \A h \in Participants(XactOf[g]) : "write" \in access[h] /\ XactOf[h] = XactOf[g] /\ h \in Gids
  BY DEF IInv, ConnInv, ConnOK, Participant, Participants, GidsOf
<1>2. g \in Participants(XactOf[g])
  BY DEF Participants, GidsOf
<1> QED
  BY <1>1, <1>2 DEF IInv, OneWriter

\* While a part is open its transaction is not committed.
LEMMA OpenIsNotCommitted ==
  ASSUME IInv, EveryWriteChecked, NEW g \in Gids, Participant(g), wtx[g] = "open"
  PROVE  Decision(XactOf[g]) # "commit"
<1>0. Participants(XactOf[g]) # {}
  BY DEF Participants, GidsOf
<1>1. CASE XactOf[g] \in use2PC
  <2>1. ~CommitDecided(XactOf[g])
    BY DurableFromInv DEF DecisionIsDurable
  <2> QED
    BY <1>0, <1>1, <2>1 DEF Decision
<1>2. CASE XactOf[g] \notin use2PC
  <2>1. \A h \in Participants(XactOf[g]) : h = g
    BY <1>2, SoleParticipant
  <2> QED
    BY <1>0, <1>2, <2>1 DEF Decision
<1> QED
  BY <1>1, <1>2

\* Until the pre-commit callback a transaction is undecided unless something aborted.
EarlyDecision ==
  \A t \in Xacts :
    phase[t] \in {"idle", "executing"} =>
      Decision(t) = IF (\E g \in Participants(t) : wtx[g] = "aborted") \/ AbortDecided(t)
                      THEN "abort" ELSE "undecided"

\* The phases of the callbacks keep the decision for later.
LEMMA EarlyDecisionHolds == IInv => EarlyDecision
<1> SUFFICES ASSUME IInv, NEW t \in Xacts, phase[t] \in {"idle", "executing"}
             PROVE  Decision(t) = IF (\E g \in Participants(t) : wtx[g] = "aborted") \/ AbortDecided(t)
                                    THEN "abort" ELSE "undecided"
  BY DEF EarlyDecision
<1>1. XactOK(t)
  BY DEF IInv, XactInv
<1>2. \A g \in Participants(t) : wtx[g] # "committed"
  <2> SUFFICES ASSUME NEW g \in Participants(t) PROVE wtx[g] # "committed"
    OBVIOUS
  <2>1. g \in Gids /\ XactOf[g] = t /\ ConnOK(g)
    BY DEF Participants, GidsOf, IInv, ConnInv
  <2> QED
    BY <2>1 DEF ConnOK
<1>3. ~CommitDecided(t) /\ (AbortDecided(t) => t \in use2PC)
  BY <1>1 DEF XactOK, InProgressPhases, CommitDecided, AbortDecided
<1> QED
  BY <1>2, <1>3 DEF Decision

-----------------------------------------------------------------------------
(* Steps of TwoPhaseCommit                                                 *)

\* Nodes that give up on open parts doom their transactions.
LEMMA OpenPartsAbort ==
  ASSUME IInv, EveryWriteChecked, UNCHANGED <<coordVars, access, wrote>>, NEW ss \in SUBSET Gids,
         \A g \in ss : Participant(g) /\ wtx[g] = "open" /\ wtx'[g] = "aborted",
         \A g \in Gids \ ss : Participant(g) => wtx'[g] = wtx[g]
  PROVE  AC!Next
<1>1. ASSUME NEW g \in ss
      PROVE  /\ Site(g) = "working" /\ Site(g)' = "aborted"
             /\ Decision(XactOf[g]) # "commit" /\ Decision(XactOf[g])' = "abort"
  <2>1. Participant(g)' /\ XactOf[g] \in Xacts
    BY ConstantsAssumption, SameParticipant DEF ConstantsAssumption
  <2>2. Site(g) = "working" /\ Site(g)' = "aborted"
    BY <2>1 DEF Site
  <2>3. Decision(XactOf[g]) # "commit"
    BY OpenIsNotCommitted
  <2>4. Participants(XactOf[g])' = Participants(XactOf[g]) /\ g \in Participants(XactOf[g])
    BY <2>1, SameParticipants DEF Participants, GidsOf
  <2>5. CommitDecided(XactOf[g])' <=> CommitDecided(XactOf[g])
    BY DEF CommitDecided
  <2>6. CASE XactOf[g] \in use2PC
    <3>1. ~CommitDecided(XactOf[g])
      BY DurableFromInv DEF DecisionIsDurable
    <3>2. XactOf[g] \in use2PC' /\ ~CommitDecided(XactOf[g])' /\ g \in Participants(XactOf[g])' /\ wtx'[g] = "aborted"
      BY <2>4, <2>5, <2>6, <3>1
    <3> QED
      BY <2>2, <2>3, <3>2 DEF Decision
  <2>7. CASE XactOf[g] \notin use2PC
    <3>1. Participants(XactOf[g])' = {g}
      BY <2>4, <2>7, SoleParticipant
    <3>2. XactOf[g] \notin use2PC' /\ wtx'[g] = "aborted" /\ wtx'[g] # "committed"
      BY <2>7
    <3> QED
      BY <2>2, <2>3, <3>1, <3>2 DEF Decision
  <2> QED
    BY <2>6, <2>7
<1>2. \A g \in Gids \ ss : Site(g)' = Site(g)
  BY SiteKept
<1>3. ASSUME NEW t \in Xacts
      PROVE  Decision(t)' = IF \E g \in ss : XactOf[g] = t THEN "abort" ELSE Decision(t)
  <2>1. CASE \E g \in ss : XactOf[g] = t
    BY <1>1, <2>1
  <2>2. CASE ~\E g \in ss : XactOf[g] = t
    <3>1. \A g \in GidsOf(t) : Participant(g) => wtx'[g] = wtx[g]
      BY <2>2 DEF GidsOf
    <3> QED
      BY <2>2, <3>1, DecisionKept
  <2> QED
    BY <2>1, <2>2
<1> QED
  BY <1>1, <1>2, <1>3, SitesAbort

\* A node changes its part: it obeys a command, notices that the client is gone, or
\* recovery resolves it.
LEMMA PartMoves ==
  ASSUME IInv, EveryWriteChecked, UNCHANGED <<coordVars, access, wrote>>, NEW g \in Gids,
         \A h \in Gids \ {g} : wtx'[h] = wtx[h],
         \/ wtx'[g] = wtx[g]
         \/ wtx[g] = "open" /\ wtx'[g] = "prepared" /\ Participant(g) /\ XactOf[g] \in use2PC
         \/ wtx[g] = "open" /\ wtx'[g] = "committed" /\ (Participant(g) => XactOf[g] \notin use2PC)
         \/ wtx[g] = "open" /\ wtx'[g] = "aborted"
         \/ wtx[g] = "prepared" /\ wtx'[g] = "committed" /\ CommitDecided(XactOf[g])
         \/ wtx[g] = "prepared" /\ wtx'[g] = "aborted" /\ AbortDecided(XactOf[g])
  PROVE  AC!Next \/ UNCHANGED AC!vars
<1> DEFINE t == XactOf[g]
<1>0. t \in Xacts /\ (Participant(g)' <=> Participant(g))
  BY ConstantsAssumption, SameParticipant DEF ConstantsAssumption
<1>1. \A h \in Gids \ {g} : Site(h)' = Site(h)
  BY SiteKept
<1>2. \A u \in Xacts \ {t} : Decision(u)' = Decision(u)
  <2> SUFFICES ASSUME NEW u \in Xacts \ {t} PROVE Decision(u)' = Decision(u)
    OBVIOUS
  <2>1. \A h \in GidsOf(u) : wtx'[h] = wtx[h]
    BY DEF GidsOf
  <2> QED
    BY <2>1, DecisionKept
<1>3. Participants(t)' = Participants(t) /\ (Participant(g) => g \in Participants(t))
  BY <1>0, SameParticipants DEF Participants, GidsOf
<1>4. \A h \in Participants(t) \ {g} : wtx'[h] = wtx[h]
  BY DEF Participants, GidsOf
<1>5. (CommitDecided(t)' <=> CommitDecided(t)) /\ (AbortDecided(t)' <=> AbortDecided(t))
  BY DEF CommitDecided, AbortDecided
<1>6. CASE wtx'[g] = wtx[g] \/ ~Participant(g)
  <2>1. \A h \in GidsOf(t) : Participant(h) => wtx'[h] = wtx[h]
    BY <1>6 DEF GidsOf
  <2>2. Decision(t)' = Decision(t) /\ Site(g)' = Site(g)
    BY <1>0, <1>6, <2>1, DecisionKept, SiteKept
  <2> QED
    BY <1>1, <1>2, <2>2, Stutters
<1>7. CASE wtx[g] = "open" /\ wtx'[g] = "prepared" /\ Participant(g) /\ t \in use2PC
  <2>1. Site(g) = "working" /\ Site(g)' = "prepared" /\ Decision(t) # "commit"
    BY <1>0, <1>7, OpenIsNotCommitted DEF Site
  <2>2. \A h \in Participants(t) : wtx'[h] = "aborted" <=> wtx[h] = "aborted"
    BY <1>4, <1>7
  <2>3. Decision(t)' = Decision(t)
    BY <1>3, <1>5, <1>7, <2>2 DEF Decision
  <2> QED
    BY <1>1, <1>2, <2>1, <2>3, SiteMoves
<1>8. CASE wtx[g] = "open" /\ wtx'[g] = "committed" /\ Participant(g) /\ t \notin use2PC
  <2>1. Site(g) = "working" /\ Site(g)' = "committed"
    BY <1>0, <1>8 DEF Site
  <2>2. Participants(t) = {g} /\ Participants(t)' = {g} /\ t \notin use2PC'
    BY <1>3, <1>8, SoleParticipant
  <2>3. Decision(t)' = "commit"
    BY <1>8, <2>2 DEF Decision
  <2>4. Decision(t) = "undecided"
    BY <1>8, <2>2 DEF Decision
  <2>5. \A h \in Gids \ {g} : XactOf[h] = t => Site(h) = "none"
    BY <2>2 DEF Participants, GidsOf, Site
  <2> QED
    BY <1>1, <1>2, <2>1, <2>3, <2>4, <2>5, SiteDecides
<1>9. CASE wtx[g] = "open" /\ wtx'[g] = "aborted" /\ Participant(g)
  <2>1. {g} \in SUBSET Gids /\ \A h \in {g} : h = g
    OBVIOUS
  <2> QED
    BY <1>9, <2>1, OpenPartsAbort
<1>10. CASE wtx[g] = "prepared"
  <2>1. Participant(g) /\ t \in use2PC
    BY <1>10 DEF IInv, OutcomeInv, OutcomeOK
  <2>2. CASE wtx'[g] = "committed" /\ CommitDecided(t)
    <3>1. Site(g) = "prepared" /\ Site(g)' = "committed"
      BY <1>0, <1>10, <2>1, <2>2 DEF Site
    <3>2. Decision(t) = "commit" /\ Decision(t)' = "commit"
      BY <1>5, <2>1, <2>2 DEF Decision
    <3> QED
      BY <1>1, <1>2, <3>1, <3>2, SiteMoves
  <2>3. CASE wtx'[g] = "aborted" /\ AbortDecided(t)
    <3>1. Site(g) = "prepared" /\ Site(g)' = "aborted"
      BY <1>0, <1>10, <2>1, <2>3 DEF Site
    <3>2. ~CommitDecided(t)
      BY <1>0, <2>3, NotBoth
    <3>3. Decision(t) = "abort" /\ Decision(t)' = "abort"
      BY <1>5, <2>1, <2>3, <3>2 DEF Decision
    <3>4. {g} \in SUBSET Gids /\ \A h \in {g} : h = g
      OBVIOUS
    <3>5. \A u \in Xacts : Decision(u)' = IF \E h \in {g} : XactOf[h] = u THEN "abort" ELSE Decision(u)
      BY <1>2, <3>3
    <3> QED
      BY <1>1, <3>1, <3>3, <3>4, <3>5, SitesAbort
  <2> QED
    BY <1>6, <1>10, <2>2, <2>3
<1> QED
  BY <1>6, <1>7, <1>8, <1>9, <1>10

\* A worker's step.
LEMMA WorkerImplements ==
  ASSUME IInv, EveryWriteChecked, NEW g \in Gids, WorkerStep(g)
  PROVE  AC!Next \/ UNCHANGED AC!vars
<1>0. TypeOK /\ ConnOK(g) /\ ChanOK(g) /\ OutcomeOK(g)
  BY DEF IInv, ConnInv, ChanInv, OutcomeInv
<1>1. UNCHANGED <<coordVars, access, wrote>>
  BY WorkerFrame
<1>2. \A h \in Gids \ {g} : wtx'[h] = wtx[h]
  BY <1>0, OtherConnections
<1>3. \/ wtx'[g] = wtx[g]
      \/ wtx[g] = "open" /\ wtx'[g] = "prepared" /\ Participant(g) /\ XactOf[g] \in use2PC
      \/ wtx[g] = "open" /\ wtx'[g] = "committed" /\ (Participant(g) => XactOf[g] \notin use2PC)
      \/ wtx[g] = "open" /\ wtx'[g] = "aborted"
      \/ wtx[g] = "prepared" /\ wtx'[g] = "committed" /\ CommitDecided(XactOf[g])
      \/ wtx[g] = "prepared" /\ wtx'[g] = "aborted" /\ AbortDecided(XactOf[g])
  BY <1>0, WorkerEffect DEF ChanOK, AbortDecided
<1> QED
  BY <1>1, <1>2, <1>3, PartMoves

\* Recovery resolves one prepared transaction at a time.
LEMMA RecoveryResolvesOne ==
  ASSUME TypeOK, RecoveryStep
  PROVE  wtx' = wtx \/ \E g \in Gids : \A h \in Gids \ {g} : wtx'[h] = wtx[h]
<1> DEFINE One(g) == \A h \in Gids \ {g} : wtx'[h] = wtx[h]
<1>1. ASSUME NEW g \in Gids,
             \/ \E o \in {"committed", "aborted"} :
                  RecoverPreparedTransactionOnWorker(g, o) \/ RecoverPreparedTransactionFails(g, o)
             \/ wtx' = wtx
      PROVE  One(g)
  BY <1>1 DEF TypeOK, RecoverPreparedTransactionOnWorker, RecoverPreparedTransactionFails
<1>2. ASSUME NEW g \in Gids, ResolveRecord(g) \/ ResolveRecordFails(g) \/ SkipRecord(g) PROVE One(g)
  BY <1>1, <1>2 DEF ResolveRecord, ResolveRecordFails, SkipRecord
<1>3. ASSUME NEW g \in Gids, RecoverRecord(g) PROVE One(g)
  BY <1>2, <1>3 DEF RecoverRecord
<1>4. ASSUME NEW g \in Gids, AbortPending(g) PROVE One(g)
  BY <1>1, <1>4 DEF AbortPending
<1>5. ASSUME RecoverOuterRecord PROVE cur \in Gids /\ One(cur)
  <2>1. cur \in Gids
    BY <1>5 DEF RecoverOuterRecord, TypeOK
  <2> QED
    BY <1>2, <1>5, <2>1 DEF RecoverOuterRecord
<1>6. \/ \E g \in Gids : RecoverRecord(g) \/ AbortPending(g)
      \/ RecoverOuterRecord
      \/ wtx' = wtx
  BY DEF RecoveryStep, RecoverTwoPhaseCommits, PendingWorkerTransactionList,
     ActiveDistributedTransactionNumbers, SnapshotRecords, RecheckPreparedTransactions,
     LookupOuterXact, RecordsDone, WorkerRecovered, RecoveryCommit
<1> QED
  BY <1>3, <1>4, <1>5, <1>6

\* A step of recovery.
LEMMA RecoveryImplements ==
  ASSUME IInv, EveryWriteChecked, RecoveryStep
  PROVE  AC!Next \/ UNCHANGED AC!vars
<1>0. TypeOK /\ UNCHANGED <<coordVars, access, wrote>>
  BY RecoveryFrame DEF IInv
<1>1. CASE wtx' = wtx
  <2>1. \A t \in Xacts : Decision(t)' = Decision(t)
    BY <1>0, <1>1, DecisionKept
  <2>2. \A g \in Gids : Site(g)' = Site(g)
    BY <1>0, <1>1, SiteKept
  <2> QED
    BY <2>1, <2>2, Stutters
<1>2. ASSUME NEW g \in Gids, \A h \in Gids \ {g} : wtx'[h] = wtx[h]
      PROVE  AC!Next \/ UNCHANGED AC!vars
  BY <1>0, <1>2, RecoveryResolves, PartMoves
<1> QED
  BY <1>0, <1>1, <1>2, RecoveryResolvesOne

\* Failures: a crash of a node aborts its open parts, a restart of the initiating node the
\* transactions that were running.
LEMMA FailureImplements ==
  ASSUME IInv, EveryWriteChecked, Failure
  PROVE  AC!Next \/ UNCHANGED AC!vars
<1>0. TypeOK
  BY DEF IInv
<1>1. CASE UNCHANGED <<coordVars, access, wrote, wtx>>
  <2>1. \A t \in Xacts : Decision(t)' = Decision(t)
    BY <1>1, DecisionKept
  <2>2. \A g \in Gids : Site(g)' = Site(g)
    BY <1>1, SiteKept
  <2> QED
    BY <2>1, <2>2, Stutters
<1>2. ASSUME NEW w \in Workers, WorkerCrash(w) PROVE AC!Next
  <2> DEFINE ss == {g \in Gids : WorkerOf[g] = w /\ wtx[g] = "open" /\ Participant(g)}
  <2>1. UNCHANGED <<coordVars, access, wrote>>
    BY <1>2 DEF WorkerCrash
  <2>2. \A g \in Gids : wtx'[g] = IF WorkerOf[g] = w /\ wtx[g] = "open" THEN "aborted" ELSE wtx[g]
    BY <1>2 DEF WorkerCrash
  <2>3. /\ ss \in SUBSET Gids
        /\ \A g \in ss : Participant(g) /\ wtx[g] = "open" /\ wtx'[g] = "aborted"
        /\ \A g \in Gids \ ss : Participant(g) => wtx'[g] = wtx[g]
    BY <2>2
  <2> HIDE DEF ss
  <2> QED
    BY <2>1, <2>3, OpenPartsAbort
<1>3. CASE CoordinatorCrash
  <2>1. UNCHANGED <<use2PC, access, wrote, wtx>>
    BY <1>3 DEF CoordinatorCrash
  <2>2. ASSUME NEW t \in Xacts
        PROVE  (CommitDecided(t)' <=> CommitDecided(t)) /\ (AbortDecided(t) => AbortDecided(t)')
    BY <1>0, <1>3, CrashEffect DEF CommitDecided, AbortDecided
  <2>3. \A g \in Gids : Site(g)' = Site(g)
    BY <2>1, SiteKept
  <2> QED
    BY <2>1, <2>2, <2>3, AbortsAtMost, AbortsAreDecided
<1> QED
  BY <1>1, <1>2, <1>3 DEF Failure, LinkDown, RecoveryError, CannotConnect

\* A command runs over a connection: its node enlists unless it has done so.
LEMMA ExecuteImplements ==
  ASSUME IInv, IInv', StatementInv, StatementInv', NodeCommandsApart,
         EarlyDecision, EarlyDecision',
         NEW g \in Gids, NEW statement \in Statements, Execute(g, statement)
  PROVE  AC!Next \/ UNCHANGED AC!vars
<1> DEFINE t == XactOf[g]
<1>0. TypeOK /\ TypeOK' /\ ConnOK(g) /\ t \in Xacts
  BY ConstantsAssumption DEF ConstantsAssumption, IInv, ConnInv
<1>1. /\ phase[t] = "executing" /\ phase' = phase /\ xact' = xact /\ outer' = outer
      /\ wtx[g] \in {"none", "open"} /\ wtx'[g] = "open"
      /\ \A u \in Xacts \ {t} : u \in use2PC' <=> u \in use2PC
      /\ wrote \subseteq wrote'
      /\ \A h \in Gids \ {g} : /\ wtx'[h] = wtx[h] /\ access'[h] = access[h]
                               /\ h \in wrote' <=> h \in wrote
  <2>0. ConnectionStep(g)
    BY DEF ConnectionStep
  <2>1. wtx[g] \in {"none", "open"}
    BY <1>0, ExecuteEffect DEF ConnOK
  <2>2. \A h \in Gids \ {g} : wtx'[h] = wtx[h] /\ access'[h] = access[h]
    <3> SUFFICES ASSUME NEW h \in Gids \ {g} PROVE wtx'[h] = wtx[h] /\ access'[h] = access[h]
      OBVIOUS
    <3>1. h \in Gids /\ g \in Gids \ {h}
      OBVIOUS
    <3> QED
      BY <1>0, <2>0, <3>1, OtherConnections
  <2>3. /\ \A u \in Xacts \ {t} : u \in use2PC' <=> u \in use2PC
        /\ wrote \subseteq wrote'
        /\ \A h \in Gids \ {g} : h \in wrote' <=> h \in wrote
    BY DEF Execute
  <2> QED
    BY <1>0, <2>1, <2>2, <2>3, ExecuteEffect
<1>2. \A h \in Gids \ {g} : (Participant(h)' <=> Participant(h)) /\ Site(h)' = Site(h)
  BY <1>1 DEF Participant, Site
<1>3. Participant(g) => Participant(g)'
  <2>1. Participant(g)' <=> g \in wrote'
    BY SMTT(30), Z3T(30), <1>0 DEF Participant, StatementInv, NodeCommandsApart, TypeOK
  <2> QED
    BY <1>1, <2>1 DEF Participant
<1>4. ASSUME NEW u \in Xacts \ {t} PROVE Decision(u)' = Decision(u)
  <2>1. Participants(u)' = Participants(u) /\ \A h \in Participants(u) : wtx'[h] = wtx[h]
    BY <1>1, <1>2 DEF Participants, GidsOf
  <2>2. (CommitDecided(u)' <=> CommitDecided(u)) /\ (AbortDecided(u)' <=> AbortDecided(u))
    BY <1>1 DEF CommitDecided, AbortDecided
  <2>3. u \in use2PC' <=> u \in use2PC
    BY <1>1
  <2> QED
    BY <2>1, <2>2, <2>3 DEF Decision
<1>5. Decision(t)' = Decision(t)
  <2>1. (\E h \in Participants(t)' : wtx'[h] = "aborted") <=> (\E h \in Participants(t) : wtx[h] = "aborted")
    BY <1>1, <1>2 DEF Participants, GidsOf
  <2>2. AbortDecided(t)' <=> AbortDecided(t)
    BY <1>1 DEF AbortDecided
  <2>3. phase[t] \in {"idle", "executing"} /\ phase'[t] \in {"idle", "executing"}
    BY <1>1
  <2> QED
    BY <1>0, <2>1, <2>2, <2>3 DEF EarlyDecision
<1>6. \A u \in Xacts : Decision(u)' = Decision(u)
  BY <1>4, <1>5
<1>7. CASE Participant(g) \/ ~Participant(g)'
  <2>1. Participant(g) => wtx[g] = "open"
    BY <1>0, <1>1 DEF Participant, ConnOK
  <2>2. Site(g)' = Site(g)
    BY <1>1, <1>3, <1>7, <2>1 DEF Site
  <2> QED
    BY <1>2, <1>6, <2>2, Stutters
<1>8. CASE ~Participant(g) /\ Participant(g)'
  <2>1. Site(g) = "none" /\ Site(g)' = "working"
    BY <1>1, <1>8 DEF Site
  <2>2. Decision(t) # "commit"
    BY <1>0, <1>1 DEF EarlyDecision
  <2> QED
    BY <1>2, <1>6, <2>1, <2>2, SiteMoves
<1> QED
  BY <1>7, <1>8

\* The other steps of a connection: nothing changes, or the callback raises an error.
LEMMA ConnectionImplements ==
  ASSUME IInv, NEW g \in Gids, ConnectionStep(g), \A statement \in Statements : ~Execute(g, statement)
  PROVE  AC!Next \/ UNCHANGED AC!vars
<1>0. TypeOK /\ ConnOK(g) /\ XactInv /\ XactOf[g] \in Xacts
  BY ConstantsAssumption DEF ConstantsAssumption, IInv, ConnInv
<1>1. CASE ReadFails(g)
  <2>1. /\ UNCHANGED <<coordVars, wrote, wtx>>
        /\ \A h \in Gids \ {g} : access'[h] = access[h]
        /\ g \notin wrote
    <3>1. access \in [Gids -> SUBSET {"read", "write"}] /\ (g \in wrote => g \in critical)
      BY <1>0 DEF TypeOK, ConnOK
    <3>2. /\ UNCHANGED <<coordVars, wrote, netVars>>
          /\ access' = [access EXCEPT ![g] = @ \cup {"read"}]
          /\ g \notin critical
      BY <1>1 DEF ReadFails
    <3> QED
      BY <3>1, <3>2 DEF netVars
  <2>2. \A h \in Gids : Participant(h)' <=> Participant(h)
    BY <2>1 DEF Participant
  <2>3. \A h \in Gids : Site(h)' = Site(h)
    BY <2>1, <2>2 DEF Site
  <2>4. ASSUME NEW t \in Xacts PROVE Decision(t)' = Decision(t)
    <3>1. Participants(t)' = Participants(t)
      BY <2>2 DEF Participants, GidsOf
    <3>2. (CommitDecided(t)' <=> CommitDecided(t)) /\ (AbortDecided(t)' <=> AbortDecided(t))
      BY <2>1 DEF CommitDecided, AbortDecided
    <3> QED
      BY <2>1, <3>1, <3>2 DEF Decision
  <2> QED
    BY <2>3, <2>4, Stutters
<1>2. CASE ~ReadFails(g)
  <2>1. /\ UNCHANGED <<outer, use2PC, access, wrote, wtx>>
        /\ xact' = xact \/ (AbortXact(XactOf[g]) /\ phase[XactOf[g]] = "prepare")
    BY <1>2 DEF ConnectionStep, StartRemoteTransactionPrepare, FinishRemoteTransactionPrepare,
       StartRemoteTransactionCommit, FinishRemoteTransactionCommit, StartRemoteTransactionAbort,
       FinishRemoteTransactionAbort, AbortXact
  <2>2. \A t \in Xacts : xact'[t] = xact[t] \/ (xact[t] = "in_progress" /\ xact'[t] = "aborted")
    <3>1. xact \in [Xacts -> XactStates] /\ (phase[XactOf[g]] = "prepare" => xact[XactOf[g]] = "in_progress")
      BY <1>0 DEF TypeOK, XactInv, XactOK, InProgressPhases
    <3> QED
      BY <1>0, <2>1, <3>1 DEF AbortXact
  <2>3. ASSUME NEW t \in Xacts
        PROVE  (CommitDecided(t)' <=> CommitDecided(t)) /\ (AbortDecided(t) => AbortDecided(t)')
    BY <2>1, <2>2 DEF CommitDecided, AbortDecided
  <2>4. \A h \in Gids : Site(h)' = Site(h)
    BY <2>1, SiteKept
  <2> QED
    BY <2>1, <2>3, <2>4, AbortsAtMost, AbortsAreDecided
<1> QED
  BY <1>1, <1>2

\* The local commit decides for a 2PC transaction all of whose parts are prepared, and for
\* one without parts; otherwise the decision is taken already or left to the outer
\* transaction.
LEMMA LocalCommitImplements ==
  ASSUME IInv, NEW t \in Xacts, LocalCommit(t)
  PROVE  AC!Next \/ UNCHANGED AC!vars
<1>0. TypeOK /\ XactOK(t)
  BY DEF IInv, XactInv
<1>1. /\ UNCHANGED <<outer, use2PC, access, wrote, wtx>>
      /\ phase[t] = "checked" /\ xact[t] = "in_progress" /\ xact'[t] = "committed"
      /\ \A u \in Xacts \ {t} : xact'[u] = xact[u]
  BY <1>0 DEF LocalCommit, TypeOK, XactOK, InProgressPhases
<1>2. \A g \in Gids : Site(g)' = Site(g)
  BY <1>1, SiteKept
<1>3. \A u \in Xacts \ {t} : Decision(u)' = Decision(u)
  BY <1>1, DecisionKept
<1>4. Participants(t)' = Participants(t)
  BY <1>1, SameParticipants
<1>5. \A g \in Participants(t) :
        wtx[g] = IF t \in use2PC THEN "prepared" ELSE "committed"
  <2> SUFFICES ASSUME NEW g \in Participants(t)
               PROVE  wtx[g] = IF t \in use2PC THEN "prepared" ELSE "committed"
    OBVIOUS
  <2>1. g \in Gids /\ XactOf[g] = t /\ Participant(g) /\ RemoteOK(g)
    BY DEF Participants, GidsOf, IInv, RemoteInv
  <2> QED
    BY <1>1, <2>1 DEF RemoteOK
<1>6. CASE outer[t] # "none" \/ (t \notin use2PC /\ Participants(t) # {})
  <2>1. AbortDecided(t)' <=> AbortDecided(t)
    BY <1>1 DEF AbortDecided
  <2>2. outer[t] # "none" => (CommitDecided(t)' <=> CommitDecided(t))
    BY <1>1 DEF CommitDecided
  <2>3. outer[t] # "none" => t \in use2PC
    BY <1>0, <1>1 DEF XactOK
  <2>4. Decision(t)' = Decision(t)
    BY <1>1, <1>4, <1>6, <2>1, <2>2, <2>3 DEF Decision
  <2> QED
    BY <1>2, <1>3, <2>4, Stutters
<1>7. CASE outer[t] = "none" /\ (t \in use2PC \/ Participants(t) = {})
  <2>1. ~CommitDecided(t) /\ ~AbortDecided(t) /\ CommitDecided(t)'
    BY <1>0, <1>1, <1>7 DEF CommitDecided, AbortDecided, XactOK
  <2>2. Decision(t)' = "commit"
    BY <1>1, <1>4, <1>7, <2>1 DEF Decision
  <2>3. Decision(t) = "undecided"
    BY <1>5, <1>7, <2>1 DEF Decision
  <2>4. \A g \in GidsOf(t) : Site(g) \in {"none", "prepared"}
    BY <1>5, <1>7 DEF Participants, Site
  <2> QED
    BY <1>2, <1>3, <2>2, <2>3, <2>4, CommitIsDecided
<1> QED
  BY <1>6, <1>7

\* The commit of the outer transaction decides for a management transaction.
LEMMA OuterImplements ==
  ASSUME IInv, NEW t \in Xacts, OuterRecordCommit(t)
  PROVE  AC!Next
<1>0. TypeOK /\ XactOK(t)
  BY DEF IInv, XactInv
<1>1. /\ UNCHANGED <<xact, use2PC, access, wrote, wtx>>
      /\ phase[t] = "finished" /\ xact[t] = "committed"
      /\ outer[t] = "in_progress" /\ outer'[t] = "clog_committed"
      /\ \A u \in Xacts \ {t} : outer'[u] = outer[u]
  BY <1>0 DEF OuterRecordCommit, TypeOK
<1>2. \A g \in Gids : Site(g)' = Site(g)
  BY <1>1, SiteKept
<1>3. \A u \in Xacts \ {t} : Decision(u)' = Decision(u)
  BY <1>1, DecisionKept
<1>4. Participants(t)' = Participants(t)
  BY <1>1, SameParticipants
<1>5. t \in use2PC /\ ~CommitDecided(t) /\ ~AbortDecided(t) /\ CommitDecided(t)'
  BY <1>0, <1>1 DEF XactOK, CommitDecided, AbortDecided
<1>6. \A g \in Participants(t) : wtx[g] = "prepared"
  <2> SUFFICES ASSUME NEW g \in Participants(t) PROVE wtx[g] = "prepared"
    OBVIOUS
  <2>1. g \in Gids /\ XactOf[g] = t /\ Participant(g) /\ OutcomeOK(g)
    BY DEF Participants, GidsOf, IInv, OutcomeInv
  <2> QED
    BY <1>1, <1>5, <2>1 DEF OutcomeOK
<1>7. Decision(t)' = "commit"
  BY <1>1, <1>4, <1>5 DEF Decision
<1>8. Decision(t) = "undecided"
  BY <1>5, <1>6 DEF Decision
<1>9. \A g \in GidsOf(t) : Site(g) \in {"none", "prepared"}
  BY <1>6 DEF Participants, Site
<1> QED
  BY <1>2, <1>3, <1>7, <1>8, <1>9, CommitIsDecided

\* The steps of a transaction.
LEMMA XactImplements ==
  ASSUME IInv, EarlyDecision, EarlyDecision', NEW t \in Xacts, XactStep(t)
  PROVE  AC!Next \/ UNCHANGED AC!vars
<1>0. TypeOK /\ XactInv
  BY DEF IInv
<1>1. CASE UseCoordinatedTransaction(t) \/ Use2PCForCoordinatedTransaction(t)
  <2>1. UNCHANGED <<access, wrote, wtx>>
    BY <1>1 DEF UseCoordinatedTransaction, Use2PCForCoordinatedTransaction
  <2>2. \A g \in Gids : Site(g)' = Site(g)
    BY <2>1, SiteKept
  <2>3. ASSUME NEW u \in Xacts PROVE Decision(u)' = Decision(u)
    <3>1. Participants(u)' = Participants(u)
      BY <2>1, SameParticipants
    <3>2. XactOK(u)
      BY <1>0 DEF XactInv
    <3>3. CASE /\ xact'[u] = xact[u] /\ outer'[u] = outer[u] /\ (u \in use2PC' <=> u \in use2PC)
      <4>1. (CommitDecided(u)' <=> CommitDecided(u)) /\ (AbortDecided(u)' <=> AbortDecided(u))
        BY <3>3 DEF CommitDecided, AbortDecided
      <4> QED
        BY <2>1, <3>1, <3>3, <4>1 DEF Decision
    <3>4. CASE ~(/\ xact'[u] = xact[u] /\ outer'[u] = outer[u] /\ (u \in use2PC' <=> u \in use2PC))
      <4>1. phase[u] \in {"idle", "executing"} /\ phase'[u] \in {"idle", "executing"}
        BY <1>0, <1>1, <3>4, BeginEffect
      <4>2. AbortDecided(u)' <=> AbortDecided(u)
        <5>1. phase[u] = "idle" => xact[u] = "none" /\ outer[u] = "none"
          BY <3>2 DEF XactOK
        <5>2. \/ xact'[u] = xact[u] /\ outer'[u] = outer[u]
              \/ /\ phase[u] = "idle" /\ xact'[u] = "in_progress"
                 /\ outer'[u] \in {"none", "in_progress"}
          BY <1>0, <1>1, BeginEffect
        <5> QED
          BY <5>1, <5>2 DEF AbortDecided
      <4> QED
        BY <2>1, <3>1, <4>1, <4>2 DEF EarlyDecision
    <3> QED
      BY <3>3, <3>4
  <2> QED
    BY <2>2, <2>3, Stutters
<1>2. CASE \/ PreCommit(t) \/ PrepareDone(t) \/ OnePhaseCommitDone(t) \/ RaiseError(t)
           \/ PostCommitDone(t) \/ PostAbortDone(t) \/ OuterEndTransaction(t) \/ OuterAbort(t)
  <2>1. UNCHANGED <<use2PC, access, wrote, wtx>>
    BY <1>2 DEF PreCommit, PrepareDone, OnePhaseCommitDone, RaiseError, AbortXact,
       PostCommitDone, PostAbortDone, EndTransaction, OuterEndTransaction, OuterAbort
  <2>2. \/ outer' = outer /\ (xact' = xact \/ (phase[t] \in InProgressPhases /\ AbortXact(t)))
        \/ xact' = xact /\ (OuterEndTransaction(t) \/ OuterAbort(t))
    BY <1>2 DEF PreCommit, PrepareDone, OnePhaseCommitDone, RaiseError, AbortXact,
       PostCommitDone, PostAbortDone, EndTransaction, OuterEndTransaction, OuterAbort, InProgressPhases
  <2>3. ASSUME NEW u \in Xacts
        PROVE  (CommitDecided(u)' <=> CommitDecided(u)) /\ (AbortDecided(u) => AbortDecided(u)')
    <3>1. CASE outer' = outer /\ (xact' = xact \/ (phase[t] \in InProgressPhases /\ AbortXact(t)))
      <4>1. xact'[u] = xact[u] \/ (xact[u] = "in_progress" /\ xact'[u] = "aborted")
        <5>1. xact \in [Xacts -> XactStates] /\ (phase[t] \in InProgressPhases => xact[t] = "in_progress")
          BY <1>0 DEF TypeOK, XactInv, XactOK
        <5> QED
          BY <3>1, <5>1 DEF AbortXact
      <4> QED
        BY <3>1, <4>1 DEF CommitDecided, AbortDecided
    <3>2. CASE xact' = xact /\ (OuterEndTransaction(t) \/ OuterAbort(t))
      <4>1. outer \in [Xacts -> OuterStates]
        BY <1>0 DEF TypeOK
      <4>2. \/ outer'[u] = outer[u]
            \/ outer[u] = "in_progress" /\ outer'[u] = "aborted"
            \/ outer[u] = "clog_committed" /\ outer'[u] = "committed"
        BY <3>2, <4>1 DEF OuterEndTransaction, OuterAbort
      <4> QED
        BY <3>2, <4>2 DEF CommitDecided, AbortDecided
    <3> QED
      BY <2>2, <3>1, <3>2
  <2>4. \A g \in Gids : Site(g)' = Site(g)
    BY <2>1, SiteKept
  <2> QED
    BY <2>1, <2>3, <2>4, AbortsAtMost, AbortsAreDecided
<1> QED
  BY <1>1, <1>2, LocalCommitImplements, OuterImplements DEF XactStep

\* Nothing is decided and no site enlisted before the first transaction.
LEMMA InitImplements == Init => AC!Init
<1> SUFFICES ASSUME Init PROVE AC!Init
  OBVIOUS
<1>1. \A g \in Gids : ~Participant(g)
  BY DEF Init, Participant
<1>2. \A g \in Gids : Site(g) = "none"
  BY <1>1 DEF Site
<1>3. ASSUME NEW t \in Xacts PROVE Decision(t) = "undecided"
  <2>1. Participants(t) = {}
    BY <1>1 DEF Participants, GidsOf
  <2>2. ~CommitDecided(t) /\ ~AbortDecided(t)
    BY DEF Init, CommitDecided, AbortDecided
  <2> QED
    BY <2>1, <2>2 DEF Decision
<1> QED
  BY <1>2, <1>3 DEF AC!Init

\* Every step is a step of atomic commitment or leaves decisions and sites alone.
LEMMA StepImplements ==
  ASSUME NodeCommandsApart, EveryWriteChecked
  PROVE  IInv /\ IInv' /\ StatementInv /\ StatementInv' /\ EarlyDecision /\ EarlyDecision' /\ [Next]_vars
           => [AC!Next]_(AC!vars)
<1> SUFFICES ASSUME IInv, IInv', StatementInv, StatementInv', EarlyDecision, EarlyDecision', [Next]_vars
             PROVE  AC!Next \/ UNCHANGED AC!vars
  OBVIOUS
<1>1. CASE UNCHANGED vars
  <2>1. UNCHANGED <<coordVars, access, wrote, wtx>>
    BY <1>1 DEF vars
  <2>2. \A t \in Xacts : Decision(t)' = Decision(t)
    BY <2>1, DecisionKept
  <2>3. \A g \in Gids : Site(g)' = Site(g)
    BY <2>1, SiteKept
  <2> QED
    BY <2>2, <2>3, Stutters
<1>2. ASSUME NEW g \in Gids, ConnectionStep(g) PROVE AC!Next \/ UNCHANGED AC!vars
  BY <1>2, ExecuteImplements, ConnectionImplements
<1> QED
  BY <1>1, <1>2, XactImplements, WorkerImplements, FailureImplements, RecoveryImplements DEF Next

\* Coordinated transactions implement atomic commitment: no step of a callback, a node,
\* recovery or a failure undoes a decision, resolves a prepared transaction before it or
\* lets two nodes go different ways.  The executor asks before every first modification over
\* a connection, and commands over node connections (a connection without placement accesses
\* counts as modified) are kept apart from reads: the two workloads that break it are excluded.
THEOREM Implementation ==
  ASSUME NodeCommandsApart, EveryWriteChecked
  PROVE  Spec => ImplementsAtomicCommit
<1>1. Init => AC!Init
  BY InitImplements
<1>2. Init => StatementInv
  BY DEF Init, StatementInv
<1>3. IInv => TypeOK
  BY DEF IInv
<1>4. TypeOK /\ StatementInv /\ [Next]_vars => StatementInv'
  BY StatementStep
<1>5. IInv => EarlyDecision
  BY EarlyDecisionHolds
<1>6. IInv /\ IInv' /\ StatementInv /\ StatementInv' /\ EarlyDecision /\ EarlyDecision' /\ [Next]_vars
        => [AC!Next]_(AC!vars)
  BY StepImplements
<1> QED
  BY <1>1, <1>2, <1>3, <1>4, <1>5, <1>6, Invariance, PTL DEF Spec, ImplementsAtomicCommit, AC!Spec
=============================================================================
