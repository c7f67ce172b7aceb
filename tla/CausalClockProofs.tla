------------------------- MODULE CausalClockProofs -------------------------
(***************************************************************************)
(* Proofs about CausalClock, for any nodes, sessions, wall clock and       *)
(* bounds: IInv is inductive, and ClockMovesForward and                    *)
(* TransactionClockIsKept follow from it.                                  *)
(***************************************************************************)
EXTENDS CausalClock, TLAPS

\* The provers of the leaves that name none: Zenon, then Z3.
USE ZenonT(30), Z3T(30)

-----------------------------------------------------------------------------
(* Clocks                                                                  *)

\* The components of a clock (ClusterClock).
LEMMA ClockFields ==
  ASSUME NEW c \in Clocks
  PROVE  c[1] \in Nat /\ c[2] \in Nat /\ c[2] \in 0..MaxCounter
PROOF BY SMTT(30), Z3T(30), ConstantsAssumption DEF Clocks

\* A clock put together from a logical part and a counter.
LEMMA PairIsClock ==
  ASSUME NEW i \in Nat, NEW j \in 0..MaxCounter
  PROVE  <<i, j>> \in Clocks
PROOF BY DEF Clocks

\* The zero clock, and the one of idle sessions.
LEMMA ZeroIsClock == Zero \in Clocks /\ Idle \in SessionStates
PROOF
  <1>1. Zero \in Clocks
    BY SMTT(30), Z3T(30), PairIsClock, ConstantsAssumption DEF Zero
  <1> QED
    BY <1>1 DEF Idle, SessionStates, Steps, Fields

\* IncrementClusterClock returns a larger clock.
LEMMA IncrementIsLarger ==
  ASSUME NEW c \in Clocks
  PROVE  IncrementClusterClock(c) \in Clocks /\ After(IncrementClusterClock(c), c)
PROOF
  <1>1. c[1] \in Nat /\ c[2] \in 0..MaxCounter /\ c[1] + 1 \in Nat
    BY SMTT(30), Z3T(30), ClockFields
  <1>2. CASE c[2] = MaxCounter
    <2>1. <<c[1] + 1, 0>> \in Clocks
      BY SMTT(30), Z3T(30), <1>1, PairIsClock, ConstantsAssumption
    <2> QED
      BY SMTT(30), Z3T(30), <1>1, <1>2, <2>1 DEF IncrementClusterClock, After
  <1>3. CASE c[2] # MaxCounter
    <2>1. c[2] + 1 \in 0..MaxCounter
      BY SMTT(30), Z3T(30), <1>1, <1>3, ConstantsAssumption
    <2>2. <<c[1], c[2] + 1>> \in Clocks
      BY <1>1, <2>1, PairIsClock
    <2> QED
      BY SMTT(30), Z3T(30), <1>1, <1>3, <2>1, <2>2 DEF IncrementClusterClock, After
  <1> QED
    BY <1>2, <1>3

\* cluster_clock_cmp_internal is a strict order ...
LEMMA AfterIsTransitive ==
  ASSUME NEW c \in Clocks, NEW d \in Clocks, NEW e \in Clocks
  PROVE  /\ ~After(c, c)
         /\ After(c, d) /\ ~After(e, d) => After(c, e)
         /\ ~After(d, c) /\ After(d, e) => After(c, e)
         /\ ~After(c, d) /\ ~After(d, e) => ~After(c, e)
         /\ After(c, d) => ~After(d, c)
         /\ After(c, d) => c[1] >= d[1]
         /\ ~After(c, d) => c[1] <= d[1]
PROOF BY SMTT(30), Z3T(30), ClockFields DEF After

\* ... of which the larger of two clocks is one, and no smaller than both.
LEMMA LargerIsLarger ==
  ASSUME NEW c \in Clocks, NEW d \in Clocks
  PROVE  /\ LargerClock(c, d) \in {c, d} /\ LargerClock(c, d) \in Clocks
PROOF BY DEF LargerClock

-----------------------------------------------------------------------------
(* Types                                                                   *)


\* What clockValue points to is a clock (GetNextNodeClockValue).
LEMMA PointedIsClock ==
  ASSUME TypeOK, NEW s \in Sessions
  PROVE  /\ Pointed(s) \in Clocks /\ NodeOf[s] \in Nodes
         /\ session[s] \in SessionStates
PROOF BY ConstantsAssumption DEF TypeOK, Pointed, SessionStates

\* What StartClock starts with is a clock, larger than all that was persisted.
LEMMA StartIsLarger ==
  ASSUME TypeOK, NEW n \in Nodes, NEW epoch \in Epochs, StartClock(n, <<epoch, 0>>)
  PROVE  /\ clusterClockValue' \in [Nodes -> Clocks] /\ sequence' \in [Nodes -> Nat]
         /\ logged' \in [Nodes -> Nat] /\ logged'[n] > sequence[n]
         /\ clusterClockValue'[n][1] > sequence[n]
         /\ \A m \in Nodes \ {n} : /\ clusterClockValue'[m] = clusterClockValue[m]
                                   /\ sequence'[m] = sequence[m] /\ logged'[m] = logged[m]
PROOF
  <1> DEFINE next == sequence[n] + 1
  <1> DEFINE drifted == next # 1 /\ After(<<next, 0>>, <<epoch, 0>>)
  <1>1. sequence[n] \in Nat /\ next \in Nat /\ epoch \in Nat /\ epoch > 0 /\ LogVals \in Nat
    BY SMTT(30), Z3T(30), ConstantsAssumption DEF TypeOK
  <1>2. <<next, 0>> \in Clocks /\ <<epoch, 0>> \in Clocks
    BY SMTT(30), Z3T(30), <1>1, PairIsClock, ConstantsAssumption
  <1>3. /\ clusterClockValue' = [clusterClockValue EXCEPT ![n] = IF drifted THEN <<next, 0>> ELSE <<epoch, 0>>]
        /\ sequence' = [sequence EXCEPT ![n] = next]
        /\ logged' = [logged EXCEPT ![n] = IF drifted THEN next ELSE next + LogVals]
    BY DEF StartClock
  <1>4. clusterClockValue'[n] = IF drifted THEN <<next, 0>> ELSE <<epoch, 0>>
    BY <1>3 DEF TypeOK
  <1>5. clusterClockValue'[n][1] > sequence[n]
    BY SMTT(30), Z3T(30), <1>1, <1>4 DEF After
  <1>6. logged'[n] > sequence[n]
    BY SMTT(30), Z3T(30), <1>1, <1>3 DEF TypeOK
  <1> HIDE DEF drifted
  <1> QED
    BY SMTT(30), Z3T(30), <1>1, <1>2, <1>3, <1>5, <1>6 DEF TypeOK

\* What StartCommit does to a session: an adjusted one begins to commit.
LEMMA StartCommitSessions ==
  ASSUME TypeOK, NEW s \in Sessions, StartCommit(s), NEW t \in Sessions
  PROVE  \/ session'[t] = session[t]
         \/ /\ session'[t] = [session[t] EXCEPT !.pc = "commit"]
            /\ session[t].pc = "adjusted" /\ session'[t].pc = "commit"
            /\ session'[t].result = session[t].result
PROOF
  <1>1. session[t] \in SessionStates
    BY DEF TypeOK
  <1>2. CASE t \in {s} \cup Remotes[s] /\ session[t].pc = "adjusted"
    <2>1. session'[t] = [session[t] EXCEPT !.pc = "commit"]
      BY <1>2 DEF StartCommit, At
    <2> QED
      BY <1>1, <1>2, <2>1 DEF SessionStates
  <1>3. CASE ~(t \in {s} \cup Remotes[s] /\ session[t].pc = "adjusted")
    BY <1>3 DEF StartCommit, At
  <1> QED
    BY <1>2, <1>3

\* Every step keeps the types.
LEMMA TypeStep ==
  ASSUME TypeOK, [Next]_vars
  PROVE  TypeOK'
PROOF
  <1>1. ASSUME NEW s \in Sessions, CallClock(s)
        PROVE  TypeOK'
    <2>1. [Idle EXCEPT !.pc = "start"] \in SessionStates
      BY ZeroIsClock DEF SessionStates, Steps
    <2> QED
      BY <1>1, <2>1 DEF CallClock, TypeOK, shmemVars, seqVars, historyVars
  <1>2. ASSUME NEW s \in Sessions, NEW epoch \in Epochs, GetEpochTimeAsClock(s, epoch)
        PROVE  TypeOK'
    <2>1. <<epoch, 0>> \in Clocks
      BY SMTT(30), Z3T(30), PairIsClock, ConstantsAssumption
    <2>2. session[s] \in SessionStates
      BY DEF TypeOK
    <2>3. [session[s] EXCEPT !.epoch = <<epoch, 0>>, !.pc = IF s \in checked THEN "tick" ELSE "init"] \in SessionStates
      BY <2>1, <2>2 DEF SessionStates, Steps
    <2>4. session' \in [Sessions -> SessionStates]
      BY <1>2, <2>3 DEF GetEpochTimeAsClock, TypeOK
    <2> QED
      BY <1>2, <2>4 DEF GetEpochTimeAsClock, TypeOK, shmemVars, seqVars, historyVars
  <1>3. ASSUME NEW s \in Sessions, InitClockAtFirstUse(s)
        PROVE  TypeOK'
    <2>1. session' \in [Sessions -> SessionStates]
      BY SMTT(30), Z3T(30), <1>3 DEF InitClockAtFirstUse, Go, TypeOK, SessionStates, Steps
    <2>2. NodeOf[s] \in Nodes
      BY PointedIsClock
    <2>3. /\ clusterClockValue' \in [Nodes -> Clocks] /\ sequence' \in [Nodes -> Nat]
          /\ logged' \in [Nodes -> Nat] /\ flushed' \in [Nodes -> Nat] /\ clockInitialized' \subseteq Nodes
      <3>1. CASE NodeOf[s] \in clockInitialized
        BY <1>3, <3>1 DEF InitClockAtFirstUse, TypeOK, seqVars
      <3>2. CASE NodeOf[s] \notin clockInitialized
        BY <1>3, <2>2, <3>2, StartIsLarger DEF InitClockAtFirstUse, StartClock, TypeOK
      <3> QED
        BY <3>1, <3>2
    <2> QED
      BY <1>3, <2>1, <2>3 DEF InitClockAtFirstUse, TypeOK, historyVars
  <1>4. ASSUME NEW s \in Sessions, TickClock(s)
        PROVE  TypeOK'
    <2> DEFINE ticked == IncrementClusterClock(clusterClockValue[NodeOf[s]])
    <2>1. session[s] \in SessionStates /\ clusterClockValue[NodeOf[s]] \in Clocks
      BY ConstantsAssumption DEF TypeOK
    <2>2. ticked \in Clocks
      BY <2>1, IncrementIsLarger
    <2>3. [session[s] EXCEPT !.source = IF After(ticked, session[s].epoch) THEN "shared" ELSE "epoch",
                             !.pc = "save"] \in SessionStates
      <3> HIDE DEF ticked
      <3> QED
        BY <2>1 DEF SessionStates, Steps
    <2>4. session' \in [Sessions -> SessionStates]
      BY <1>4, <2>3 DEF TickClock, TypeOK
    <2>5. clusterClockValue' \in [Nodes -> Clocks]
      BY <1>4, <2>2 DEF TickClock, TypeOK
    <2> QED
      BY <1>4, <2>4, <2>5 DEF TickClock, TypeOK, seqVars, historyVars
  <1>5. ASSUME NEW s \in Sessions, SaveClock(s)
        PROVE  TypeOK'
    BY <1>5, PointedIsClock
       DEF SaveClock, Save, Go, TypeOK, SessionStates, Steps, seqVars, historyVars
  <1>6. ASSUME NEW s \in Sessions, PersistClock(s)
        PROVE  TypeOK'
    <2>1. session[s] \in SessionStates /\ Pointed(s) \in Clocks /\ Pointed(s)[1] \in Nat
      BY PointedIsClock, ClockFields DEF TypeOK
    <2>2. [session[s] EXCEPT !.unread = Fields, !.pc = "copy"] \in SessionStates
      BY <2>1 DEF SessionStates, Steps
    <2>3. session' \in [Sessions -> SessionStates]
      BY <1>6, <2>2 DEF PersistClock, TypeOK
    <2> QED
      BY <1>6, <2>1, <2>3 DEF PersistClock, Persist, TypeOK
  <1>7. ASSUME NEW s \in Sessions, NEW field \in Fields, CopyField(s, field)
        PROVE  TypeOK'
    <2>1. <<Pointed(s)[1], session[s].result[2]>> \in Clocks /\ <<session[s].result[1], Pointed(s)[2]>> \in Clocks
      BY PointedIsClock, ClockFields, PairIsClock DEF SessionStates
    <2> DEFINE rest == session[s].unread \ {field}
    <2> DEFINE copied == IF field = "logical" THEN <<Pointed(s)[1], session[s].result[2]>>
                                             ELSE <<session[s].result[1], Pointed(s)[2]>>
    <2>2. session[s] \in SessionStates /\ rest \in SUBSET Fields /\ copied \in Clocks /\ Zero \in Clocks
      BY <2>1, ZeroIsClock DEF TypeOK, SessionStates
    <2>3. session' = [session EXCEPT ![s] =
                        [session[s] EXCEPT
                           !.unread = rest, !.result = copied,
                           !.pc = IF rest # {} THEN "copy" ELSE IF Remotes[s] = {} THEN "done" ELSE "collect",
                           !.source = IF rest # {} THEN session[s].source ELSE "epoch",
                           !.epoch = IF rest # {} THEN session[s].epoch ELSE Zero]]
      BY <1>7, <2>2 DEF CopyField, TypeOK, SessionStates
    <2>4. [session[s] EXCEPT
             !.unread = rest, !.result = copied,
             !.pc = IF rest # {} THEN "copy" ELSE IF Remotes[s] = {} THEN "done" ELSE "collect",
             !.source = IF rest # {} THEN session[s].source ELSE "epoch",
             !.epoch = IF rest # {} THEN session[s].epoch ELSE Zero] \in SessionStates
      <3> HIDE DEF rest, copied
      <3> QED
        BY <2>2 DEF SessionStates, Steps
    <2>5. session' \in [Sessions -> SessionStates]
      <3> HIDE DEF rest, copied
      <3> QED
        BY <2>3, <2>4 DEF TypeOK
    <2> QED
      BY <1>7, <2>5 DEF CopyField, TypeOK, shmemVars, seqVars, historyVars
  <1>8. ASSUME NEW s \in Sessions, NEW r \in Remotes[s], CollectClock(s, r)
        PROVE  TypeOK'
    <2>1. LargerClock(session[s].result, session[r].result) \in Clocks /\ r \in Sessions
      BY LargerIsLarger, ConstantsAssumption DEF TypeOK, SessionStates
    <2> QED
      BY SMTT(30), Z3T(30), <1>8, <2>1 DEF CollectClock, TypeOK, SessionStates, shmemVars, seqVars, historyVars
  <1>9. ASSUME NEW s \in Sessions, AdjustClocksToTransactionHighest(s)
        PROVE  TypeOK'
    <2>1. ASSUME NEW r \in Sessions
          PROVE  [session[r] EXCEPT !.pc = "adjust", !.result = session[s].result] \in SessionStates
      <3>1. session[r] \in SessionStates /\ session[s].result \in Clocks
        BY DEF TypeOK, SessionStates
      <3> QED
        BY <3>1 DEF SessionStates, Steps
    <2>2. session' \in [Sessions -> SessionStates]
      BY <1>9, <2>1 DEF AdjustClocksToTransactionHighest, TypeOK
    <2> QED
      BY <1>9, <2>2 DEF AdjustClocksToTransactionHighest, TypeOK, shmemVars, seqVars, historyVars
  <1>10. ASSUME NEW s \in Sessions, AdjustLocalClock(s)
        PROVE  TypeOK'
    BY SMTT(30), Z3T(30), <1>10, PointedIsClock
       DEF AdjustLocalClock, Save, Go, TypeOK, SessionStates, Steps, seqVars, historyVars
  <1>11. ASSUME NEW s \in Sessions, PersistAdjusted(s)
        PROVE  TypeOK'
    BY <1>11, PointedIsClock, ClockFields
       DEF PersistAdjusted, Persist, Go, TypeOK, SessionStates, Steps
  <1>12. ASSUME NEW s \in Sessions, Rollback(s)
        PROVE  TypeOK'
    BY <1>12, ZeroIsClock DEF Rollback, TypeOK, shmemVars, seqVars, historyVars
  <1>13. ASSUME NEW s \in Sessions, CommitPart(s)
        PROVE  TypeOK'
    <2>1. NodeOf[s] \in Nodes
      BY ConstantsAssumption
    <2>2. LargerClock(stamp[NodeOf[s]], session[s].result) \in Clocks
      BY <2>1, LargerIsLarger DEF TypeOK, SessionStates
    <2>3. kept' \in [Nodes -> Clocks] /\ flushed' \in [Nodes -> Nat] /\ stamp' \in [Nodes -> Clocks]
      BY <1>13, <2>1, <2>2 DEF CommitPart, TypeOK
    <2>4. session' \in [Sessions -> SessionStates]
      BY <1>13, ZeroIsClock DEF CommitPart, TypeOK
    <2> QED
      BY <1>13, <2>3, <2>4 DEF CommitPart, TypeOK, shmemVars
  <1>14. ASSUME NEW n \in Nodes, Crash(n)
        PROVE  TypeOK'
    <2>1. [Idle EXCEPT !.pc = "lost"] \in SessionStates
      BY ZeroIsClock DEF SessionStates, Steps
    <2>2. crashes + 1 \in 0..MaxCrashes
      BY SMTT(30), Z3T(30), <1>14, ConstantsAssumption DEF Crash, TypeOK
    <2> QED
      BY <1>14, <2>1, <2>2, ZeroIsClock DEF Crash, TypeOK
  <1>15. CASE UNCHANGED vars
    BY <1>15 DEF vars, TypeOK, SessionStates, Steps, Go, shmemVars, seqVars, historyVars
  <1>16. ASSUME NEW s \in Sessions, StartCommit(s)
        PROVE  TypeOK'
    <2>1. ASSUME NEW t \in Sessions PROVE session'[t] \in SessionStates
      <3>1. session[t] \in SessionStates /\ [session[t] EXCEPT !.pc = "commit"] \in SessionStates
        BY DEF TypeOK, SessionStates, Steps
      <3> QED
        BY <1>16, <3>1, StartCommitSessions
    <2>2. session' \in [Sessions -> SessionStates]
      BY <1>16, <2>1 DEF StartCommit
    <2> QED
      BY <1>16, <2>2 DEF StartCommit, TypeOK, shmemVars, seqVars, historyVars
  <1> QED
    BY <1>1, <1>2, <1>3, <1>4, <1>5, <1>6, <1>7, <1>8, <1>9, <1>10, <1>11, <1>12, <1>13, <1>14, <1>15, <1>16
       DEF Next, SessionStep

-----------------------------------------------------------------------------
(* The lock, the initialisation and the adjustment                         *)

\* What CopyField does to the sessions.
LEMMA CopyFieldSessions ==
  ASSUME TypeOK, NEW s \in Sessions, NEW field \in Fields, CopyField(s, field)
  PROVE  /\ session[s].pc = "copy" /\ session'[s].pc \in {"copy", "done", "collect"}
         /\ session'[s].pc = "collect" => Remotes[s] # {}
         /\ \A t \in Sessions \ {s} : session'[t] = session[t]
PROOF
  <1>1. session[s] \in SessionStates /\ session \in [Sessions -> SessionStates]
    BY DEF TypeOK
  <1>2. PICK pc \in {"copy", "done", "collect"} :
          (pc = "collect" => Remotes[s] # {}) /\ session'[s].pc = pc
    BY <1>1 DEF CopyField, SessionStates
  <1>3. \A t \in Sessions \ {s} : session'[t] = session[t]
    BY <1>1 DEF CopyField
  <1> QED
    BY <1>2, <1>3 DEF CopyField, At

\* What AdjustClocksToTransactionHighest does to the sessions.
LEMMA AdjustSessions ==
  ASSUME TypeOK, NEW s \in Sessions, AdjustClocksToTransactionHighest(s)
  PROVE  /\ Remotes[s] \subseteq Sessions
         /\ \A r \in {s} \cup Remotes[s] :
              /\ session[r].pc \in {"collect", "done"}
              /\ session'[r].pc = "adjust" /\ session'[r].result = session[s].result
         /\ \A t \in Sessions \ ({s} \cup Remotes[s]) : session'[t] = session[t]
PROOF
  <1>1. Remotes[s] \subseteq Sessions
    BY ConstantsAssumption
  <1>2. \A t \in Sessions \ ({s} \cup Remotes[s]) : session'[t] = session[t]
    BY DEF AdjustClocksToTransactionHighest
  <1>3. ASSUME NEW r \in {s} \cup Remotes[s]
        PROVE  /\ session[r].pc \in {"collect", "done"}
               /\ session'[r].pc = "adjust" /\ session'[r].result = session[s].result
    <2>1. r \in Sessions /\ session[r] \in SessionStates
      BY <1>1 DEF TypeOK
    <2>2. session'[r] = [session[r] EXCEPT !.pc = "adjust", !.result = session[s].result]
      BY <2>1 DEF AdjustClocksToTransactionHighest
    <2>3. session'[r].pc = "adjust" /\ session'[r].result = session[s].result
      BY <2>1, <2>2 DEF SessionStates
    <2> QED
      BY <2>3 DEF AdjustClocksToTransactionHighest, At
  <1> QED
    BY <1>1, <1>2, <1>3

\* clockLock excludes: only TickClock and AdjustLocalClock take it, and they wait for it.
LEMMA LockStep ==
  ASSUME TypeOK, LockInv, [Next]_vars
  PROVE  LockInv'
PROOF
  <1>1. ASSUME NEW s \in Sessions, CallClock(s)
        PROVE  LockInv'
    BY <1>1 DEF CallClock, Idle, LockInv, Locking, Locked, At, TypeOK, SessionStates, shmemVars
  <1>2. ASSUME NEW s \in Sessions, NEW epoch \in Epochs, GetEpochTimeAsClock(s, epoch)
        PROVE  LockInv'
    BY SMTT(30), Z3T(30), <1>2 DEF GetEpochTimeAsClock, LockInv, Locking, Locked, At, TypeOK, SessionStates, shmemVars
  <1>3. ASSUME NEW s \in Sessions, InitClockAtFirstUse(s)
        PROVE  LockInv'
    BY SMTT(30), Z3T(30), <1>3 DEF InitClockAtFirstUse, LockInv, Locking, Locked, At, Go, TypeOK, SessionStates
  <1>4. ASSUME NEW s \in Sessions, TickClock(s)
        PROVE  LockInv'
    BY SMTT(30), Z3T(30), <1>4 DEF TickClock, LockInv, Locking, Locked, At, TypeOK, SessionStates, shmemVars
  <1>5. ASSUME NEW s \in Sessions, SaveClock(s)
        PROVE  LockInv'
    BY SMTT(30), Z3T(30), <1>5 DEF SaveClock, LockInv, Locking, Locked, At, Go, TypeOK, SessionStates, shmemVars
  <1>6. ASSUME NEW s \in Sessions, PersistClock(s)
        PROVE  LockInv'
    BY SMTT(30), Z3T(30), <1>6 DEF PersistClock, LockInv, Locking, Locked, At, TypeOK, SessionStates, shmemVars
  <1>7. ASSUME NEW s \in Sessions, NEW field \in Fields, CopyField(s, field)
        PROVE  LockInv'
    BY <1>7, CopyFieldSessions DEF CopyField, LockInv, Locking, shmemVars
  <1>8. ASSUME NEW s \in Sessions, NEW r \in Remotes[s], CollectClock(s, r)
        PROVE  LockInv'
    BY SMTT(30), Z3T(30), <1>8 DEF CollectClock, LockInv, Locking, Locked, At, TypeOK, SessionStates, shmemVars
  <1>9. ASSUME NEW s \in Sessions, AdjustClocksToTransactionHighest(s)
        PROVE  LockInv'
    BY <1>9, AdjustSessions DEF AdjustClocksToTransactionHighest, LockInv, Locking, shmemVars
  <1>10. ASSUME NEW s \in Sessions, AdjustLocalClock(s)
        PROVE  LockInv'
    BY SMTT(30), Z3T(30), <1>10 DEF AdjustLocalClock, LockInv, Locking, Locked, At, Go, TypeOK, SessionStates, shmemVars
  <1>11. ASSUME NEW s \in Sessions, PersistAdjusted(s)
        PROVE  LockInv'
    BY SMTT(30), Z3T(30), <1>11 DEF PersistAdjusted, LockInv, Locking, Locked, At, Go, TypeOK, SessionStates, shmemVars
  <1>12. ASSUME NEW s \in Sessions, Rollback(s)
        PROVE  LockInv'
    BY <1>12 DEF Rollback, Idle, LockInv, Locking, Locked, At, TypeOK, SessionStates, shmemVars
  <1>13. ASSUME NEW s \in Sessions, CommitPart(s)
        PROVE  LockInv'
    BY <1>13 DEF CommitPart, Idle, LockInv, Locking, Locked, At, TypeOK, SessionStates, shmemVars
  <1>14. ASSUME NEW n \in Nodes, Crash(n)
        PROVE  LockInv'
    BY <1>14 DEF Crash, Idle, LockInv, Locking, Locked, At, TypeOK, SessionStates
  <1>15. CASE UNCHANGED vars
    BY <1>15 DEF vars, LockInv, Locking, Locked, At, TypeOK, SessionStates, shmemVars
  <1>16. ASSUME NEW s \in Sessions, StartCommit(s)
        PROVE  LockInv'
    <2>1. \A t \in Sessions : session'[t].pc \in Locking <=> session[t].pc \in Locking
      BY <1>16, StartCommitSessions DEF Locking
    <2> QED
      BY <1>16, <2>1 DEF StartCommit, LockInv, shmemVars
  <1> QED
    BY <1>1, <1>2, <1>3, <1>4, <1>5, <1>6, <1>7, <1>8, <1>9, <1>10, <1>11, <1>12, <1>13, <1>14, <1>15, <1>16
       DEF Next, SessionStep

\* isClockInitChecked is set with the clock initialised, and a crash resets both.
LEMMA CheckedStep ==
  ASSUME TypeOK, CheckedInv, [Next]_vars
  PROVE  CheckedInv'
PROOF
  <1>1. ASSUME NEW s \in Sessions, CallClock(s)
        PROVE  CheckedInv'
    BY <1>1 DEF CallClock, Idle, CheckedInv, At, TypeOK, SessionStates, shmemVars
  <1>2. ASSUME NEW s \in Sessions, NEW epoch \in Epochs, GetEpochTimeAsClock(s, epoch)
        PROVE  CheckedInv'
    BY SMTT(30), Z3T(30), <1>2 DEF GetEpochTimeAsClock, CheckedInv, At, TypeOK, SessionStates, shmemVars
  <1>3. ASSUME NEW s \in Sessions, InitClockAtFirstUse(s)
        PROVE  CheckedInv'
    BY SMTT(30), Z3T(30), <1>3 DEF InitClockAtFirstUse, CheckedInv, At, Go, TypeOK, SessionStates
  <1>4. ASSUME NEW s \in Sessions, TickClock(s)
        PROVE  CheckedInv'
    BY <1>4 DEF TickClock, CheckedInv, At, TypeOK, SessionStates, shmemVars
  <1>5. ASSUME NEW s \in Sessions, SaveClock(s)
        PROVE  CheckedInv'
    BY <1>5 DEF SaveClock, CheckedInv, At, Go, TypeOK, SessionStates, shmemVars
  <1>6. ASSUME NEW s \in Sessions, PersistClock(s)
        PROVE  CheckedInv'
    BY <1>6 DEF PersistClock, CheckedInv, At, TypeOK, SessionStates, shmemVars
  <1>7. ASSUME NEW s \in Sessions, NEW field \in Fields, CopyField(s, field)
        PROVE  CheckedInv'
    BY <1>7 DEF CopyField, CheckedInv, At, TypeOK, SessionStates, shmemVars
  <1>8. ASSUME NEW s \in Sessions, NEW r \in Remotes[s], CollectClock(s, r)
        PROVE  CheckedInv'
    BY <1>8 DEF CollectClock, CheckedInv, At, TypeOK, SessionStates, shmemVars
  <1>9. ASSUME NEW s \in Sessions, AdjustClocksToTransactionHighest(s)
        PROVE  CheckedInv'
    BY <1>9 DEF AdjustClocksToTransactionHighest, CheckedInv, At, TypeOK, SessionStates, shmemVars
  <1>10. ASSUME NEW s \in Sessions, AdjustLocalClock(s)
        PROVE  CheckedInv'
    BY <1>10 DEF AdjustLocalClock, CheckedInv, At, Go, TypeOK, SessionStates, shmemVars
  <1>11. ASSUME NEW s \in Sessions, PersistAdjusted(s)
        PROVE  CheckedInv'
    BY <1>11 DEF PersistAdjusted, CheckedInv, At, Go, TypeOK, SessionStates, shmemVars
  <1>12. ASSUME NEW s \in Sessions, Rollback(s)
        PROVE  CheckedInv'
    BY <1>12 DEF Rollback, Idle, CheckedInv, At, TypeOK, SessionStates, shmemVars
  <1>13. ASSUME NEW s \in Sessions, CommitPart(s)
        PROVE  CheckedInv'
    BY <1>13 DEF CommitPart, Idle, CheckedInv, At, TypeOK, SessionStates, shmemVars
  <1>14. ASSUME NEW n \in Nodes, Crash(n)
        PROVE  CheckedInv'
    BY <1>14 DEF Crash, Idle, CheckedInv, At, TypeOK, SessionStates
  <1>15. CASE UNCHANGED vars
    BY <1>15 DEF vars, CheckedInv, At, TypeOK, SessionStates, shmemVars
  <1>16. ASSUME NEW s \in Sessions, StartCommit(s)
        PROVE  CheckedInv'
    <2>1. \A t \in Sessions : session'[t].pc = session[t].pc \/ session[t].pc = "adjusted"
      BY <1>16, StartCommitSessions
    <2> QED
      BY <1>16, <2>1 DEF StartCommit, CheckedInv, shmemVars
  <1> QED
    BY <1>1, <1>2, <1>3, <1>4, <1>5, <1>6, <1>7, <1>8, <1>9, <1>10, <1>11, <1>12, <1>13, <1>14, <1>15, <1>16
       DEF Next, SessionStep

\* AdjustClocksToTransactionHighest sends one value to all nodes of the transaction.
LEMMA AdjustStep ==
  ASSUME TypeOK, AdjustInv, [Next]_vars
  PROVE  AdjustInv'
PROOF
  <1>1. ASSUME NEW s \in Sessions, CallClock(s)
        PROVE  AdjustInv'
    BY SMTT(30), Z3T(30), <1>1, ConstantsAssumption DEF CallClock, Idle, AdjustInv, Adjusting, At, TypeOK, SessionStates
  <1>2. ASSUME NEW s \in Sessions, NEW epoch \in Epochs, GetEpochTimeAsClock(s, epoch)
        PROVE  AdjustInv'
    BY SMTT(30), Z3T(30), <1>2, ConstantsAssumption DEF GetEpochTimeAsClock, AdjustInv, Adjusting, At, TypeOK, SessionStates
  <1>3. ASSUME NEW s \in Sessions, InitClockAtFirstUse(s)
        PROVE  AdjustInv'
    BY SMTT(30), Z3T(30), <1>3, ConstantsAssumption
       DEF InitClockAtFirstUse, AdjustInv, Adjusting, At, Go, TypeOK, SessionStates
  <1>4. ASSUME NEW s \in Sessions, TickClock(s)
        PROVE  AdjustInv'
    BY SMTT(30), Z3T(30), <1>4, ConstantsAssumption DEF TickClock, AdjustInv, Adjusting, At, TypeOK, SessionStates
  <1>5. ASSUME NEW s \in Sessions, SaveClock(s)
        PROVE  AdjustInv'
    BY SMTT(30), Z3T(30), <1>5, ConstantsAssumption DEF SaveClock, AdjustInv, Adjusting, At, Go, TypeOK, SessionStates
  <1>6. ASSUME NEW s \in Sessions, PersistClock(s)
        PROVE  AdjustInv'
    BY SMTT(30), Z3T(30), <1>6, ConstantsAssumption DEF PersistClock, AdjustInv, Adjusting, At, TypeOK, SessionStates
  <1>7. ASSUME NEW s \in Sessions, NEW field \in Fields, CopyField(s, field)
        PROVE  AdjustInv'
    <2> SUFFICES ASSUME NEW t \in Sessions
                 PROVE  /\ At(t, "collect")' => Remotes[t] # {}
                        /\ \A q \in Remotes[t] :
                             session'[t].pc \in Adjusting /\ session'[q].pc \in Adjusting =>
                               session'[q].result = session'[t].result
      BY DEF AdjustInv
    <2>1. \A u \in Sessions : u = s \/ session'[u] = session[u]
      BY <1>7, CopyFieldSessions
    <2>2. session'[s].pc \notin Adjusting /\ (session'[s].pc = "collect" => Remotes[s] # {})
      BY <1>7, CopyFieldSessions DEF Adjusting
    <2>3. Remotes[t] \subseteq Sessions
      BY ConstantsAssumption
    <2> QED
      BY SMTT(30), Z3T(30), <2>1, <2>2, <2>3 DEF AdjustInv, At
  <1>8. ASSUME NEW s \in Sessions, NEW r \in Remotes[s], CollectClock(s, r)
        PROVE  AdjustInv'
    <2> SUFFICES ASSUME NEW t \in Sessions
                 PROVE  /\ At(t, "collect")' => Remotes[t] # {}
                        /\ \A q \in Remotes[t] :
                             session'[t].pc \in Adjusting /\ session'[q].pc \in Adjusting =>
                               session'[q].result = session'[t].result
      BY DEF AdjustInv, At
    <2>1. \A u \in Sessions : u = s \/ session'[u] = session[u]
      BY <1>8 DEF CollectClock, TypeOK
    <2>2. session[s].pc = "collect" /\ session'[s].pc = "collect"
      BY SMTT(30), Z3T(30), <1>8 DEF CollectClock, At, TypeOK, SessionStates
    <2>3. Remotes[t] \subseteq Sessions
      BY ConstantsAssumption
    <2> QED
      BY SMTT(30), Z3T(30), <2>1, <2>2, <2>3 DEF AdjustInv, Adjusting, At
  <1>9. ASSUME NEW s \in Sessions, AdjustClocksToTransactionHighest(s)
        PROVE  AdjustInv'
    <2> SUFFICES ASSUME NEW t \in Sessions
                 PROVE  /\ At(t, "collect")' => Remotes[t] # {}
                        /\ \A q \in Remotes[t] :
                             session'[t].pc \in Adjusting /\ session'[q].pc \in Adjusting =>
                               session'[q].result = session'[t].result
      BY DEF AdjustInv, At
    <2>1. s \in Sessions /\ Remotes[s] # {} /\ Remotes[s] \subseteq Sessions
      BY <1>9, ConstantsAssumption DEF AdjustClocksToTransactionHighest, AdjustInv
    <2>2. CASE t = s
      BY SMTT(30), Z3T(30), <1>9, <2>1, <2>2, AdjustSessions DEF At
    <2>3. CASE t \in Remotes[s]
      <3>1. Remotes[t] = {} /\ session'[t].pc = "adjust"
        BY SMTT(30), Z3T(30), <1>9, <2>1, <2>3, AdjustSessions, ConstantsAssumption
      <3> QED
        BY <3>1 DEF At
    <2>4. CASE t # s /\ t \notin Remotes[s]
      <3>1. session'[t] = session[t]
        BY <1>9, <2>4 DEF AdjustClocksToTransactionHighest
      <3>2. \A q \in Remotes[t] : q \in Sessions /\ q \notin Remotes[s] /\ q # s
        BY <2>1, <2>4, ConstantsAssumption
      <3>3. \A q \in Remotes[t] : session'[q] = session[q]
        BY <1>9, <3>2 DEF AdjustClocksToTransactionHighest
      <3> QED
        BY SMTT(30), Z3T(30), <3>1, <3>3 DEF AdjustInv, At
    <2> QED
      BY <2>2, <2>3, <2>4
  <1>10. ASSUME NEW s \in Sessions, AdjustLocalClock(s)
        PROVE  AdjustInv'
    <2> SUFFICES ASSUME NEW t \in Sessions
                 PROVE  /\ At(t, "collect")' => Remotes[t] # {}
                        /\ \A q \in Remotes[t] :
                             session'[t].pc \in Adjusting /\ session'[q].pc \in Adjusting =>
                               session'[q].result = session'[t].result
      BY DEF AdjustInv, At
    <2>1. \A u \in Sessions : u = s \/ session'[u] = session[u]
      BY <1>10 DEF AdjustLocalClock, Go, TypeOK
    <2>2. /\ session[s].pc = "adjust" /\ session'[s].pc \in {"adjusted", "persist_adjusted"}
          /\ session'[s].result = session[s].result
      BY SMTT(30), Z3T(30), <1>10 DEF AdjustLocalClock, Go, At, TypeOK, SessionStates
    <2>3. Remotes[t] \subseteq Sessions
      BY ConstantsAssumption
    <2> QED
      BY SMTT(30), Z3T(30), <2>1, <2>2, <2>3 DEF AdjustInv, Adjusting, At
  <1>11. ASSUME NEW s \in Sessions, PersistAdjusted(s)
        PROVE  AdjustInv'
    BY SMTT(30), Z3T(30), <1>11, ConstantsAssumption
       DEF PersistAdjusted, AdjustInv, Adjusting, At, Go, TypeOK, SessionStates
  <1>12. ASSUME NEW s \in Sessions, Rollback(s)
        PROVE  AdjustInv'
    BY SMTT(30), Z3T(30), <1>12, ConstantsAssumption DEF Rollback, Idle, AdjustInv, Adjusting, At, TypeOK, SessionStates
  <1>13. ASSUME NEW s \in Sessions, CommitPart(s)
        PROVE  AdjustInv'
    BY SMTT(30), Z3T(30), <1>13, ConstantsAssumption DEF CommitPart, Idle, AdjustInv, Adjusting, At, TypeOK, SessionStates
  <1>14. ASSUME NEW n \in Nodes, Crash(n)
        PROVE  AdjustInv'
    BY SMTT(30), Z3T(30), <1>14, ConstantsAssumption DEF Crash, Idle, AdjustInv, Adjusting, At, TypeOK, SessionStates
  <1>15. CASE UNCHANGED vars
    BY <1>15, ConstantsAssumption DEF vars, AdjustInv, Adjusting, At, TypeOK, SessionStates
  <1>16. ASSUME NEW s \in Sessions, StartCommit(s)
        PROVE  AdjustInv'
    <2>1. ASSUME NEW t \in Sessions
          PROVE  /\ session'[t].pc = "collect" <=> session[t].pc = "collect"
                 /\ session'[t].pc \in Adjusting <=> session[t].pc \in Adjusting
                 /\ session'[t].result = session[t].result
      BY <1>16, StartCommitSessions DEF Adjusting
    <2>2. \A t \in Sessions : Remotes[t] \subseteq Sessions
      BY ConstantsAssumption
    <2> QED
      BY <2>1, <2>2 DEF AdjustInv, At
  <1> QED
    BY <1>1, <1>2, <1>3, <1>4, <1>5, <1>6, <1>7, <1>8, <1>9, <1>10, <1>11, <1>12, <1>13, <1>14, <1>15, <1>16
       DEF Next, SessionStep

-----------------------------------------------------------------------------
(* The clocks of the nodes                                                 *)

\* Steps that leave the clocks of all nodes alone.
LEMMA ClockUnchanged ==
  ASSUME ClockInv, UNCHANGED <<clusterClockValue, clockInitialized, seqVars, historyVars>>
  PROVE  ClockInv'
PROOF BY DEF ClockInv, seqVars, historyVars

\* The shared clock of an initialised node moves forward: everything below it stays.
LEMMA ClockForward ==
  ASSUME TypeOK, ClockInv, NEW n \in Nodes, NEW c \in Clocks,
         n \in clockInitialized, ~After(clusterClockValue[n], c),
         clusterClockValue' = [clusterClockValue EXCEPT ![n] = c],
         UNCHANGED <<clockInitialized, seqVars, historyVars>>
  PROVE  ClockInv'
PROOF
  <1>1. clusterClockValue[n] \in Clocks /\ floor[n] \in Clocks /\ ~After(floor[n], clusterClockValue[n])
    BY DEF TypeOK, ClockInv
  <1>2. ~After(floor[n], c)
    BY <1>1, AfterIsTransitive
  <1> QED
    BY <1>2 DEF ClockInv, TypeOK, seqVars, historyVars

\* setval of the shared clock.
LEMMA ClockPersisted ==
  ASSUME TypeOK, ClockInv, NEW n \in Nodes, n \in clockInitialized,
         Persist(n, clusterClockValue[n]),
         UNCHANGED <<clusterClockValue, clockInitialized, kept, stamp>>
  PROVE  ClockInv'
PROOF
  <1>1. /\ clusterClockValue[n] \in Clocks /\ floor[n] \in Clocks /\ kept[n] \in Clocks
        /\ ~After(floor[n], clusterClockValue[n]) /\ ~After(kept[n], floor[n])
    BY DEF TypeOK, ClockInv
  <1>2. ~After(kept[n], clusterClockValue[n]) /\ ~After(clusterClockValue[n], clusterClockValue[n])
    BY <1>1, AfterIsTransitive
  <1>3. clusterClockValue[n][1] <= clusterClockValue[n][1]
    BY SMTT(30), Z3T(30), <1>1, ClockFields
  <1> QED
    BY <1>2, <1>3 DEF Persist, ClockInv, TypeOK

\* No step sets the clock of a node below what was persisted, or forgets what was kept.
LEMMA ClockStep ==
  ASSUME IInv, [Next]_vars
  PROVE  ClockInv'
PROOF
  <1>1. ASSUME NEW s \in Sessions, CallClock(s)
        PROVE  ClockInv'
    BY <1>1, ClockUnchanged DEF CallClock, IInv, shmemVars, seqVars, historyVars
  <1>2. ASSUME NEW s \in Sessions, NEW epoch \in Epochs, GetEpochTimeAsClock(s, epoch)
        PROVE  ClockInv'
    BY <1>2, ClockUnchanged DEF GetEpochTimeAsClock, IInv, shmemVars, seqVars, historyVars
  <1>3. ASSUME NEW s \in Sessions, InitClockAtFirstUse(s)
        PROVE  ClockInv'
    <2> DEFINE n == NodeOf[s]
    <2>1. n \in Nodes
      BY PointedIsClock DEF IInv
    <2>2. CASE n \in clockInitialized
      BY <1>3, <2>2, ClockUnchanged DEF InitClockAtFirstUse, IInv, seqVars, historyVars
    <2>3. CASE n \notin clockInitialized
      <3>1. PICK epoch \in Epochs : StartClock(n, <<epoch, 0>>)
        BY <1>3, <2>3 DEF InitClockAtFirstUse
      <3>2. /\ clusterClockValue'[n] \in Clocks /\ logged'[n] > sequence[n] /\ logged'[n] \in Nat
            /\ clusterClockValue'[n][1] > sequence[n]
        BY <2>1, <3>1, StartIsLarger DEF IInv
      <3>3. /\ floor[n] \in Clocks /\ floor[n][1] <= sequence[n] /\ sequence[n] \in Nat
        BY <2>1, <2>3 DEF IInv, TypeOK, ClockInv
      <3>4. ~After(floor[n], clusterClockValue'[n]) /\ floor[n][1] <= logged'[n]
        BY SMTT(30), Z3T(30), <3>2, <3>3, ClockFields DEF After
      <3>5. /\ clockInitialized' = clockInitialized \cup {n}
            /\ UNCHANGED <<flushed, floor, kept, stamp>>
        BY <1>3, <2>3, <3>1 DEF InitClockAtFirstUse, StartClock, historyVars
      <3>6. \A m \in Nodes \ {n} : /\ clusterClockValue'[m] = clusterClockValue[m]
                                   /\ sequence'[m] = sequence[m] /\ logged'[m] = logged[m]
        BY <2>1, <3>1, StartIsLarger DEF IInv
      <3> HIDE DEF n
      <3> QED
        BY <2>1, <3>4, <3>5, <3>6 DEF IInv, ClockInv
    <2> QED
      BY <2>2, <2>3
  <1>4. ASSUME NEW s \in Sessions, TickClock(s)
        PROVE  ClockInv'
    <2>1. NodeOf[s] \in Nodes /\ NodeOf[s] \in clockInitialized
      BY <1>4, PointedIsClock DEF TickClock, At, IInv, CheckedInv
    <2>2. clusterClockValue[NodeOf[s]] \in Clocks
      BY <2>1 DEF IInv, TypeOK
    <2>3. /\ IncrementClusterClock(clusterClockValue[NodeOf[s]]) \in Clocks
          /\ ~After(clusterClockValue[NodeOf[s]], IncrementClusterClock(clusterClockValue[NodeOf[s]]))
      BY <2>2, IncrementIsLarger, AfterIsTransitive
    <2> QED
      BY <1>4, <2>1, <2>3, ClockForward DEF TickClock, IInv
  <1>5. ASSUME NEW s \in Sessions, SaveClock(s)
        PROVE  ClockInv'
    <2>1. NodeOf[s] \in Nodes /\ NodeOf[s] \in clockInitialized /\ Pointed(s) \in Clocks
      BY <1>5, PointedIsClock DEF SaveClock, At, IInv, CheckedInv
    <2>2. ~After(clusterClockValue[NodeOf[s]], Pointed(s))
      BY <1>5 DEF SaveClock, IInv, SessionInv, Persisting
    <2> QED
      BY <1>5, <2>1, <2>2, ClockForward DEF SaveClock, Save, IInv
  <1>6. ASSUME NEW s \in Sessions, PersistClock(s)
        PROVE  ClockInv'
    <2>1. NodeOf[s] \in Nodes /\ NodeOf[s] \in clockInitialized
      BY <1>6, PointedIsClock DEF PersistClock, At, IInv, CheckedInv
    <2>2. clusterClockValue[NodeOf[s]] = Pointed(s)
      BY <1>6 DEF PersistClock, IInv, SessionInv, Persisting
    <2> QED
      BY <1>6, <2>1, <2>2, ClockPersisted DEF PersistClock, IInv
  <1>7. ASSUME NEW s \in Sessions, NEW field \in Fields, CopyField(s, field)
        PROVE  ClockInv'
    BY <1>7, ClockUnchanged DEF CopyField, IInv, shmemVars, seqVars, historyVars
  <1>8. ASSUME NEW s \in Sessions, NEW r \in Remotes[s], CollectClock(s, r)
        PROVE  ClockInv'
    BY <1>8, ClockUnchanged DEF CollectClock, IInv, shmemVars, seqVars, historyVars
  <1>9. ASSUME NEW s \in Sessions, AdjustClocksToTransactionHighest(s)
        PROVE  ClockInv'
    BY <1>9, ClockUnchanged
       DEF AdjustClocksToTransactionHighest, IInv, shmemVars, seqVars, historyVars
  <1>10. ASSUME NEW s \in Sessions, AdjustLocalClock(s)
        PROVE  ClockInv'
    <2>1. NodeOf[s] \in Nodes /\ NodeOf[s] \in clockInitialized /\ session[s].result \in Clocks
      BY <1>10, PointedIsClock DEF AdjustLocalClock, At, IInv, CheckedInv, SessionStates
    <2>2. CASE IsAheadOrEqual(clusterClockValue[NodeOf[s]], session[s].result)
      BY <1>10, <2>2, ClockUnchanged DEF AdjustLocalClock, IInv
    <2>3. CASE ~IsAheadOrEqual(clusterClockValue[NodeOf[s]], session[s].result)
      <3>1. clusterClockValue[NodeOf[s]] \in Clocks
        BY <2>1 DEF IInv, TypeOK
      <3>2. ~After(clusterClockValue[NodeOf[s]], session[s].result)
        BY <2>1, <2>3, <3>1, AfterIsTransitive DEF IsAheadOrEqual
      <3> QED
        BY <1>10, <2>1, <2>3, <3>2, ClockForward DEF AdjustLocalClock, Save, IInv
    <2> QED
      BY <2>2, <2>3
  <1>11. ASSUME NEW s \in Sessions, PersistAdjusted(s)
        PROVE  ClockInv'
    <2>1. NodeOf[s] \in Nodes /\ NodeOf[s] \in clockInitialized
      BY <1>11, PointedIsClock DEF PersistAdjusted, At, IInv, CheckedInv
    <2>2. clusterClockValue[NodeOf[s]] = session[s].result
      BY <1>11 DEF PersistAdjusted, IInv, SessionInv, Persisting
    <2> QED
      BY <1>11, <2>1, <2>2, ClockPersisted DEF PersistAdjusted, IInv
  <1>12. ASSUME NEW s \in Sessions, Rollback(s)
        PROVE  ClockInv'
    BY <1>12, ClockUnchanged DEF Rollback, IInv, shmemVars, seqVars, historyVars
  <1>13. ASSUME NEW s \in Sessions, CommitPart(s)
        PROVE  ClockInv'
    <2> DEFINE n == NodeOf[s]
    <2>1. n \in Nodes
      BY ConstantsAssumption
    <2>2. /\ flushed' = [flushed EXCEPT ![n] = logged[n]] /\ kept' = [kept EXCEPT ![n] = floor[n]]
          /\ stamp' = [stamp EXCEPT ![n] = IF At(s, "commit") THEN LargerClock(stamp[n], session[s].result)
                                                              ELSE stamp[n]]
          /\ UNCHANGED <<clusterClockValue, clockInitialized, sequence, logged, floor>>
      BY <1>13 DEF CommitPart, shmemVars
    <2>3. /\ stamp[n] \in Clocks /\ kept[n] \in Clocks /\ floor[n] \in Clocks /\ session[s].result \in Clocks
          /\ ~After(stamp[n], kept[n]) /\ ~After(kept[n], floor[n]) /\ floor[n][1] <= logged[n]
      BY <2>1 DEF IInv, TypeOK, SessionStates, ClockInv
    <2>4. ~After(stamp[n], floor[n]) /\ ~After(floor[n], floor[n])
      BY <2>3, AfterIsTransitive
    <2>5. At(s, "commit") => ~After(session[s].result, floor[n])
      BY DEF IInv, SessionInv, Persisting, At
    <2>6. kept'[n] = floor[n] /\ flushed'[n] = logged[n]
      BY <2>1, <2>2 DEF IInv, TypeOK
    <2>7. stamp'[n] = stamp[n] \/ (At(s, "commit") /\ stamp'[n] = LargerClock(stamp[n], session[s].result))
      BY <2>1, <2>2 DEF IInv, TypeOK
    <2>8. ~After(stamp'[n], floor[n])
      BY <2>4, <2>5, <2>7 DEF LargerClock
    <2>9. ASSUME NEW m \in Nodes, m # n
          PROVE  kept'[m] = kept[m] /\ flushed'[m] = flushed[m] /\ stamp'[m] = stamp[m]
      BY <2>2, <2>9 DEF IInv, TypeOK
    <2>10. ASSUME NEW m \in Nodes
           PROVE  ~After(stamp'[m], kept'[m]) /\ ~After(kept'[m], floor[m]) /\ kept'[m][1] <= flushed'[m]
      <3>1. CASE m = n
        BY <2>3, <2>4, <2>6, <2>8, <3>1
      <3>2. CASE m # n
        BY <2>9, <3>2 DEF IInv, ClockInv
      <3> QED
        BY <3>1, <3>2
    <2> QED
      BY <2>2, <2>10 DEF IInv, ClockInv
  <1>14. ASSUME NEW n \in Nodes, Crash(n)
        PROVE  ClockInv'
    <2>1. /\ stamp[n] \in Clocks /\ kept[n] \in Clocks /\ flushed[n] \in Nat
          /\ ~After(stamp[n], kept[n]) /\ kept[n][1] <= flushed[n]
      BY DEF IInv, TypeOK, ClockInv
    <2>2. ~After(kept[n], kept[n])
      BY <2>1, AfterIsTransitive
    <2> QED
      BY <1>14, <2>1, <2>2 DEF Crash, IInv, TypeOK, ClockInv
  <1>15. CASE UNCHANGED vars
    BY <1>15, ClockUnchanged DEF vars, IInv, shmemVars, seqVars, historyVars
  <1>16. ASSUME NEW s \in Sessions, StartCommit(s)
        PROVE  ClockInv'
    BY <1>16, ClockUnchanged DEF StartCommit, IInv, shmemVars
  <1> QED
    BY <1>1, <1>2, <1>3, <1>4, <1>5, <1>6, <1>7, <1>8, <1>9, <1>10, <1>11, <1>12, <1>13, <1>14, <1>15, <1>16
       DEF Next, SessionStep

-----------------------------------------------------------------------------
(* What a session is about to persist                                      *)

\* A session and the clock of its node are left alone, and the lock is not released.
LEMMA SessionUntouched ==
  ASSUME NEW t \in Sessions, Persisting(t), session'[t] = session[t],
         clusterClockValue'[NodeOf[t]] = clusterClockValue[NodeOf[t]],
         floor'[NodeOf[t]] = floor[NodeOf[t]],
         Locked(NodeOf[t]) => Locked(NodeOf[t])'
  PROVE  Persisting(t)'
PROOF BY DEF Persisting, Pointed, At

\* A session that does nothing with the clock.
LEMMA SessionAtRest ==
  ASSUME NEW t \in Sessions, session'[t].pc \in {"idle", "start", "init", "tick", "lost"}
  PROVE  Persisting(t)'
PROOF BY DEF Persisting, Locking, At

\* Another session of the node has taken the lock, or moves the clock under it.
LEMMA SessionLockedOut ==
  ASSUME NEW t \in Sessions, Persisting(t), session'[t] = session[t],
         session[t].pc \notin Locking, floor'[NodeOf[t]] = floor[NodeOf[t]], Locked(NodeOf[t])'
  PROVE  Persisting(t)'
PROOF BY DEF Persisting, Locking, At

\* Another session of the node has persisted the clock and released the lock.
LEMMA SessionAfterPersist ==
  ASSUME TypeOK, NEW t \in Sessions, Persisting(t), session'[t] = session[t],
         session[t].pc \notin Locking, After(clusterClockValue[NodeOf[t]], floor[NodeOf[t]]),
         UNCHANGED clusterClockValue,
         floor'[NodeOf[t]] = clusterClockValue[NodeOf[t]]
  PROVE  Persisting(t)'
PROOF
  <1>1. /\ session[t].result \in Clocks /\ floor[NodeOf[t]] \in Clocks
        /\ clusterClockValue[NodeOf[t]] \in Clocks
    BY SMTT(30), Z3T(30), ConstantsAssumption DEF TypeOK, SessionStates
  <1>2. session[t].pc \in {"adjusted", "commit"} => ~After(session[t].result, clusterClockValue[NodeOf[t]])
    BY SMTT(30), Z3T(30), <1>1, AfterIsTransitive DEF Persisting
  <1> QED
    BY <1>2 DEF Persisting, Locking, At

\* clockLock: no other session of the node is between its tick and its setval.
LEMMA OnlyHolder ==
  ASSUME LockInv, NEW s \in Sessions, NEW t \in Sessions, t # s, NodeOf[t] = NodeOf[s],
         session[s].pc \in Locking \/ ~Locked(NodeOf[s])
  PROVE  session[t].pc \notin Locking
PROOF BY DEF LockInv, Locked

\* Whoever holds the lock persists more than was persisted before, and leaves the shared
\* clock equal to it.
LEMMA PersistingStep ==
  ASSUME IInv, [Next]_vars
  PROVE  SessionInv'
PROOF
  <1>1. ASSUME NEW s \in Sessions, CallClock(s)
        PROVE  SessionInv'
    <2> SUFFICES ASSUME NEW t \in Sessions PROVE Persisting(t)'
      BY DEF SessionInv
    <2>1. Persisting(t)
      BY DEF IInv, SessionInv
    <2>2. Locked(NodeOf[t]) => Locked(NodeOf[t])'
      BY <1>1 DEF CallClock, Locked, shmemVars
    <2>3. clusterClockValue' = clusterClockValue /\ floor' = floor
      BY <1>1 DEF CallClock, shmemVars, seqVars, historyVars
    <2>4. CASE t \in {s} \cup Remotes[s]
      <3>1. session'[t].pc \in {"idle", "start", "init", "tick", "lost"}
        BY <1>1, <2>4 DEF CallClock, Idle
      <3> QED
        BY <3>1, SessionAtRest
    <2>5. CASE ~(t \in {s} \cup Remotes[s])
      <3>1. session'[t] = session[t]
        BY <1>1, <2>5 DEF CallClock
      <3> QED
        BY <2>1, <2>2, <2>3, <3>1, SessionUntouched
    <2> QED
      BY <2>4, <2>5
  <1>2. ASSUME NEW s \in Sessions, NEW epoch \in Epochs, GetEpochTimeAsClock(s, epoch)
        PROVE  SessionInv'
    <2> SUFFICES ASSUME NEW t \in Sessions PROVE Persisting(t)'
      BY SMTT(30), Z3T(30) DEF SessionInv
    <2>1. Persisting(t)
      BY DEF IInv, SessionInv
    <2>2. Locked(NodeOf[t]) => Locked(NodeOf[t])'
      BY <1>2 DEF GetEpochTimeAsClock, Locked, shmemVars
    <2>3. clusterClockValue' = clusterClockValue /\ floor' = floor
      BY <1>2 DEF GetEpochTimeAsClock, shmemVars, seqVars, historyVars
    <2>4. CASE t = s
      <3>1. session'[t].pc \in {"idle", "start", "init", "tick", "lost"}
        BY SMTT(30), Z3T(30), <1>2, <2>4 DEF GetEpochTimeAsClock, IInv, TypeOK, SessionStates
      <3> QED
        BY <3>1, SessionAtRest
    <2>5. CASE ~(t = s)
      <3>1. session'[t] = session[t]
        BY <1>2, <2>5 DEF GetEpochTimeAsClock, IInv, TypeOK
      <3> QED
        BY <2>1, <2>2, <2>3, <3>1, SessionUntouched
    <2> QED
      BY SMTT(30), Z3T(30), <2>4, <2>5
  <1>3. ASSUME NEW s \in Sessions, InitClockAtFirstUse(s)
        PROVE  SessionInv'
    <2> SUFFICES ASSUME NEW t \in Sessions PROVE Persisting(t)'
      BY DEF SessionInv
    <2>1. Persisting(t)
      BY DEF IInv, SessionInv
    <2>2. Locked(NodeOf[t]) => Locked(NodeOf[t])'
      BY <1>3 DEF InitClockAtFirstUse, Locked
    <2>3. CASE t = s
      <3>1. session'[t].pc \in {"idle", "start", "init", "tick", "lost"}
        BY SMTT(30), Z3T(30), <1>3, <2>3 DEF InitClockAtFirstUse, Go, IInv, TypeOK, SessionStates
      <3> QED
        BY <3>1, SessionAtRest
    <2>4. CASE t # s
      <3>1. session'[t] = session[t] /\ floor' = floor
        BY <1>3, <2>4 DEF InitClockAtFirstUse, Go, IInv, TypeOK, historyVars
      <3>2. NodeOf[s] \in Nodes /\ NodeOf[t] \in Nodes
        BY ConstantsAssumption
      <3>3. CASE clusterClockValue'[NodeOf[t]] = clusterClockValue[NodeOf[t]]
        BY <2>1, <2>2, <3>1, <3>3, SessionUntouched
      <3>4. CASE clusterClockValue'[NodeOf[t]] # clusterClockValue[NodeOf[t]]
        <4>1. NodeOf[t] = NodeOf[s] /\ NodeOf[s] \notin clockInitialized
          <5>1. NodeOf[s] \notin clockInitialized
            BY <1>3, <3>4 DEF InitClockAtFirstUse
          <5>2. PICK epoch \in Epochs : StartClock(NodeOf[s], <<epoch, 0>>)
            BY <1>3, <5>1 DEF InitClockAtFirstUse
          <5>3. NodeOf[t] = NodeOf[s]
            BY <3>2, <3>4, <5>2 DEF StartClock, IInv, TypeOK
          <5> QED
            BY <5>1, <5>3
        <4>2. session'[t].pc \in {"idle", "start", "init", "tick", "lost"}
          BY <3>1, <4>1 DEF IInv, CheckedInv
        <4> QED
          BY <4>2, SessionAtRest
      <3> QED
        BY <3>3, <3>4
    <2> QED
      BY <2>3, <2>4
  <1>4. ASSUME NEW s \in Sessions, TickClock(s)
        PROVE  SessionInv'
    <2> SUFFICES ASSUME NEW t \in Sessions PROVE Persisting(t)'
      BY DEF SessionInv
    <2>1. Persisting(t)
      BY DEF IInv, SessionInv
    <2> DEFINE n == NodeOf[s]
    <2> DEFINE ticked == IncrementClusterClock(clusterClockValue[n])
    <2>2. n \in Nodes /\ n \in clockInitialized
      BY <1>4, PointedIsClock DEF TickClock, At, IInv, CheckedInv
    <2>3. clusterClockValue[n] \in Clocks /\ floor[n] \in Clocks /\ ~After(floor[n], clusterClockValue[n])
      BY <2>2 DEF IInv, TypeOK, ClockInv
    <2>4. ticked \in Clocks /\ After(ticked, clusterClockValue[n])
      BY <2>3, IncrementIsLarger
    <2>5. After(ticked, floor[n]) /\ ~After(ticked, ticked)
      BY <2>3, <2>4, AfterIsTransitive
    <2>6. clusterClockValue'[n] = ticked /\ floor' = floor
      BY <1>4, <2>2 DEF TickClock, IInv, TypeOK, historyVars
    <2>7. CASE t = s
      <3>1. /\ session'[s].pc = "save" /\ session'[s].epoch = session[s].epoch
            /\ session'[s].source = IF After(ticked, session[s].epoch) THEN "shared" ELSE "epoch"
        BY SMTT(30), Z3T(30), <1>4 DEF TickClock, IInv, TypeOK, SessionStates
      <3>2. ~After(ticked, Pointed(s)')
        BY <2>5, <2>6, <3>1 DEF Pointed
      <3> HIDE DEF ticked
      <3> QED
        BY <2>5, <2>6, <2>7, <3>1, <3>2 DEF Persisting, Locking, At
    <2>8. CASE t # s /\ NodeOf[t] = NodeOf[s]
      <3>1. session'[t] = session[t] /\ floor' = floor
        BY <1>4, <2>8 DEF TickClock, Go, IInv, TypeOK, historyVars
      <3>2. Locked(NodeOf[t])'
        BY <1>4, <2>8, ConstantsAssumption DEF TickClock, Locked
      <3>3. session[t].pc \notin Locking
        BY <1>4, <2>8, OnlyHolder DEF TickClock, IInv, At, Locking
      <3> QED
        BY <2>1, <3>1, <3>2, <3>3, SessionLockedOut
    <2>9. CASE NodeOf[t] # NodeOf[s]
      <3>1. session'[t] = session[t] /\ floor' = floor
        BY <1>4, <2>9 DEF TickClock, Go, IInv, TypeOK, historyVars
      <3>2. clusterClockValue'[NodeOf[t]] = clusterClockValue[NodeOf[t]]
        BY <1>4, <2>9, ConstantsAssumption DEF TickClock, Save, IInv, TypeOK
      <3>3. Locked(NodeOf[t]) => Locked(NodeOf[t])'
        BY <1>4 DEF TickClock, Locked
      <3> QED
        BY <2>1, <3>1, <3>2, <3>3, SessionUntouched
    <2> QED
      BY <2>7, <2>8, <2>9
  <1>5. ASSUME NEW s \in Sessions, SaveClock(s)
        PROVE  SessionInv'
    <2> SUFFICES ASSUME NEW t \in Sessions PROVE Persisting(t)'
      BY DEF SessionInv
    <2>1. Persisting(t)
      BY DEF IInv, SessionInv
    <2> DEFINE n == NodeOf[s]
    <2>2. n \in Nodes /\ Pointed(s) \in Clocks
      BY PointedIsClock DEF IInv
    <2>3. clusterClockValue[n] \in Clocks /\ floor[n] \in Clocks
      BY <2>2 DEF IInv, TypeOK
    <2>4. After(clusterClockValue[n], floor[n]) /\ ~After(clusterClockValue[n], Pointed(s))
      BY <1>5 DEF SaveClock, IInv, SessionInv, Persisting, Locking, At
    <2>5. After(Pointed(s), floor[n])
      BY <2>2, <2>3, <2>4, AfterIsTransitive
    <2>6. clusterClockValue'[n] = Pointed(s) /\ floor' = floor
      BY <1>5, <2>2 DEF SaveClock, Save, IInv, TypeOK, historyVars
    <2>7. CASE t = s
      <3>1. /\ session'[s].pc = "persist" /\ session'[s].epoch = session[s].epoch
            /\ session'[s].source = session[s].source
        BY SMTT(30), Z3T(30), <1>5 DEF SaveClock, Go, IInv, TypeOK, SessionStates
      <3>2. clusterClockValue'[n] = Pointed(s)'
        BY <2>6, <3>1 DEF Pointed
      <3> QED
        BY <2>5, <2>6, <2>7, <3>1, <3>2 DEF Persisting, Locking, At
    <2>8. CASE t # s /\ NodeOf[t] = NodeOf[s]
      <3>1. session'[t] = session[t] /\ floor' = floor
        BY <1>5, <2>8 DEF SaveClock, Go, IInv, TypeOK, historyVars
      <3>2. Locked(NodeOf[t])'
        BY <1>5, <2>8, <2>2 DEF SaveClock, At, IInv, LockInv, Locking, Locked
      <3>3. session[t].pc \notin Locking
        BY <1>5, <2>8, OnlyHolder DEF SaveClock, IInv, At, Locking
      <3> QED
        BY <2>1, <3>1, <3>2, <3>3, SessionLockedOut
    <2>9. CASE NodeOf[t] # NodeOf[s]
      <3>1. session'[t] = session[t] /\ floor' = floor
        BY <1>5, <2>9 DEF SaveClock, Go, IInv, TypeOK, historyVars
      <3>2. clusterClockValue'[NodeOf[t]] = clusterClockValue[NodeOf[t]]
        BY <1>5, <2>9, ConstantsAssumption DEF SaveClock, Save, IInv, TypeOK
      <3>3. Locked(NodeOf[t]) => Locked(NodeOf[t])'
        BY <1>5 DEF SaveClock, Locked
      <3> QED
        BY <2>1, <3>1, <3>2, <3>3, SessionUntouched
    <2> QED
      BY <2>7, <2>8, <2>9
  <1>6. ASSUME NEW s \in Sessions, PersistClock(s)
        PROVE  SessionInv'
    <2> SUFFICES ASSUME NEW t \in Sessions PROVE Persisting(t)'
      BY DEF SessionInv
    <2>1. Persisting(t)
      BY DEF IInv, SessionInv
    <2> DEFINE n == NodeOf[s]
    <2>2. n \in Nodes
      BY ConstantsAssumption
    <2>3. /\ clusterClockValue[n] = Pointed(s) /\ After(clusterClockValue[n], floor[n])
          /\ session[s].pc \in Locking
      BY <1>6 DEF PersistClock, IInv, SessionInv, Persisting, Locking, At
    <2>4. floor'[n] = clusterClockValue[n] /\ clusterClockValue' = clusterClockValue
      BY <1>6, <2>2, <2>3 DEF PersistClock, Persist, IInv, TypeOK
    <2>5. CASE t = s
      <3>1. session'[s].pc = "copy" /\ session'[s].result = session[s].result
        BY SMTT(30), Z3T(30), <1>6 DEF PersistClock, Go, IInv, TypeOK, SessionStates
      <3>2. clusterClockValue[n] \in Clocks
        BY <2>2 DEF IInv, TypeOK
      <3>3. ~After(clusterClockValue[n], clusterClockValue[n])
        BY <3>2, AfterIsTransitive
      <3> QED
        BY <2>3, <2>4, <2>5, <3>1, <3>3 DEF Persisting, Locking, At
    <2>6. CASE t # s /\ NodeOf[t] = n
      <3>1. session'[t] = session[t]
        BY <1>6, <2>6 DEF PersistClock, Go, IInv, TypeOK
      <3>2. session[t].pc \notin Locking
        BY <2>3, <2>6, OnlyHolder DEF IInv
      <3> QED
        BY <2>1, <2>3, <2>4, <2>6, <3>1, <3>2, SessionAfterPersist DEF IInv
    <2>7. CASE NodeOf[t] # n
      <3>1. session'[t] = session[t]
        BY <1>6, <2>7 DEF PersistClock, Go, IInv, TypeOK
      <3>2. floor'[NodeOf[t]] = floor[NodeOf[t]]
        BY <1>6, <2>7, ConstantsAssumption DEF PersistClock, Persist, IInv, TypeOK
      <3>3. Locked(NodeOf[t]) => Locked(NodeOf[t])'
        BY <1>6, <2>7 DEF PersistClock, Locked
      <3> QED
        BY <2>1, <2>4, <3>1, <3>2, <3>3, SessionUntouched
    <2> QED
      BY <2>5, <2>6, <2>7
  <1>7. ASSUME NEW s \in Sessions, NEW field \in Fields, CopyField(s, field)
        PROVE  SessionInv'
    <2> SUFFICES ASSUME NEW t \in Sessions PROVE Persisting(t)'
      BY DEF SessionInv
    <2>1. Persisting(t)
      BY DEF IInv, SessionInv
    <2>2. Locked(NodeOf[t]) => Locked(NodeOf[t])'
      BY <1>7 DEF CopyField, Locked, shmemVars
    <2>3. clusterClockValue' = clusterClockValue /\ floor' = floor
      BY <1>7 DEF CopyField, shmemVars, seqVars, historyVars
    <2>4. CASE t = s
      <3>1. session[t].pc \in {"copy"} /\ session'[t].pc \in {"copy", "done", "collect"}
        BY <1>7, <2>4, CopyFieldSessions DEF IInv
      <3>2. Locked(NodeOf[t])' = Locked(NodeOf[t])
        BY <1>7 DEF CopyField, Locked, shmemVars
      <3> QED
        BY <2>1, <2>3, <3>1, <3>2 DEF Persisting, Locking, At
    <2>5. CASE ~(t = s)
      <3>1. session'[t] = session[t]
        BY <1>7, <2>5 DEF CopyField, IInv, TypeOK
      <3> QED
        BY <2>1, <2>2, <2>3, <3>1, SessionUntouched
    <2> QED
      BY <2>4, <2>5
  <1>8. ASSUME NEW s \in Sessions, NEW r \in Remotes[s], CollectClock(s, r)
        PROVE  SessionInv'
    <2> SUFFICES ASSUME NEW t \in Sessions PROVE Persisting(t)'
      BY SMTT(30), Z3T(30) DEF SessionInv
    <2>1. Persisting(t)
      BY DEF IInv, SessionInv
    <2>2. Locked(NodeOf[t]) => Locked(NodeOf[t])'
      BY <1>8 DEF CollectClock, Locked, shmemVars
    <2>3. clusterClockValue' = clusterClockValue /\ floor' = floor
      BY <1>8 DEF CollectClock, shmemVars, seqVars, historyVars
    <2>4. CASE t = s
      <3>1. session[t].pc \in {"collect"} /\ session'[t].pc \in {"collect"}
        BY SMTT(30), Z3T(30), <1>8, <2>4 DEF CollectClock, At, IInv, TypeOK, SessionStates
      <3>2. Locked(NodeOf[t])' = Locked(NodeOf[t])
        BY <1>8 DEF CollectClock, Locked, shmemVars
      <3> QED
        BY <2>1, <2>3, <3>1, <3>2 DEF Persisting, Locking, At
    <2>5. CASE ~(t = s)
      <3>1. session'[t] = session[t]
        BY <1>8, <2>5 DEF CollectClock, IInv, TypeOK
      <3> QED
        BY <2>1, <2>2, <2>3, <3>1, SessionUntouched
    <2> QED
      BY <2>4, <2>5
  <1>9. ASSUME NEW s \in Sessions, AdjustClocksToTransactionHighest(s)
        PROVE  SessionInv'
    <2> SUFFICES ASSUME NEW t \in Sessions PROVE Persisting(t)'
      BY DEF SessionInv
    <2>1. Persisting(t)
      BY DEF IInv, SessionInv
    <2>2. Locked(NodeOf[t]) => Locked(NodeOf[t])'
      BY <1>9 DEF AdjustClocksToTransactionHighest, Locked, shmemVars
    <2>3. clusterClockValue' = clusterClockValue /\ floor' = floor
      BY <1>9 DEF AdjustClocksToTransactionHighest, shmemVars, seqVars, historyVars
    <2>4. CASE t \in {s} \cup Remotes[s]
      <3>1. session[t].pc \in {"collect", "done"} /\ session'[t].pc \in {"adjust"}
        BY SMTT(30), Z3T(30), <1>9, <2>4, AdjustSessions DEF IInv
      <3>2. Locked(NodeOf[t])' = Locked(NodeOf[t])
        BY <1>9 DEF AdjustClocksToTransactionHighest, Locked, shmemVars
      <3> QED
        BY <2>1, <2>3, <3>1, <3>2 DEF Persisting, Locking, At
    <2>5. CASE ~(t \in {s} \cup Remotes[s])
      <3>1. session'[t] = session[t]
        BY <1>9, <2>5 DEF AdjustClocksToTransactionHighest
      <3> QED
        BY <2>1, <2>2, <2>3, <3>1, SessionUntouched
    <2> QED
      BY <2>4, <2>5
  <1>10. ASSUME NEW s \in Sessions, AdjustLocalClock(s)
        PROVE  SessionInv'
    <2> SUFFICES ASSUME NEW t \in Sessions PROVE Persisting(t)'
      BY DEF SessionInv
    <2>1. Persisting(t)
      BY DEF IInv, SessionInv
    <2>2. CASE IsAheadOrEqual(clusterClockValue[NodeOf[s]], session[s].result)
      <3>1. /\ clusterClockValue' = clusterClockValue /\ floor' = floor
            /\ Locked(NodeOf[t])' = Locked(NodeOf[t])
        BY <1>10, <2>2 DEF AdjustLocalClock, Locked, historyVars
      <3>2. CASE t = s
        <4>1. session[s].pc = "adjust" /\ ~Locked(NodeOf[s])
          BY <1>10 DEF AdjustLocalClock, At
        <4>2. clusterClockValue[NodeOf[s]] = floor[NodeOf[s]]
          BY <2>1, <3>2, <4>1 DEF Persisting
        <4>3. session'[s].pc = "adjusted" /\ session'[s].result = session[s].result
          BY SMTT(30), Z3T(30), <1>10, <2>2 DEF AdjustLocalClock, Go, IInv, TypeOK, SessionStates
        <4> QED
          BY <2>2, <3>1, <3>2, <4>2, <4>3 DEF Persisting, Locking, At, IsAheadOrEqual
      <3>3. CASE t # s
        <4>1. session'[t] = session[t]
          BY <1>10, <2>2, <3>3 DEF AdjustLocalClock, Go, IInv, TypeOK
        <4> QED
          BY <2>1, <3>1, <4>1, SessionUntouched
      <3> QED
        BY <3>2, <3>3
    <2>3. CASE ~IsAheadOrEqual(clusterClockValue[NodeOf[s]], session[s].result)
      <3> DEFINE n == NodeOf[s]
      <3>2. n \in Nodes /\ n \in clockInitialized /\ session[s].result \in Clocks
        BY <1>10, PointedIsClock DEF AdjustLocalClock, At, IInv, CheckedInv, SessionStates
      <3>3. clusterClockValue[n] \in Clocks /\ floor[n] \in Clocks /\ ~After(floor[n], clusterClockValue[n])
        BY <3>2 DEF IInv, TypeOK, ClockInv
      <3>4. After(session[s].result, clusterClockValue[n])
        BY <1>10, <2>3 DEF IsAheadOrEqual
      <3>5. After(session[s].result, floor[n])
        BY <3>2, <3>3, <3>4, AfterIsTransitive
      <3>6. clusterClockValue'[n] = session[s].result /\ floor' = floor
        BY <1>10, <2>3, <3>2 DEF AdjustLocalClock, Save, IInv, TypeOK, historyVars
      <3>7. CASE t = s
        <4>1. session'[s].pc = "persist_adjusted" /\ session'[s].result = session[s].result
          BY SMTT(30), Z3T(30), <1>10, <2>3 DEF AdjustLocalClock, Go, IInv, TypeOK, SessionStates
        <4> QED
          BY <3>5, <3>6, <3>7, <4>1 DEF Persisting, Locking, At
      <3>8. CASE t # s /\ NodeOf[t] = NodeOf[s]
        <4>1. session'[t] = session[t] /\ floor' = floor
          BY <1>10, <2>3, <3>8 DEF AdjustLocalClock, Go, IInv, TypeOK, historyVars
        <4>2. Locked(NodeOf[t])'
          BY <1>10, <3>8, <2>3 DEF AdjustLocalClock, Locked
        <4>3. session[t].pc \notin Locking
          BY <1>10, <3>8, OnlyHolder DEF AdjustLocalClock, IInv, At, Locking
        <4> QED
          BY <2>1, <4>1, <4>2, <4>3, SessionLockedOut
      <3>9. CASE NodeOf[t] # NodeOf[s]
        <4>1. session'[t] = session[t] /\ floor' = floor
          BY SMTT(30), Z3T(30), <1>10, <2>3, <3>9 DEF AdjustLocalClock, Go, IInv, TypeOK, historyVars
        <4>2. clusterClockValue'[NodeOf[t]] = clusterClockValue[NodeOf[t]]
          BY SMTT(30), Z3T(30), <1>10, <2>3, <3>9, ConstantsAssumption DEF AdjustLocalClock, Save, IInv, TypeOK
        <4>3. Locked(NodeOf[t]) => Locked(NodeOf[t])'
          BY <1>10, <2>3 DEF AdjustLocalClock, Locked
        <4> QED
          BY <2>1, <4>1, <4>2, <4>3, SessionUntouched
      <3> QED
        BY <3>7, <3>8, <3>9
    <2> QED
      BY <2>2, <2>3
  <1>11. ASSUME NEW s \in Sessions, PersistAdjusted(s)
        PROVE  SessionInv'
    <2> SUFFICES ASSUME NEW t \in Sessions PROVE Persisting(t)'
      BY DEF SessionInv
    <2>1. Persisting(t)
      BY DEF IInv, SessionInv
    <2> DEFINE n == NodeOf[s]
    <2>2. n \in Nodes
      BY ConstantsAssumption
    <2>3. /\ clusterClockValue[n] = session[s].result /\ After(clusterClockValue[n], floor[n])
          /\ session[s].pc \in Locking
      BY <1>11 DEF PersistAdjusted, IInv, SessionInv, Persisting, Locking, At
    <2>4. floor'[n] = clusterClockValue[n] /\ clusterClockValue' = clusterClockValue
      BY <1>11, <2>2, <2>3 DEF PersistAdjusted, Persist, IInv, TypeOK
    <2>5. CASE t = s
      <3>1. session'[s].pc = "adjusted" /\ session'[s].result = session[s].result
        BY SMTT(30), Z3T(30), <1>11 DEF PersistAdjusted, Go, IInv, TypeOK, SessionStates
      <3>2. clusterClockValue[n] \in Clocks
        BY <2>2 DEF IInv, TypeOK
      <3>3. ~After(clusterClockValue[n], clusterClockValue[n])
        BY <3>2, AfterIsTransitive
      <3> QED
        BY <2>3, <2>4, <2>5, <3>1, <3>3 DEF Persisting, Locking, At
    <2>6. CASE t # s /\ NodeOf[t] = n
      <3>1. session'[t] = session[t]
        BY <1>11, <2>6 DEF PersistAdjusted, Go, IInv, TypeOK
      <3>2. session[t].pc \notin Locking
        BY <2>3, <2>6, OnlyHolder DEF IInv
      <3> QED
        BY <2>1, <2>3, <2>4, <2>6, <3>1, <3>2, SessionAfterPersist DEF IInv
    <2>7. CASE NodeOf[t] # n
      <3>1. session'[t] = session[t]
        BY <1>11, <2>7 DEF PersistAdjusted, Go, IInv, TypeOK
      <3>2. floor'[NodeOf[t]] = floor[NodeOf[t]]
        BY <1>11, <2>7, ConstantsAssumption DEF PersistAdjusted, Persist, IInv, TypeOK
      <3>3. Locked(NodeOf[t]) => Locked(NodeOf[t])'
        BY <1>11, <2>7 DEF PersistAdjusted, Locked
      <3> QED
        BY <2>1, <2>4, <3>1, <3>2, <3>3, SessionUntouched
    <2> QED
      BY <2>5, <2>6, <2>7
  <1>12. ASSUME NEW s \in Sessions, Rollback(s)
        PROVE  SessionInv'
    <2> SUFFICES ASSUME NEW t \in Sessions PROVE Persisting(t)'
      BY DEF SessionInv
    <2>1. Persisting(t)
      BY DEF IInv, SessionInv
    <2>2. Locked(NodeOf[t]) => Locked(NodeOf[t])'
      BY <1>12 DEF Rollback, Locked, shmemVars
    <2>3. clusterClockValue' = clusterClockValue /\ floor' = floor
      BY <1>12 DEF Rollback, shmemVars, seqVars, historyVars
    <2>4. CASE t = s
      <3>1. session'[t].pc \in {"idle", "start", "init", "tick", "lost"}
        BY <1>12, <2>4 DEF Rollback, Idle, IInv, TypeOK
      <3> QED
        BY <3>1, SessionAtRest
    <2>5. CASE ~(t = s)
      <3>1. session'[t] = session[t]
        BY <1>12, <2>5 DEF Rollback, IInv, TypeOK
      <3> QED
        BY <2>1, <2>2, <2>3, <3>1, SessionUntouched
    <2> QED
      BY <2>4, <2>5
  <1>13. ASSUME NEW s \in Sessions, CommitPart(s)
        PROVE  SessionInv'
    <2> SUFFICES ASSUME NEW t \in Sessions PROVE Persisting(t)'
      BY DEF SessionInv
    <2>1. Persisting(t)
      BY DEF IInv, SessionInv
    <2>2. Locked(NodeOf[t]) => Locked(NodeOf[t])'
      BY <1>13 DEF CommitPart, Locked, shmemVars
    <2>3. clusterClockValue' = clusterClockValue /\ floor' = floor
      BY <1>13 DEF CommitPart, shmemVars
    <2>4. CASE t = s
      <3>1. session'[t].pc \in {"idle", "start", "init", "tick", "lost"}
        BY <1>13, <2>4 DEF CommitPart, Idle, IInv, TypeOK
      <3> QED
        BY <3>1, SessionAtRest
    <2>5. CASE t # s
      <3>1. session'[t] = session[t]
        BY <1>13, <2>5 DEF CommitPart, IInv, TypeOK
      <3> QED
        BY <2>1, <2>2, <2>3, <3>1, SessionUntouched
    <2> QED
      BY <2>4, <2>5
  <1>14. ASSUME NEW n \in Nodes, Crash(n)
        PROVE  SessionInv'
    <2> SUFFICES ASSUME NEW t \in Sessions PROVE Persisting(t)'
      BY DEF SessionInv
    <2>1. Persisting(t)
      BY DEF IInv, SessionInv
    <2>2. CASE NodeOf[t] = n
      <3>1. session'[t].pc \in {"idle", "start", "init", "tick", "lost"}
        BY <1>14, <2>2 DEF Crash, Idle
      <3> QED
        BY <3>1, SessionAtRest
    <2>3. CASE NodeOf[t] # n
      <3>1. session'[t] = session[t]
        BY <1>14, <2>3 DEF Crash
      <3>2. /\ clusterClockValue'[NodeOf[t]] = clusterClockValue[NodeOf[t]]
            /\ floor'[NodeOf[t]] = floor[NodeOf[t]]
        BY <1>14, <2>3, ConstantsAssumption DEF Crash, IInv, TypeOK
      <3>3. Locked(NodeOf[t]) => Locked(NodeOf[t])'
        BY <1>14, <2>3 DEF Crash, Locked
      <3> QED
        BY <2>1, <3>1, <3>2, <3>3, SessionUntouched
    <2> QED
      BY <2>2, <2>3
  <1>15. CASE UNCHANGED vars
    BY SMTT(30), Z3T(30), <1>15 DEF vars, shmemVars, historyVars, IInv, SessionInv, Persisting, Pointed, Locked, At
  <1>16. ASSUME NEW s \in Sessions, StartCommit(s)
        PROVE  SessionInv'
    <2> SUFFICES ASSUME NEW t \in Sessions PROVE Persisting(t)'
      BY DEF SessionInv
    <2>1. Persisting(t)
      BY DEF IInv, SessionInv
    <2>2. Locked(NodeOf[t]) => Locked(NodeOf[t])'
      BY <1>16 DEF StartCommit, Locked, shmemVars
    <2>3. clusterClockValue' = clusterClockValue /\ floor' = floor
      BY <1>16 DEF StartCommit, shmemVars, historyVars
    <2>4. CASE session'[t] = session[t]
      BY <2>1, <2>2, <2>3, <2>4, SessionUntouched
    <2>5. CASE /\ session[t].pc = "adjusted" /\ session'[t].pc = "commit"
               /\ session'[t].result = session[t].result
      BY <2>1, <2>2, <2>3, <2>5 DEF Persisting, Locking, At
    <2> QED
      BY <1>16, <2>4, <2>5, StartCommitSessions DEF IInv
  <1> QED
    BY <1>1, <1>2, <1>3, <1>4, <1>5, <1>6, <1>7, <1>8, <1>9, <1>10, <1>11, <1>12, <1>13, <1>14, <1>15, <1>16
       DEF Next, SessionStep

-----------------------------------------------------------------------------
(* The theorems                                                            *)

\* The invariant holds of the state BackendManagementShmemInit and the new sequence are in.
LEMMA InitIInv == ASSUME Init PROVE IInv
PROOF
  <1>1. TypeOK
    BY SMTT(30), Z3T(30), ZeroIsClock, ConstantsAssumption DEF Init, TypeOK
  <1>2. \A s \in Sessions : session[s].pc = "idle"
    BY DEF Init, Idle
  <1>3. LockInv /\ CheckedInv
    BY <1>2 DEF Init, LockInv, CheckedInv, Locking
  <1>4. AdjustInv /\ SessionInv
    BY <1>2 DEF AdjustInv, SessionInv, Persisting, Locking, Adjusting, At
  <1>5. ~After(Zero, Zero) /\ Zero[1] = 0
    BY ZeroIsClock, AfterIsTransitive DEF Zero
  <1>6. \A n \in Nodes : /\ stamp[n] = Zero /\ kept[n] = Zero /\ floor[n] = Zero /\ clusterClockValue[n] = Zero
                         /\ sequence[n] = 0 /\ logged[n] = 0 /\ flushed[n] = 0
    BY DEF Init
  <1>7. ASSUME NEW n \in Nodes
        PROVE  /\ ~After(stamp[n], kept[n]) /\ ~After(kept[n], floor[n]) /\ ~After(floor[n], clusterClockValue[n])
               /\ floor[n][1] <= logged[n] /\ kept[n][1] <= flushed[n] /\ floor[n][1] <= sequence[n]
    BY SMTT(30), Z3T(30), <1>5, <1>6
  <1>8. ClockInv
    BY <1>7 DEF ClockInv
  <1> QED
    BY <1>1, <1>3, <1>4, <1>8 DEF IInv

\* IInv holds in every state: the lock, the initialisation at first use, the order of
\* saving and persisting, and the adjustment of all nodes of a transaction keep it.
THEOREM Invariance == Spec => []IInv
PROOF
  <1>1. Init => IInv
    BY InitIInv
  <1>2. IInv /\ [Next]_vars => IInv'
    <2> SUFFICES ASSUME IInv, [Next]_vars PROVE IInv'
      OBVIOUS
    <2>1. TypeOK' /\ LockInv' /\ CheckedInv' /\ AdjustInv'
      BY TypeStep, LockStep, CheckedStep, AdjustStep DEF IInv
    <2>2. ClockInv' /\ SessionInv'
      BY ClockStep, PersistingStep
    <2> QED
      BY <2>1, <2>2 DEF IInv
  <1> QED
    BY <1>1, <1>2, PTL DEF Spec

\* IncrementClusterClock never leaves a counter beyond MaxCounter, and what is copied,
\* collected, saved and persisted is a clock: every variable keeps its type.
THEOREM TypeCorrect == Spec => []TypeOK
PROOF
  <1>1. IInv => TypeOK
    BY DEF IInv
  <1> QED
    BY <1>1, Invariance, PTL

\* The clock of an initialised node is not below what was persisted or stamped on it.
LEMMA StampIsBelow ==
  ASSUME IInv, NEW n \in Nodes
  PROVE  IF n \in clockInitialized THEN ~After(stamp[n], clusterClockValue[n])
                                    ELSE sequence[n] >= stamp[n][1]
PROOF
  <1>1. /\ stamp[n] \in Clocks /\ kept[n] \in Clocks /\ floor[n] \in Clocks
        /\ clusterClockValue[n] \in Clocks /\ sequence[n] \in Nat
        /\ ~After(stamp[n], kept[n]) /\ ~After(kept[n], floor[n])
    BY DEF IInv, TypeOK, ClockInv
  <1>2. ~After(stamp[n], floor[n])
    BY <1>1, AfterIsTransitive
  <1>3. CASE n \in clockInitialized
    <2>1. ~After(floor[n], clusterClockValue[n])
      BY <1>3 DEF IInv, ClockInv
    <2> QED
      BY <1>1, <1>2, <1>3, <2>1, AfterIsTransitive
  <1>4. CASE n \notin clockInitialized
    <2>1. floor[n][1] <= sequence[n]
      BY <1>4 DEF IInv, ClockInv
    <2>2. stamp[n][1] <= floor[n][1]
      BY <1>1, <1>2, AfterIsTransitive
    <2> QED
      BY SMTT(30), Z3T(30), <1>1, <1>4, <2>1, <2>2, ClockFields
  <1> QED
    BY <1>3, <1>4

\* From the moment all nodes of a transaction have adjusted no clock of theirs is below the
\* transaction clock; once a node has committed its part its clock stays there, after any
\* number of restarts (AdjustClocksToTransactionHighest, CoordinatedRemoteTransactionsCommit).
THEOREM TransactionClocks == Spec => []TransactionClockIsKept
PROOF
  <1>1. ASSUME IInv, NEW s \in Sessions, session[s].pc \in {"adjusted", "commit"},
               NEW r \in {s} \cup Remotes[s], session[r].pc \in {"adjusted", "commit"}
        PROVE  ~After(session[s].result, clusterClockValue[NodeOf[r]])
    <2>1. r \in Sessions /\ NodeOf[r] \in Nodes
      BY ConstantsAssumption
    <2>2. session[r].result = session[s].result
      BY <1>1, <2>1 DEF IInv, AdjustInv, Adjusting
    <2>3. ~After(session[r].result, floor[NodeOf[r]])
      BY <1>1, <2>1 DEF IInv, SessionInv, Persisting
    <2>4. NodeOf[r] \in clockInitialized
      BY <1>1, <2>1 DEF IInv, CheckedInv
    <2>5. ~After(floor[NodeOf[r]], clusterClockValue[NodeOf[r]])
      BY <1>1, <2>1, <2>4 DEF IInv, ClockInv
    <2>6. /\ session[r].result \in Clocks /\ floor[NodeOf[r]] \in Clocks
          /\ clusterClockValue[NodeOf[r]] \in Clocks
      BY <1>1, <2>1 DEF IInv, TypeOK, SessionStates
    <2> QED
      BY <2>2, <2>3, <2>5, <2>6, AfterIsTransitive
  <1>2. IInv => TransactionClockIsKept
    BY <1>1, StampIsBelow DEF TransactionClockIsKept
  <1> QED
    BY <1>2, Invariance, PTL

\* Every value persisted on a node is larger than the one persisted before
\* (GetNextNodeClockValue, AdjustLocalClock).
THEOREM Forward == Spec => ClockMovesForward
PROOF
  <1>1. IInv /\ [Next]_vars =>
          [crashes' = crashes => \A n \in Nodes : floor'[n] = floor[n] \/ After(floor'[n], floor[n])]_vars
    <2> SUFFICES ASSUME IInv, Next, crashes' = crashes, NEW n \in Nodes
                 PROVE  floor'[n] = floor[n] \/ After(floor'[n], floor[n])
      OBVIOUS
    <2>1. ASSUME NEW s \in Sessions, PersistClock(s)
          PROVE  floor'[n] = floor[n] \/ After(floor'[n], floor[n])
      <3>1. After(Pointed(s), floor[NodeOf[s]])
        BY <2>1 DEF PersistClock, IInv, SessionInv, Persisting, Locking, At
      <3> QED
        BY <2>1, <3>1 DEF PersistClock, Persist, IInv, TypeOK
    <2>2. ASSUME NEW s \in Sessions, PersistAdjusted(s)
          PROVE  floor'[n] = floor[n] \/ After(floor'[n], floor[n])
      <3>1. After(session[s].result, floor[NodeOf[s]])
        BY <2>2 DEF PersistAdjusted, IInv, SessionInv, Persisting, Locking, At
      <3> QED
        BY <2>2, <3>1 DEF PersistAdjusted, Persist, IInv, TypeOK
    <2>3. ASSUME NEW m \in Nodes, Crash(m) PROVE FALSE
      BY SMTT(30), Z3T(30), <2>3 DEF Crash, IInv, TypeOK
    <2>4. ASSUME NEW s \in Sessions,
                 \/ CallClock(s) \/ InitClockAtFirstUse(s) \/ TickClock(s) \/ SaveClock(s)
                 \/ \E epoch \in Epochs : GetEpochTimeAsClock(s, epoch)
                 \/ \E field \in Fields : CopyField(s, field)
                 \/ \E r \in Remotes[s] : CollectClock(s, r)
          PROVE  floor' = floor
      BY <2>4
         DEF CallClock, GetEpochTimeAsClock, InitClockAtFirstUse, TickClock, SaveClock, CopyField,
                  CollectClock, historyVars
    <2>5. ASSUME NEW s \in Sessions,
                 \/ AdjustClocksToTransactionHighest(s) \/ AdjustLocalClock(s) \/ StartCommit(s) \/ Rollback(s)
                 \/ CommitPart(s)
          PROVE  floor' = floor
      BY <2>5
         DEF AdjustClocksToTransactionHighest, AdjustLocalClock, StartCommit, Rollback, CommitPart, historyVars
    <2> QED
      BY <2>1, <2>2, <2>3, <2>4, <2>5 DEF Next, SessionStep
  <1> QED
    BY <1>1, Invariance, PTL DEF Spec, ClockMovesForward
=============================================================================
