---------------------------- MODULE CausalClock ----------------------------
(***************************************************************************)
(* The hybrid logical clock of a cluster (causal_clock.c): a clock in the  *)
(* shared memory of each node under clockLock, the sequence in which its   *)
(* logical part is persisted, citus_get_node_clock, and                    *)
(* citus_get_transaction_clock, which polls the nodes of a transaction and *)
(* adjusts them to the highest value.                                      *)
(*                                                                         *)
(* A clock is a pair <<logical, counter>>.  Every reading of the wall      *)
(* clock may return any epoch: it may stand still, jump or go back.        *)
(***************************************************************************)
EXTENDS Naturals

CONSTANTS
  Nodes,
  Sessions,     \* backends
  NodeOf,       \* the node of a session
  Remotes,      \* Remotes[s]: the sessions that run the commands of s on other nodes
  Epochs,       \* readings of the wall clock
  MaxCounter,   \* MAX_COUNTER
  MaxLogical,   \* bound: no call starts once a clock has got here
  LogVals,      \* SEQ_LOG_VALS: how far ahead nextval writes the WAL
  MaxCrashes    \* bound on restarts

ASSUME ConstantsAssumption ==
  /\ NodeOf \in [Sessions -> Nodes]
  /\ Remotes \in [Sessions -> SUBSET Sessions]
  /\ \A s \in Sessions : \A r \in Remotes[s] : Remotes[r] = {} /\ NodeOf[r] # NodeOf[s]
  /\ \A s, t \in Sessions : s # t => Remotes[s] \cap Remotes[t] = {}
  /\ Epochs \subseteq Nat \ {0}
  /\ MaxCounter \in Nat \ {0} /\ MaxLogical \in Nat /\ LogVals \in Nat /\ MaxCrashes \in Nat

VARIABLES
  \* LogicalClockShmem of a node, and the sessions that hold clockLock of their node
  clusterClockValue, clockInitialized, holder,
  \* pg_dist_clock_logical_seq, the last value handed out or set (0: none yet): in shared
  \* buffers, in the WAL written so far, in the WAL that is flushed
  sequence, logged, flushed,
  checked,      \* the sessions with isClockInitChecked
  session,      \* what a session is doing
  \* histories
  floor,        \* the last value persisted on a node that no crash has lost
  kept,         \* the last value persisted on a node before a commit
  stamp,        \* the largest transaction clock whose part on a node has been committed there
  crashes

shmemVars == <<clusterClockValue, clockInitialized, holder>>
seqVars == <<sequence, logged, flushed>>
historyVars == <<floor, kept, stamp>>
vars == <<shmemVars, seqVars, checked, session, historyVars, crashes>>

Steps == {"idle", "start", "init", "tick", "save", "persist", "copy", "done", "collect",
          "adjust", "persist_adjusted", "adjusted", "commit", "lost"}
Fields == {"logical", "counter"}
Clocks == Nat \X (0..MaxCounter)
Zero == <<0, 0>>

\* epoch: epochValue; source: what the pointer clockValue refers to; unread: the fields
\* of *clockValue not copied yet; result: the clock to return; collected: the remotes
\* whose clock has arrived.
Idle == [pc |-> "idle", epoch |-> Zero, source |-> "epoch", unread |-> {}, result |-> Zero,
         collected |-> {}]

SessionStates == [pc : Steps, epoch : Clocks, source : {"epoch", "shared"}, unread : SUBSET Fields,
                  result : Clocks, collected : SUBSET Sessions]

TypeOK ==
  /\ clusterClockValue \in [Nodes -> Clocks] /\ clockInitialized \subseteq Nodes /\ holder \subseteq Sessions
  /\ sequence \in [Nodes -> Nat] /\ logged \in [Nodes -> Nat] /\ flushed \in [Nodes -> Nat]
  /\ checked \subseteq Sessions
  /\ session \in [Sessions -> SessionStates]
  /\ floor \in [Nodes -> Clocks] /\ kept \in [Nodes -> Clocks] /\ stamp \in [Nodes -> Clocks]
  /\ crashes \in 0..MaxCrashes

Init ==
  /\ clusterClockValue = [n \in Nodes |-> Zero] /\ clockInitialized = {} /\ holder = {}
  /\ sequence = [n \in Nodes |-> 0] /\ logged = sequence /\ flushed = sequence
  /\ checked = {} /\ session = [s \in Sessions |-> Idle]
  /\ floor = clusterClockValue /\ kept = floor /\ stamp = floor
  /\ crashes = 0

\* cluster_clock_cmp_internal(c, d) > 0
After(c, d) == c[1] > d[1] \/ (c[1] = d[1] /\ c[2] > d[2])

\* the second one when they are equal
LargerClock(c, d) == IF After(c, d) THEN c ELSE d

IncrementClusterClock_PastMax(c) == IF c[2] > MaxCounter THEN <<c[1] + 1, 0>> ELSE <<c[1], c[2] + 1>>

IncrementClusterClock(c) == IF c[2] = MaxCounter THEN <<c[1] + 1, 0>> ELSE <<c[1], c[2] + 1>>

Locked(n) == \E s \in holder : NodeOf[s] = n

IsRemote(s) == \E x \in Sessions : s \in Remotes[x]

At(s, step) == session[s].pc = step

Go(s, step) == session' = [session EXCEPT ![s].pc = step]

-----------------------------------------------------------------------------
(* GetNextNodeClockValue                                                   *)

\* citus_get_node_clock, or citus_get_transaction_clock, which first sends the query for
\* the node's clock to the remotes.
CallClock(s) ==
  LET called == {s} \cup Remotes[s] IN
  /\ ~IsRemote(s)
  /\ \A r \in called : At(r, "idle")
  /\ \A n \in Nodes : clusterClockValue[n][1] < MaxLogical /\ sequence[n] < MaxLogical
  /\ session' = [r \in Sessions |->
                   IF r \in called THEN [Idle EXCEPT !.pc = "start"] ELSE session[r]]
  /\ UNCHANGED <<shmemVars, seqVars, checked, historyVars, crashes>>

\* The wall clock is read first, outside the lock.
GetEpochTimeAsClock(s, epoch) ==
  /\ At(s, "start")
  /\ session' = [session EXCEPT ![s].epoch = <<epoch, 0>>,
                                ![s].pc = IF s \in checked THEN "tick" ELSE "init"]
  /\ UNCHANGED <<shmemVars, seqVars, checked, historyVars, crashes>>

\* The clock of node n starts with the wall clock, or with the value after the persisted
\* one if that is ahead.  nextval writes the WAL LogVals values ahead, setval does not.
StartClock(n, epoch) ==
  LET next == sequence[n] + 1
      drifted == next # 1 /\ After(<<next, 0>>, epoch)
  IN
  /\ clusterClockValue' = [clusterClockValue EXCEPT ![n] = IF drifted THEN <<next, 0>> ELSE epoch]
  /\ sequence' = [sequence EXCEPT ![n] = next]
  /\ logged' = [logged EXCEPT ![n] = IF drifted THEN next ELSE next + LogVals]
  /\ UNCHANGED flushed

InitClockAtFirstUse(s) ==
  LET n == NodeOf[s] IN
  /\ At(s, "init") /\ ~Locked(n)
  /\ IF n \in clockInitialized
       THEN UNCHANGED <<clusterClockValue, clockInitialized, seqVars>>
       ELSE /\ \E epoch \in Epochs : StartClock(n, <<epoch, 0>>)
            /\ clockInitialized' = clockInitialized \cup {n}
  /\ checked' = checked \cup {s}
  /\ Go(s, "tick")
  /\ UNCHANGED <<holder, historyVars, crashes>>

\* The lock is taken and the clock ticks in place; clockValue points to the shared clock
\* or to the wall clock this session has read.
TickClock(s) ==
  LET n == NodeOf[s]
      ticked == IncrementClusterClock(clusterClockValue[n])
  IN
  /\ At(s, "tick") /\ ~Locked(n)
  /\ holder' = holder \cup {s}
  /\ clusterClockValue' = [clusterClockValue EXCEPT ![n] = ticked]
  /\ session' = [session EXCEPT ![s].source = IF After(ticked, session[s].epoch) THEN "shared" ELSE "epoch",
                                ![s].pc = "save"]
  /\ UNCHANGED <<clockInitialized, seqVars, checked, historyVars, crashes>>

\* *clockValue at this moment
Pointed(s) == IF session[s].source = "epoch" THEN session[s].epoch ELSE clusterClockValue[NodeOf[s]]

\* SAVE_AND_PERSIST writes the shared memory, ...
Save(n, c) == clusterClockValue' = [clusterClockValue EXCEPT ![n] = c]

\* ... then calls setval, which is in the WAL at once.
Persist(n, c) ==
  /\ sequence' = [sequence EXCEPT ![n] = c[1]]
  /\ logged' = [logged EXCEPT ![n] = c[1]]
  /\ floor' = [floor EXCEPT ![n] = c]
  /\ UNCHANGED flushed

SaveClock(s) ==
  /\ At(s, "save")
  /\ Save(NodeOf[s], Pointed(s))
  /\ Go(s, "persist")
  /\ UNCHANGED <<clockInitialized, holder, seqVars, checked, historyVars, crashes>>

\* The lock is released before *clockValue is copied.
PersistClock(s) ==
  /\ At(s, "persist")
  /\ Persist(NodeOf[s], Pointed(s))
  /\ holder' = holder \ {s}
  /\ session' = [session EXCEPT ![s].unread = Fields, ![s].pc = "copy"]
  /\ UNCHANGED <<clusterClockValue, clockInitialized, checked, kept, stamp, crashes>>

\* The copy is two loads, in an order the compiler chooses.
CopyField(s, field) ==
  LET rest == session[s].unread \ {field} IN
  /\ At(s, "copy") /\ field \in session[s].unread
  /\ session' = [session EXCEPT
                   ![s].unread = rest,
                   ![s].result = IF field = "logical" THEN <<Pointed(s)[1], @[2]>> ELSE <<@[1], Pointed(s)[2]>>,
                   ![s].pc = IF rest # {} THEN "copy" ELSE IF Remotes[s] = {} THEN "done" ELSE "collect",
                   ![s].source = IF rest # {} THEN @ ELSE "epoch",
                   ![s].epoch = IF rest # {} THEN @ ELSE Zero]
  /\ UNCHANGED <<shmemVars, seqVars, checked, historyVars, crashes>>

-----------------------------------------------------------------------------
(* citus_get_transaction_clock                                             *)

\* GetHighestClockInTransaction fetches the results.
CollectClock(s, r) ==
  /\ At(s, "collect") /\ r \in Remotes[s] \ session[s].collected /\ At(r, "done")
  /\ session' = [session EXCEPT ![s].result = LargerClock(@, session[r].result),
                                ![s].collected = @ \cup {r}]
  /\ UNCHANGED <<shmemVars, seqVars, checked, historyVars, crashes>>

\* The command to adjust goes to all remotes, then the local clock is adjusted.
AdjustClocksToTransactionHighest(s) ==
  /\ At(s, "collect") /\ session[s].collected = Remotes[s]
  /\ \A r \in Remotes[s] : At(r, "done")
  /\ session' = [r \in Sessions |->
                   IF r \in {s} \cup Remotes[s]
                     THEN [session[r] EXCEPT !.pc = "adjust", !.result = session[s].result]
                     ELSE session[r]]
  /\ UNCHANGED <<shmemVars, seqVars, checked, historyVars, crashes>>

\* cluster_clock_cmp_internal(localClock, remoteClock) >= 0
IsAheadOrEqual_Logical(local, remote) == local[1] >= remote[1]

IsAheadOrEqual_NotChecked(local, remote) == FALSE

IsAheadOrEqual(local, remote) == ~After(remote, local)

AdjustLocalClock(s) ==
  LET n == NodeOf[s] IN
  /\ At(s, "adjust") /\ ~Locked(n)
  /\ \A r \in Remotes[s] : At(r, "adjusted")
  /\ IF IsAheadOrEqual(clusterClockValue[n], session[s].result)
       THEN Go(s, "adjusted") /\ UNCHANGED <<clusterClockValue, holder>>
       ELSE /\ Save(n, session[s].result)
            /\ holder' = holder \cup {s}
            /\ Go(s, "persist_adjusted")
  /\ UNCHANGED <<clockInitialized, seqVars, checked, historyVars, crashes>>

PersistAdjusted(s) ==
  /\ At(s, "persist_adjusted")
  /\ Persist(NodeOf[s], session[s].result)
  /\ holder' = holder \ {s}
  /\ Go(s, "adjusted")
  /\ UNCHANGED <<clusterClockValue, clockInitialized, checked, kept, stamp, crashes>>

-----------------------------------------------------------------------------
(* The end of a transaction, and restarts                                  *)

\* The commit of a transaction with a transaction clock begins, on the nodes that are left.
StartCommit(s) ==
  /\ Remotes[s] # {} /\ At(s, "adjusted")
  /\ \A r \in Remotes[s] : session[r].pc \in {"adjusted", "lost"}
  /\ session' = [r \in Sessions |->
                   IF r \in {s} \cup Remotes[s] /\ At(r, "adjusted")
                     THEN [session[r] EXCEPT !.pc = "commit"] ELSE session[r]]
  /\ UNCHANGED <<shmemVars, seqVars, checked, historyVars, crashes>>

\* The nodes commit (or prepare) their parts one by one: the remotes before the local node
\* without 2PC and where they are prepared, after it where they have only read.  setval has
\* given the part a transaction id, so the WAL of this node is flushed.
CommitPart(s) ==
  LET n == NodeOf[s] IN
  /\ At(s, "commit") \/ (At(s, "done") /\ ~IsRemote(s))
  /\ flushed' = [flushed EXCEPT ![n] = logged[n]]
  /\ kept' = [kept EXCEPT ![n] = floor[n]]
  /\ stamp' = [stamp EXCEPT ![n] = IF At(s, "commit") THEN LargerClock(@, session[s].result) ELSE @]
  /\ session' = [session EXCEPT ![s] = Idle]
  /\ UNCHANGED <<shmemVars, sequence, logged, checked, floor, crashes>>

\* The client rolls back, the connection to a remote is lost, the local commit fails, or the
\* session a remote works for is gone or no longer needs it.  Nothing of the clock is undone.
Rollback(s) ==
  /\ \/ ~IsRemote(s) /\ session[s].pc \in {"done", "adjusted", "commit"}
     \/ session[s].pc \in {"collect", "adjust"} /\ \E r \in Remotes[s] : At(r, "lost")
     \/ /\ session[s].pc \in {"done", "adjusted", "commit", "lost"}
        /\ \E x \in Sessions : s \in Remotes[x] /\ session[x].pc \in {"idle", "commit"}
  /\ session' = [session EXCEPT ![s] = Idle]
  /\ UNCHANGED <<shmemVars, seqVars, checked, historyVars, crashes>>

\* Shared memory and sessions are gone; the sequence is what the flushed WAL says.
Crash(n) ==
  LET gone == {s \in Sessions : NodeOf[s] = n} IN
  /\ crashes < MaxCrashes
  /\ crashes' = crashes + 1
  /\ clusterClockValue' = [clusterClockValue EXCEPT ![n] = Zero]
  /\ clockInitialized' = clockInitialized \ {n}
  /\ holder' = holder \ gone
  /\ sequence' = [sequence EXCEPT ![n] = flushed[n]]
  /\ logged' = [logged EXCEPT ![n] = flushed[n]]
  /\ floor' = [floor EXCEPT ![n] = kept[n]]
  /\ checked' = checked \ gone
  /\ session' = [s \in Sessions |->
                   IF s \notin gone THEN session[s]
                   ELSE IF IsRemote(s) /\ ~At(s, "idle") THEN [Idle EXCEPT !.pc = "lost"] ELSE Idle]
  /\ UNCHANGED <<flushed, kept, stamp>>

SessionStep(s) ==
  \/ \E epoch \in Epochs : GetEpochTimeAsClock(s, epoch)
  \/ InitClockAtFirstUse(s)
  \/ TickClock(s) \/ SaveClock(s) \/ PersistClock(s)
  \/ \E field \in Fields : CopyField(s, field)
  \/ \E r \in Remotes[s] : CollectClock(s, r)
  \/ AdjustClocksToTransactionHighest(s)
  \/ AdjustLocalClock(s) \/ PersistAdjusted(s)
  \/ StartCommit(s) \/ Rollback(s)

Next ==
  \/ \E s \in Sessions : CallClock(s) \/ SessionStep(s) \/ CommitPart(s)
  \/ \E n \in Nodes : Crash(n)

Spec == Init /\ [][Next]_vars

-----------------------------------------------------------------------------
(* Properties                                                              *)

\* Every value saved on a node is larger than the one saved before, in this session or
\* another, and larger than every value saved there before a restart by a transaction
\* that committed, whatever the wall clock does ("Clock guarantees to never go back in
\* value after restarts", citus_get_node_clock).
ClockMovesForward ==
  [][crashes' = crashes =>
       \A n \in Nodes : floor'[n] = floor[n] \/ After(floor'[n], floor[n])]_vars

\* From the moment all nodes of a transaction have adjusted (citus_get_transaction_clock
\* returns) no clock of theirs is below the transaction clock; once a node has committed its
\* part, its clock is not below it after restarts either.  A node that crashes before its own
\* COMMIT loses the setval and may restart below a clock that other nodes have committed
\* (AdjustClocksToTransactionHighest, CoordinatedRemoteTransactionsCommit).
TransactionClockIsKept ==
  /\ \A s \in Sessions : session[s].pc \in {"adjusted", "commit"} =>
       \A r \in {s} \cup Remotes[s] : session[r].pc \in {"adjusted", "commit"} =>
         ~After(session[s].result, clusterClockValue[NodeOf[r]])
  /\ \A n \in Nodes :
       IF n \in clockInitialized THEN ~After(stamp[n], clusterClockValue[n])
                                 ELSE sequence[n] >= stamp[n][1]

-----------------------------------------------------------------------------
(* The inductive invariant                                                 *)

\* clockLock excludes, and is held between the tick or the adjustment and setval.
Locking == {"save", "persist", "persist_adjusted"}
LockInv ==
  /\ \A s \in Sessions : s \in holder <=> session[s].pc \in Locking
  /\ \A s, t \in holder : NodeOf[s] = NodeOf[t] => s = t

\* A session ticks only a clock that has been initialised since the restart.
CheckedInv ==
  \A s \in Sessions :
    /\ session[s].pc \notin {"idle", "start", "init", "lost"} => s \in checked
    /\ s \in checked => NodeOf[s] \in clockInitialized

\* What is kept on a node goes up from the stamp of a committed transaction to the shared
\* clock, or to the sequence from which the clock will start; the flushed WAL is enough
\* for what is kept.
ClockInv ==
  \A n \in Nodes :
    /\ ~After(stamp[n], kept[n]) /\ ~After(kept[n], floor[n])
    /\ floor[n][1] <= logged[n] /\ kept[n][1] <= flushed[n]
    /\ IF n \in clockInitialized THEN ~After(floor[n], clusterClockValue[n])
                                 ELSE floor[n][1] <= sequence[n]

\* The session with the lock is about to persist a larger clock than the last one; once a
\* session has persisted, an unlocked clock is the persisted one.
Persisting(s) ==
  LET n == NodeOf[s] IN
  /\ session[s].pc \in Locking => After(clusterClockValue[n], floor[n])
  /\ At(s, "save") => ~After(clusterClockValue[n], Pointed(s))
  /\ At(s, "persist") => clusterClockValue[n] = Pointed(s)
  /\ At(s, "persist_adjusted") => clusterClockValue[n] = session[s].result
  /\ session[s].pc \in {"copy", "done", "collect", "adjust", "adjusted", "commit"} /\ ~Locked(n) =>
       clusterClockValue[n] = floor[n]
  /\ session[s].pc \in {"adjusted", "commit"} => ~After(session[s].result, floor[n])
SessionInv == \A s \in Sessions : Persisting(s)

\* The nodes of a transaction adjust to one value.
Adjusting == {"adjust", "persist_adjusted", "adjusted", "commit"}
AdjustInv ==
  \A s \in Sessions :
    /\ At(s, "collect") => Remotes[s] # {}
    /\ \A r \in Remotes[s] :
         session[s].pc \in Adjusting /\ session[r].pc \in Adjusting => session[r].result = session[s].result

\* Each part relies on the others; ClockMovesForward and TransactionClockIsKept follow.
IInv == TypeOK /\ LockInv /\ CheckedInv /\ ClockInv /\ SessionInv /\ AdjustInv
=============================================================================
