------------------------- MODULE DeadlockDetection -------------------------
(***************************************************************************)
(* Distributed deadlock detection.  Transactions take exclusive locks on   *)
(* several nodes and hold them until they end; the maintenance daemon of   *)
(* every node collects the wait edges of all nodes, one node at a time     *)
(* (lock_graph.c), looks for a cycle through a transaction it initiated    *)
(* and cancels the youngest backend it finds for the transactions of the   *)
(* cycle (distributed_deadlock_detection.c, backend_data.c).               *)
(*                                                                         *)
(* The search itself is DeadlockSearch: here the path is any cycle without *)
(* repetition through the starting transaction.                            *)
(***************************************************************************)
EXTENDS Naturals, Sequences, FiniteSets, SequencesExt, FiniteSetsExt

CONSTANTS
  Nodes,
  Xacts,        \* distributed transactions
  Locals,       \* backends that are not in a distributed transaction
  Initiator,    \* the node a transaction was initiated on, or a local backend runs on
  Backend,      \* the backend a transaction runs in on that node
  Number,       \* DistributedTransactionId.transactionNumber
  Stamp,        \* DistributedTransactionId.timestamp
  Locks,
  LockNode,     \* the node of a lock
  MaxFailures,  \* bound on failed queries of the detectors
  None

Procs == Xacts \cup Locals

ASSUME DetectionAssumption ==
  /\ Initiator \in [Procs -> Nodes]
  /\ Number \in [Xacts -> Nat \ {0}]
  /\ Stamp \in [Xacts -> Nat]
  /\ LockNode \in [Locks -> Nodes]
  /\ \A s, t \in Xacts : Initiator[s] = Initiator[t] /\ Number[s] = Number[t] => s = t
  /\ \A s, t \in Xacts : Backend[s] = Backend[t] => Initiator[s] = Initiator[t]

VARIABLES
  holder,   \* who holds a lock
  queue,    \* who waits for it, in order
  status,   \* of a transaction or local backend: "active", "cancelled" (a SIGINT is on its way), "ended"
  detector, \* per node: where its daemon is in CheckForDistributedDeadlocks and what it has
  failures

vars == <<holder, queue, status, detector, failures>>

Idle == [pc |-> "idle", todo |-> {}, edges |-> {}, path |-> <<>>, victim |-> None]

Init ==
  /\ holder = [l \in Locks |-> None]
  /\ queue = [l \in Locks |-> <<>>]
  /\ status = [p \in Procs |-> "active"]
  /\ detector = [n \in Nodes |-> Idle]
  /\ failures = 0

-----------------------------------------------------------------------------
(* Locks of PostgreSQL, as far as the wait graph shows them.               *)

WaitsForLock(p, l) == p \in ToSet(queue[l])
WaitsOn(p, n) == \E l \in Locks : LockNode[l] = n /\ WaitsForLock(p, l)

\* A backend runs its distributed transactions one after the other, with growing numbers.
Begun(p) ==
  p \in Xacts => \A t \in Xacts : Backend[t] = Backend[p] /\ Number[t] < Number[p] => status[t] = "ended"

\* A transaction has one session per node, which waits for one lock at a time, and may
\* run on several nodes at once; a local backend only takes locks of its node.
LockAcquire(p, l) ==
  /\ status[p] = "active" /\ Begun(p) /\ holder[l] # p /\ ~WaitsOn(p, LockNode[l])
  /\ p \in Locals => LockNode[l] = Initiator[p]
  /\ IF holder[l] = None
       THEN holder' = [holder EXCEPT ![l] = p] /\ UNCHANGED queue
       ELSE queue' = [queue EXCEPT ![l] = Append(@, p)] /\ UNCHANGED holder
  /\ UNCHANGED <<status, detector, failures>>

\* The first in the queue gets a lock that becomes free.
LockReleaseAll_NoWakeup(p) ==
  /\ holder' = [l \in Locks |-> IF holder[l] = p THEN None ELSE holder[l]]
  /\ queue' = [l \in Locks |-> SelectSeq(queue[l], LAMBDA q : q # p)]

LockReleaseAll(p) ==
  LET rest(l) == SelectSeq(queue[l], LAMBDA q : q # p)
      passed(l) == holder[l] = p /\ rest(l) # <<>>
  IN /\ holder' = [l \in Locks |-> IF passed(l) THEN Head(rest(l))
                                   ELSE IF holder[l] = p THEN None ELSE holder[l]]
     /\ queue' = [l \in Locks |-> IF passed(l) THEN Tail(rest(l)) ELSE rest(l)]

\* A transaction commits or, also while it waits, aborts: it is cancelled or times out.
EndXact(p) ==
  /\ status[p] = "active" /\ Begun(p)
  /\ status' = [status EXCEPT ![p] = "ended"]
  /\ LockReleaseAll(p)
  /\ UNCHANGED <<detector, failures>>

\* The cancelled backend raises an error and aborts, on the other nodes too.
AbortCancelled(p) ==
  /\ status[p] = "cancelled"
  /\ status' = [status EXCEPT ![p] = "ended"]
  /\ LockReleaseAll(p)
  /\ UNCHANGED <<detector, failures>>

-----------------------------------------------------------------------------
(* The wait graph of one node.                                             *)

\* Hard edges: the holder of the lock p waits for.
EdgesForLockWaits(p, n) ==
  {<<p, holder[l]>> : l \in {k \in Locks : LockNode[k] = n /\ WaitsForLock(p, k)}}

\* Soft edges: those in front of p in the queue.
EdgesForWaitQueue_WholeQueue(p, n) ==
  UNION {{<<p, q>> : q \in ToSet(queue[l]) \ {p}} :
           l \in {k \in Locks : LockNode[k] = n /\ WaitsForLock(p, k)}}

EdgesForWaitQueue(p, n) ==
  UNION {{<<p, queue[l][i]>> : i \in {j \in DOMAIN queue[l] :
             \E k \in DOMAIN queue[l] : queue[l][k] = p /\ j < k}} :
           l \in {k \in Locks : LockNode[k] = n /\ WaitsForLock(p, k)}}

EdgesFor(p, n) == EdgesForLockWaits(p, n) \cup EdgesForWaitQueue(p, n)

\* Warshall's algorithm.
TransitiveClosure(edges) ==
  FoldSet(LAMBDA p, R : R \cup {<<d[1], e[2]>> : d \in {x \in R : x[2] = p}, e \in {x \in R : x[1] = p}},
          edges, Procs)

\* The processes in a distributed transaction that wait on n, and those that block them
\* and wait themselves (AddProcToVisit).
Visited(n) ==
  LET edges == UNION {EdgesFor(p, n) : p \in Procs}
      start == {p \in Xacts : WaitsOn(p, n)}
  IN start \cup {e[2] : e \in {x \in TransitiveClosure(edges) : x[1] \in start /\ WaitsOn(x[2], n)}}

\* AddWaitEdge: every process that is not in a distributed transaction is transaction
\* number 0 of its node.
TransactionId(p) ==
  IF p \in Xacts THEN [node |-> Initiator[p], number |-> Number[p], stamp |-> Stamp[p]]
                 ELSE [node |-> Initiator[p], number |-> 0, stamp |-> 0]

BuildLocalWaitGraph_HardEdges(n) ==
  {<<TransactionId(e[1]), TransactionId(e[2])>> : e \in UNION {EdgesForLockWaits(p, n) : p \in Visited(n)}}

BuildLocalWaitGraph(n) ==
  {<<TransactionId(e[1]), TransactionId(e[2])>> : e \in UNION {EdgesFor(p, n) : p \in Visited(n)}}

-----------------------------------------------------------------------------
(* The detector of a node.                                                 *)

\* BuildGlobalWaitGraph begins with the edges of its own node.
BeginDetection(n) ==
  /\ detector[n].pc = "idle"
  /\ detector' = [detector EXCEPT ![n] =
       [Idle EXCEPT !.pc = "collect", !.todo = Nodes \ {n}, !.edges = BuildLocalWaitGraph(n)]]
  /\ UNCHANGED <<holder, queue, status, failures>>

\* dump_local_wait_edges on another node; the queries run in parallel.
AddWaitEdgesFromResult(n, m) ==
  /\ detector[n].pc = "collect" /\ m \in detector[n].todo
  /\ detector' = [detector EXCEPT ![n].todo = @ \ {m}, ![n].edges = @ \cup BuildLocalWaitGraph(m)]
  /\ UNCHANGED <<holder, queue, status, failures>>

\* A node that does not answer is skipped with a WARNING.
QueryFails(n, m) ==
  /\ failures < MaxFailures
  /\ detector[n].pc = "collect" /\ m \in detector[n].todo
  /\ detector' = [detector EXCEPT ![n].todo = @ \ {m}]
  /\ failures' = failures + 1
  /\ UNCHANGED <<holder, queue, status>>

\* The cycles a search that starts at id may report.
Cycles(edges, id) ==
  LET ids == {e[1] : e \in edges}
  IN {c \in UNION {[1..k -> ids] : k \in 1..Cardinality(ids)} :
        /\ IsInjective(c) /\ c[1] = id
        /\ \A i \in 1..Len(c) : <<c[i], c[(i % Len(c)) + 1]>> \in edges}

InDistributedTransaction(t) == Begun(t) /\ status[t] # "ended"

\* The backend found for a transaction of the path: the numbers are compared, and
\* the backend must have initiated its transaction on this node.
AssociateDistributedTransactionWithBackendProc(id, n) ==
  {t \in Xacts : Initiator[t] = n /\ InDistributedTransaction(t) /\ Number[t] = id.number}

\* Positions of the path that are associated with a backend.
Alive(path, n) ==
  {i \in DOMAIN path : AssociateDistributedTransactionWithBackendProc(path[i], n) # {}}

\* The first position with the latest timestamp.
YoungestAlive(path, n) ==
  CHOOSE i \in Alive(path, n) :
    \A j \in Alive(path, n) \ {i} : path[j].stamp < path[i].stamp \/ (path[j].stamp = path[i].stamp /\ i < j)

\* Where a search may start: the transactions this node initiated.
StartingNodes(n) == {id \in {e[1] : e \in detector[n].edges} : id.node = n}

DeadlockFound(n) ==
  /\ detector[n].pc = "collect" /\ detector[n].todo = {}
  /\ \E id \in StartingNodes(n) : \E path \in Cycles(detector[n].edges, id) :
       /\ Alive(path, n) # {}
       /\ detector' = [detector EXCEPT ![n] =
            [Idle EXCEPT !.pc = "cancel", !.path = path,
               !.victim = CHOOSE t \in Xacts :
                 t \in AssociateDistributedTransactionWithBackendProc(path[YoungestAlive(path, n)], n)]]
  /\ UNCHANGED <<holder, queue, status, failures>>

\* The search from every starting node may end without a backend to cancel.
NoDeadlockFound(n) ==
  /\ detector[n].pc = "collect" /\ detector[n].todo = {}
  /\ \A id \in StartingNodes(n) :
       LET cycles == Cycles(detector[n].edges, id)
       IN cycles = {} \/ \E path \in cycles : Alive(path, n) = {}
  /\ detector' = [detector EXCEPT ![n] = Idle]
  /\ UNCHANGED <<holder, queue, status, failures>>

\* The backend is signalled if it is in a distributed transaction, which may be a later one
\* than the one of the cycle.
CancelTransactionDueToDeadlock(n) ==
  /\ detector[n].pc = "cancel"
  /\ status' = [p \in Procs |->
                  IF /\ p \in Xacts /\ Backend[p] = Backend[detector[n].victim]
                     /\ InDistributedTransaction(p) THEN "cancelled" ELSE status[p]]
  /\ detector' = [detector EXCEPT ![n] = Idle]
  /\ UNCHANGED <<holder, queue, failures>>

-----------------------------------------------------------------------------
DetectorStep(n) ==
  \/ BeginDetection(n)
  \/ \E m \in Nodes : AddWaitEdgesFromResult(n, m) \/ QueryFails(n, m)
  \/ DeadlockFound(n)
  \/ NoDeadlockFound(n)
  \/ CancelTransactionDueToDeadlock(n)

Next ==
  \/ \E p \in Procs : \/ \E l \in Locks : LockAcquire(p, l)
                      \/ EndXact(p) \/ AbortCancelled(p)
  \/ \E n \in Nodes : DetectorStep(n)

Spec == Init /\ [][Next]_vars

\* Each maintenance daemon checks for deadlocks again and again, and a backend that
\* waits for a lock handles a cancellation.
FairSpec ==
  /\ Spec
  /\ \A n \in Nodes : WF_vars(DetectorStep(n))
  /\ \A p \in Procs : WF_vars(AbortCancelled(p))

-----------------------------------------------------------------------------
(* Properties                                                              *)

TypeOK ==
  /\ holder \in [Locks -> Procs \cup {None}]
  /\ \A l \in Locks : queue[l] \in Seq(Procs) /\ (queue[l] # <<>> => holder[l] # None)
  /\ status \in [Procs -> {"active", "cancelled", "ended"}]
  /\ \A n \in Nodes : detector[n].victim \in Xacts \cup {None}
  /\ failures \in 0..MaxFailures

\* Who really waits for whom, now.
WaitEdges == UNION {EdgesFor(p, n) : p \in Procs, n \in Nodes}

Deadlocked(p) == <<p, p>> \in TransitiveClosure(WaitEdges)

\* All backends outside distributed transactions are one vertex of their node.
StandsForSeveral(id) ==
  \E p, q \in Procs : p # q /\ TransactionId(p) = id /\ TransactionId(q) = id

\* The edges of a cycle were read at different times on different nodes.  If every vertex of
\* it stands for one backend and none of them has ended its transaction since, all edges are
\* still there and the deadlock is real when the victim is cancelled: locks are held until
\* the end of a transaction (BuildGlobalWaitGraph, CheckForDistributedDeadlocks).  A cycle
\* through two backends outside distributed transactions of one node may be no deadlock.
DetectedDeadlockIsReal ==
  \A n \in Nodes :
    detector[n].pc = "cancel"
      /\ (\A id \in ToSet(detector[n].path) : ~StandsForSeveral(id))
      /\ (\A p \in Procs : TransactionId(p) \in ToSet(detector[n].path) => status[p] # "ended")
    => Deadlocked(detector[n].victim)

\* The cancelled backend runs a transaction of the cycle that was found.
VictimIsParticipant ==
  \A n \in Nodes :
    detector[n].pc = "cancel" => TransactionId(detector[n].victim) \in ToSet(detector[n].path)

\* Every deadlock that a distributed transaction is part of is eventually resolved,
\* although each daemon only cancels transactions its own node initiated and some of
\* its queries fail.
DeadlockIsResolved == \A t \in Xacts : Deadlocked(t) ~> ~Deadlocked(t)
=============================================================================
