--------------------------- MODULE DeadlockSearch ---------------------------
(***************************************************************************)
(* The search of CheckForDistributedDeadlocks for a cycle in the wait      *)
(* graph (distributed_deadlock_detection.c), one iteration of its loops    *)
(* per step.  The graph is given as adjacency lists; a depth-first search  *)
(* starts from every transaction initiated by this node, in the arbitrary  *)
(* order of the hash table.                                                *)
(***************************************************************************)
EXTENDS Naturals, Sequences, FiniteSets, SequencesExt

CONSTANTS
  TransactionNodes,   \* the entries of the hash table
  LocalNodes,         \* those whose initiatorNodeIdentifier is the local group
  WaitsForLists       \* the lists waitsFor may be

ASSUME SearchAssumption ==
  /\ IsFiniteSet(TransactionNodes)
  /\ LocalNodes \subseteq TransactionNodes
  /\ WaitsForLists \subseteq Seq(TransactionNodes)

VARIABLES
  waitsFor,   \* TransactionNode.waitsFor
  pc,         \* "next": at the head of the loop over the table; "search"; "found"; "cancelled"; "done"
  todo,       \* local transactions the loop has not reached
  start,      \* startingTransactionNode
  queue,      \* toBeVisitedNodes, pairs of a node and its stack depth
  visited,    \* nodes whose transactionVisited is set
  stack,      \* transactionNodeStack
  clean,      \* history: starting nodes for which no cycle was found
  path        \* deadlockPath

vars == <<waitsFor, pc, todo, start, queue, visited, stack, clean, path>>

\* Each edge of the wait graph is one entry of one waitsFor list.
Edges == UNION {{n} \X DOMAIN waitsFor[n] : n \in TransactionNodes}
edgeCount == Cardinality(Edges)
maxStackDepth == edgeCount + 1

Init ==
  /\ waitsFor \in [TransactionNodes -> WaitsForLists]
  /\ pc = "next" /\ todo = LocalNodes
  /\ start = CHOOSE node \in TransactionNodes : TRUE
  /\ queue = <<>> /\ visited = {} /\ stack = <<>> /\ clean = {} /\ path = <<>>

\* transactionNodeStack[depth] = node; the stack begins at depth 0.
SetStack(depth, node) == Append(SubSeq(stack, 1, depth), node)

\* The waits-for list is prepended element by element, so it ends up reversed.
PrependOutgoingNodesToQueue_Appends(node, depth, rest) ==
  rest \o [i \in DOMAIN waitsFor[node] |-> [node |-> waitsFor[node][i], depth |-> depth + 1]]

PrependOutgoingNodesToQueue(node, depth, rest) ==
  Reverse([i \in DOMAIN waitsFor[node] |-> [node |-> waitsFor[node][i], depth |-> depth + 1]]) \o rest

ResetVisitedFields_Skipped == visited

ResetVisitedFields == {}

StartSearch(node) ==
  /\ pc = "next" /\ node \in todo
  /\ pc' = "search"
  /\ todo' = todo \ {node}
  /\ start' = node
  /\ visited' = ResetVisitedFields
  /\ stack' = <<node>>
  /\ queue' = PrependOutgoingNodesToQueue(node, 0, <<>>)
  /\ UNCHANGED <<waitsFor, clean, path>>

\* BuildDeadlockPathList takes the stack below the node that closes the cycle.
BuildDeadlockPathList_OneLess(depth) == SubSeq(stack, 1, depth - 1)

BuildDeadlockPathList(depth) == SubSeq(stack, 1, depth)

CycleFound ==
  /\ pc = "search" /\ queue # <<>> /\ Head(queue).node = start
  /\ pc' = "found"
  /\ path' = BuildDeadlockPathList(Head(queue).depth)
  /\ queue' = Tail(queue)
  /\ UNCHANGED <<waitsFor, todo, start, visited, stack, clean>>

SkipVisited_NotRemoved ==
  /\ pc = "search" /\ queue # <<>> /\ Head(queue).node \in visited \ {start}
  /\ UNCHANGED vars

SkipVisited ==
  /\ pc = "search" /\ queue # <<>> /\ Head(queue).node \in visited \ {start}
  /\ queue' = Tail(queue)
  /\ UNCHANGED <<waitsFor, pc, todo, start, visited, stack, clean, path>>

MarkVisited_Forgotten(node) == visited

MarkVisited(node) == visited \cup {node}

VisitNode ==
  /\ pc = "search" /\ queue # <<>>
  /\ Head(queue).node \notin visited \cup {start}
  /\ LET node == Head(queue).node
         depth == Head(queue).depth
     IN /\ visited' = MarkVisited(node)
        /\ stack' = SetStack(depth, node)
        /\ queue' = PrependOutgoingNodesToQueue(node, depth, Tail(queue))
  /\ UNCHANGED <<waitsFor, pc, todo, start, clean, path>>

NoCycleFound ==
  /\ pc = "search" /\ queue = <<>>
  /\ pc' = "next"
  /\ clean' = clean \cup {start}
  /\ UNCHANGED <<waitsFor, todo, start, queue, visited, stack, path>>

\* The youngest transaction of the path that still has a backend is cancelled; when there
\* is none the loop goes on.
CancelYoungest ==
  /\ pc = "found"
  /\ pc' = "cancelled"
  /\ UNCHANGED <<waitsFor, todo, start, queue, visited, stack, clean, path>>

NoBackend ==
  /\ pc = "found"
  /\ pc' = "next"
  /\ path' = <<>> /\ queue' = <<>>
  /\ UNCHANGED <<waitsFor, todo, start, visited, stack, clean>>

LoopDone ==
  /\ pc = "next" /\ todo = {}
  /\ pc' = "done"
  /\ UNCHANGED <<waitsFor, todo, start, queue, visited, stack, clean, path>>

Terminated == pc \in {"cancelled", "done"} /\ UNCHANGED vars

Step ==
  \/ \E node \in LocalNodes : StartSearch(node)
  \/ CycleFound \/ SkipVisited \/ VisitNode \/ NoCycleFound
  \/ CancelYoungest \/ NoBackend \/ LoopDone

Next == Step \/ Terminated

Spec == Init /\ [][Next]_vars

\* The detector is one process that does nothing else.
FairSpec == Spec /\ WF_vars(Step)

-----------------------------------------------------------------------------
(* Reference: a transaction is deadlocked when it reaches itself.          *)

\* n reaches itself: it is in every set that has its successors and with a node also the
\* successors of that node.
OnCycle(n) ==
  \A nodes \in SUBSET TransactionNodes :
    (\A m \in nodes \cup {n} : ToSet(waitsFor[m]) \subseteq nodes) => n \in nodes

\* A starting node for which CheckDeadlockForTransactionNode returns false is on no
\* cycle: marking nodes as visited cuts off no way back to the start, whatever the order
\* of the lists and whatever earlier searches of the same table have marked.
SearchIsComplete == \A n \in clean : ~OnCycle(n)

\* The reported path is a cycle of the graph: each transaction waits for the next one and
\* the last for the first.  The stack slots between were written by different iterations.
PathIsCycle ==
  pc \in {"found", "cancelled"} =>
    /\ path # <<>> /\ path[1] = start
    /\ \A i \in 1..Len(path) - 1 : path[i + 1] \in ToSet(waitsFor[path[i]])
    /\ start \in ToSet(waitsFor[path[Len(path)]])

\* Assert(currentStackDepth < maxStackDepth): no write beyond the allocated stack.
StackFits == pc = "search" => Len(stack) <= maxStackDepth

\* The check ends on every graph, cyclic parts not reached from the start included.
SearchEnds == <>(pc \in {"cancelled", "done"})
-----------------------------------------------------------------------------
(* The inductive invariant                                                 *)

QueueEntries == [node : TransactionNodes, depth : Nat]

TypeOK ==
  /\ waitsFor \in [TransactionNodes -> Seq(TransactionNodes)]
  /\ pc \in {"next", "search", "found", "cancelled", "done"}
  /\ todo \subseteq LocalNodes /\ clean \subseteq TransactionNodes /\ visited \subseteq TransactionNodes
  /\ queue \in Seq(QueueEntries) /\ stack \in Seq(TransactionNodes) /\ path \in Seq(TransactionNodes)

\* The stack is a path of the graph that begins at the start and goes on through visited
\* nodes; none is on it twice.
StackInv ==
  /\ stack # <<>> /\ stack[1] = start
  /\ \A i \in 1..Len(stack) - 1 : stack[i + 1] \in ToSet(waitsFor[stack[i]]) \cap visited
  /\ \A j \in 1..Len(stack) : \A i \in 1..j - 1 : stack[i] # stack[j]

\* A node in the queue is a successor of the stack's node one level up, which stays there
\* until the node's turn comes: what comes later in the queue is no deeper.
QueueInv ==
  /\ \A k \in DOMAIN queue : /\ queue[k].depth \in 1..Len(stack)
                             /\ queue[k].node \in ToSet(waitsFor[stack[queue[k].depth]])
  /\ \A j \in DOMAIN queue : \A k \in DOMAIN queue : j <= k => queue[k].depth <= queue[j].depth

\* The successors of what has been visited have been visited too or are in the queue.
VisitedInv ==
  /\ start \in TransactionNodes \ visited
  /\ \A m \in visited \cup {start} : \A x \in ToSet(waitsFor[m]) :
       x \in visited \/ \E k \in DOMAIN queue : queue[k].node = x

\* Successors in the queue and on the stack: why a search that ends with an empty queue
\* has seen everything it can reach, and why the stack below a node is the way to it.
IInv ==
  /\ TypeOK
  /\ pc = "search" => StackInv /\ QueueInv /\ VisitedInv
  /\ SearchIsComplete
  /\ PathIsCycle
=============================================================================
