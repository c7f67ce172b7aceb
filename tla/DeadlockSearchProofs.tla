------------------------ MODULE DeadlockSearchProofs ------------------------
(***************************************************************************)
(* The search for a cycle is right for every wait graph, every order of    *)
(* its lists and every set of starting nodes.                              *)
(***************************************************************************)
EXTENDS DeadlockSearch, SequenceTheorems, FiniteSetTheorems, TLAPS

\* The provers of the leaves that name none: Zenon, then Z3.
USE ZenonT(30), Z3T(30)

\* The successors of a node are nodes.
LEMMA SuccessorTypes ==
  ASSUME TypeOK, NEW node \in TransactionNodes
  PROVE  /\ waitsFor[node] \in Seq(TransactionNodes) /\ Len(waitsFor[node]) \in Nat
         /\ DOMAIN waitsFor[node] = 1..Len(waitsFor[node])
         /\ ToSet(waitsFor[node]) \subseteq TransactionNodes
         /\ \A x : x \in ToSet(waitsFor[node]) <=> \E i \in 1..Len(waitsFor[node]) : waitsFor[node][i] = x
<1>1. waitsFor[node] \in Seq(TransactionNodes)
  BY DEF TypeOK
<1>2. Len(waitsFor[node]) \in Nat /\ DOMAIN waitsFor[node] = 1..Len(waitsFor[node])
  BY <1>1, LenProperties
<1>3. \A i \in 1..Len(waitsFor[node]) : waitsFor[node][i] \in TransactionNodes
  BY <1>1, ElementOfSeq
<1> QED
  BY <1>1, <1>2, <1>3 DEF ToSet

\* What PrependOutgoingNodesToQueue returns: the successors of the node, one level below
\* it, and then the rest of the queue.
LEMMA PrependedQueue ==
  ASSUME TypeOK, NEW node \in TransactionNodes, NEW depth \in Nat, NEW rest \in Seq(QueueEntries)
  PROVE  LET q == PrependOutgoingNodesToQueue(node, depth, rest)
             n == Len(waitsFor[node])
         IN /\ q \in Seq(QueueEntries) /\ Len(q) = n + Len(rest)
            /\ \A k \in 1..n : q[k].depth = depth + 1 /\ q[k].node \in ToSet(waitsFor[node])
            /\ \A k \in n + 1 .. n + Len(rest) : q[k] = rest[k - n]
            /\ \A x \in ToSet(waitsFor[node]) : \E k \in 1..n : q[k].node = x
<1> DEFINE w == waitsFor[node]
           n == Len(w)
           entries == [i \in DOMAIN w |-> [node |-> w[i], depth |-> depth + 1]]
           r == Reverse(entries)
           q == PrependOutgoingNodesToQueue(node, depth, rest)
<1>1. /\ n \in Nat /\ DOMAIN w = 1..n
      /\ \A i \in 1..n : w[i] \in TransactionNodes /\ w[i] \in ToSet(w)
      /\ \A x \in ToSet(w) : \E i \in 1..n : w[i] = x
  BY SuccessorTypes
<1>2. q = r \o rest
  BY DEF PrependOutgoingNodesToQueue
<1> HIDE DEF w, n, q
<1>3. entries \in [1..n -> QueueEntries]
  BY SMTT(30), Z3T(30), <1>1 DEF QueueEntries
<1>4. entries \in Seq(QueueEntries) /\ Len(entries) = n
  <2>1. entries \in Seq(QueueEntries)
    BY <1>1, <1>3, SeqDef
  <2>2. DOMAIN entries = 1..n /\ DOMAIN entries = 1..Len(entries) /\ Len(entries) \in Nat
    BY <1>3, <2>1, LenProperties
  <2> QED
    BY SMTT(30), Z3T(30), <1>1, <2>1, <2>2
<1>5. \A k \in 1..n : entries[k] = [node |-> w[k], depth |-> depth + 1]
  BY <1>1
<1> HIDE DEF entries
<1>6. r \in [1..n -> QueueEntries] /\ \A k \in 1..n : r[k] = entries[n - k + 1] /\ n - k + 1 \in 1..n
  BY SMTT(30), Z3T(30), <1>1, <1>3, <1>4 DEF Reverse
<1> HIDE DEF r
<1>7. r \in Seq(QueueEntries) /\ Len(r) = n
  <2>1. r \in Seq(QueueEntries)
    BY <1>1, <1>6, SeqDef
  <2>2. DOMAIN r = 1..n /\ DOMAIN r = 1..Len(r) /\ Len(r) \in Nat
    BY <1>6, <2>1, LenProperties
  <2> QED
    BY SMTT(30), Z3T(30), <1>1, <2>1, <2>2
<1>8. Len(rest) \in Nat
  BY LenProperties
<1>9. /\ q \in Seq(QueueEntries) /\ Len(q) = n + Len(rest)
      /\ \A k \in 1 .. n + Len(rest) : q[k] = IF k <= n THEN r[k] ELSE rest[k - n]
  BY <1>2, <1>7, ConcatProperties
<1>10. ASSUME NEW k \in 1..n
       PROVE  n - k + 1 \in 1..n /\ q[k].node = w[n - k + 1] /\ q[k].depth = depth + 1
  <2>1. q[k] = r[k]
    BY SMTT(30), Z3T(30), <1>1, <1>8, <1>9
  <2>2. PICK i \in 1..n : i = n - k + 1 /\ r[k] = entries[i]
    BY <1>6
  <2>3. entries[i] = [node |-> w[i], depth |-> depth + 1]
    BY <1>5
  <2>4. q[k].node = w[i] /\ q[k].depth = depth + 1
    BY SMTT(30), Z3T(30), <2>1, <2>2, <2>3
  <2> QED
    BY <2>2, <2>4
<1>11. \A k \in 1..n : q[k].depth = depth + 1 /\ q[k].node \in ToSet(w)
  <2>1. ASSUME NEW k \in 1..n PROVE q[k].node \in ToSet(w)
    <3>1. PICK i \in 1..n : q[k].node = w[i]
      BY <1>10
    <3> QED
      BY <1>1, <3>1
  <2> QED
    BY <1>10, <2>1
<1>12. \A k \in n + 1 .. n + Len(rest) : q[k] = rest[k - n]
  BY SMTT(30), Z3T(30), <1>1, <1>8, <1>9
<1>13. ASSUME NEW x \in ToSet(w) PROVE \E k \in 1..n : q[k].node = x
  <2>1. PICK i \in 1..n : w[i] = x
    BY <1>1
  <2>2. PICK k \in 1..n : n - k + 1 = i
    <3>1. n - i + 1 \in 1..n /\ n - (n - i + 1) + 1 = i
      BY SMTT(30), Z3T(30), <1>1
    <3> QED
      BY <3>1
  <2>3. q[k].node = x
    BY <1>10, <2>1, <2>2
  <2> QED
    BY <2>2, <2>3
<1> QED
  BY <1>9, <1>11, <1>12, <1>13 DEF n, w, q

\* The queue without its first node.
LEMMA PoppedQueue ==
  ASSUME TypeOK, queue # <<>>
  PROVE  /\ Head(queue) = queue[1] /\ Head(queue) \in QueueEntries
         /\ Len(queue) \in Nat \ {0} /\ DOMAIN queue = 1..Len(queue)
         /\ Tail(queue) \in Seq(QueueEntries) /\ Len(Tail(queue)) = Len(queue) - 1
         /\ DOMAIN Tail(queue) = 1..Len(queue) - 1
         /\ \A i \in 1..Len(queue) - 1 : Tail(queue)[i] = queue[i + 1]
<1>1. queue \in Seq(QueueEntries)
  BY DEF TypeOK
<1>2. /\ Head(queue) \in QueueEntries /\ Tail(queue) \in Seq(QueueEntries)
      /\ Len(Tail(queue)) = Len(queue) - 1
      /\ \A i \in 1..Len(Tail(queue)) : Tail(queue)[i] = queue[i + 1]
  BY <1>1, HeadTailProperties
<1>3. Len(queue) \in Nat \ {0} /\ DOMAIN queue = 1..Len(queue)
  BY <1>1, EmptySeq, LenProperties
<1>4. DOMAIN Tail(queue) = 1..Len(Tail(queue))
  BY <1>2, LenProperties
<1>5. Head(queue) = queue[1]
  BY SMTT(30), Z3T(30), <1>1
<1> QED
  BY <1>2, <1>3, <1>4, <1>5

\* The stack up to a depth, and a node on top of it.
LEMMA SetStackIs ==
  ASSUME TypeOK, NEW depth \in 1..Len(stack), NEW node \in TransactionNodes
  PROVE  /\ SetStack(depth, node) \in Seq(TransactionNodes) /\ Len(SetStack(depth, node)) = depth + 1
         /\ \A i \in 1..depth : SetStack(depth, node)[i] = stack[i]
         /\ SetStack(depth, node)[depth + 1] = node
         /\ SubSeq(stack, 1, depth) \in Seq(TransactionNodes) /\ Len(SubSeq(stack, 1, depth)) = depth
         /\ \A i \in 1..depth : SubSeq(stack, 1, depth)[i] = stack[i]
<1>1. stack \in Seq(TransactionNodes) /\ Len(stack) \in Nat
  BY LenProperties DEF TypeOK
<1>2. \A i \in 1..depth : stack[i] \in TransactionNodes
  BY SMTT(30), Z3T(30), <1>1, ElementOfSeq
<1> DEFINE sub == SubSeq(stack, 1, depth)
<1>3. sub \in Seq(TransactionNodes) /\ Len(sub) = depth /\ \A i \in 1..depth : sub[i] = stack[i]
  <2>1. /\ sub \in Seq(TransactionNodes) /\ Len(sub) = IF 1 <= depth THEN depth - 1 + 1 ELSE 0
        /\ \A i \in 1 .. depth - 1 + 1 : sub[i] = stack[1 + i - 1]
    BY SMTT(30), Z3T(30), <1>1, <1>2, SubSeqProperties
  <2> QED
    BY SMTT(30), Z3T(30), <1>1, <2>1
<1> HIDE DEF sub
<1>4. SetStack(depth, node) = Append(sub, node)
  BY DEF SetStack, sub
<1>5. /\ Append(sub, node) \in Seq(TransactionNodes) /\ Len(Append(sub, node)) = Len(sub) + 1
      /\ \A i \in 1..Len(sub) : Append(sub, node)[i] = sub[i]
      /\ Append(sub, node)[Len(sub) + 1] = node
  BY SMTT(30), Z3T(30), <1>3, AppendProperties
<1> QED
  BY <1>3, <1>4, <1>5 DEF sub

\* A search begins with the successors of its start.
LEMMA StartPreserves ==
  ASSUME IInv, NEW node \in LocalNodes, StartSearch(node)
  PROVE  IInv'
<1>1. node \in TransactionNodes
  BY SearchAssumption DEF SearchAssumption
<1>2. /\ UNCHANGED <<waitsFor, clean, path>> /\ pc' = "search" /\ todo' = todo \ {node} /\ start' = node
      /\ visited' = {} /\ stack' = <<node>> /\ queue' = PrependOutgoingNodesToQueue(node, 0, <<>>)
  BY DEF StartSearch, ResetVisitedFields
<1> DEFINE n == Len(waitsFor[node])
<1>3. n \in Nat
  BY <1>1, SuccessorTypes DEF IInv
<1>4. /\ queue' \in Seq(QueueEntries) /\ Len(queue') = n
      /\ \A k \in 1..n : queue'[k].depth = 1 /\ queue'[k].node \in ToSet(waitsFor[node])
      /\ \A x \in ToSet(waitsFor[node]) : \E k \in 1..n : queue'[k].node = x
  <2>1. <<>> \in Seq(QueueEntries) /\ Len(<<>>) = 0
    BY EmptySeq
  <2>2. /\ queue' \in Seq(QueueEntries) /\ Len(queue') = n + Len(<<>>)
        /\ \A k \in 1..n : queue'[k].depth = 0 + 1 /\ queue'[k].node \in ToSet(waitsFor[node])
        /\ \A x \in ToSet(waitsFor[node]) : \E k \in 1..n : queue'[k].node = x
    <3>1. TypeOK /\ 0 \in Nat
      BY DEF IInv
    <3> QED
      BY <1>1, <1>2, <2>1, <3>1, PrependedQueue
  <2> QED
    BY Z3T(60), <1>3, <2>1, <2>2
<1>5. DOMAIN queue' = 1..n
  BY <1>4, LenProperties
<1> HIDE DEF n
<1>6. stack' \in Seq(TransactionNodes) /\ Len(stack') = 1 /\ stack'[1] = node /\ stack' # <<>>
  BY SMTT(30), Z3T(30), <1>1, <1>2
<1>7. TypeOK'
  BY <1>2, <1>4, <1>6 DEF IInv, TypeOK
<1>8. StackInv'
  BY SMTT(30), Z3T(30), <1>2, <1>6 DEF StackInv
<1>9. QueueInv'
  <2>1. ASSUME NEW k \in 1..n
        PROVE  /\ queue'[k].depth \in 1..Len(stack')
               /\ queue'[k].node \in ToSet(waitsFor'[stack'[queue'[k].depth]])
    BY SMTT(30), Z3T(30), <1>2, <1>4, <1>6
  <2>2. \A j \in 1..n : \A k \in 1..n : queue'[k].depth <= queue'[j].depth
    BY SMTT(30), Z3T(30), <1>4
  <2> QED
    BY <1>5, <2>1, <2>2 DEF QueueInv
<1>10. VisitedInv'
  BY <1>1, <1>2, <1>4, <1>5 DEF VisitedInv
<1>11. SearchIsComplete' /\ PathIsCycle'
  BY <1>2 DEF IInv, SearchIsComplete, OnCycle, PathIsCycle
<1> QED
  BY <1>7, <1>8, <1>9, <1>10, <1>11 DEF IInv

\* The stack below a node that closes the cycle is the cycle.
LEMMA CycleFoundPreserves ==
  ASSUME IInv, CycleFound
  PROVE  IInv'
<1>1. /\ UNCHANGED <<waitsFor, todo, start, visited, stack, clean>>
      /\ pc = "search" /\ pc' = "found" /\ queue # <<>> /\ Head(queue).node = start
      /\ queue' = Tail(queue) /\ path' = SubSeq(stack, 1, Head(queue).depth)
  BY DEF CycleFound, BuildDeadlockPathList
<1>2. PICK d : d = Head(queue).depth
  OBVIOUS
<1>3. /\ d \in 1..Len(stack) /\ start \in ToSet(waitsFor[stack[d]])
      /\ StackInv /\ start \in TransactionNodes /\ queue' \in Seq(QueueEntries)
  BY SMTT(30), Z3T(30), <1>1, <1>2, PoppedQueue DEF IInv, QueueInv, VisitedInv
<1>4. path' \in Seq(TransactionNodes) /\ Len(path') = d /\ \A i \in 1..d : path'[i] = stack[i]
  BY <1>1, <1>2, <1>3, SetStackIs DEF IInv
<1>5. Len(stack) \in Nat
  BY LenProperties DEF IInv, TypeOK
<1>6. TypeOK'
  BY <1>1, <1>3, <1>4 DEF IInv, TypeOK
<1>7. PathIsCycle'
  <2>1. path' # <<>> /\ path'[1] = start
    BY SMTT(30), Z3T(30), <1>3, <1>4, <1>5, EmptySeq DEF StackInv
  <2>2. ASSUME NEW i \in 1..Len(path') - 1 PROVE path'[i + 1] \in ToSet(waitsFor[path'[i]])
    <3>1. i \in 1..Len(stack) - 1 /\ path'[i] = stack[i] /\ path'[i + 1] = stack[i + 1]
      BY SMTT(30), Z3T(30), <1>3, <1>4, <1>5
    <3> QED
      BY <1>3, <3>1 DEF StackInv
  <2>3. start \in ToSet(waitsFor[path'[Len(path')]])
    BY SMTT(30), Z3T(30), <1>3, <1>4, <1>5
  <2> QED
    BY <1>1, <2>1, <2>2, <2>3 DEF PathIsCycle
<1>8. SearchIsComplete'
  BY <1>1 DEF IInv, SearchIsComplete, OnCycle
<1> QED
  BY <1>1, <1>6, <1>7, <1>8 DEF IInv

\* A node that was visited may leave the queue.
LEMMA SkipPreserves ==
  ASSUME IInv, SkipVisited
  PROVE  IInv'
<1>1. /\ UNCHANGED <<waitsFor, pc, todo, start, visited, stack, clean, path>>
      /\ pc = "search" /\ queue # <<>> /\ Head(queue).node \in visited /\ queue' = Tail(queue)
  BY DEF SkipVisited
<1> DEFINE m == Len(queue) - 1
<1>2. /\ queue' \in Seq(QueueEntries) /\ DOMAIN queue' = 1..m /\ m \in Nat /\ DOMAIN queue = 1..m + 1
      /\ \A k \in 1..m : queue'[k] = queue[k + 1] /\ k + 1 \in 1..m + 1
      /\ queue[1].node \in visited
  BY SMTT(30), Z3T(30), <1>1, PoppedQueue DEF IInv
<1> HIDE DEF m
<1>3. TypeOK'
  BY <1>1, <1>2 DEF IInv, TypeOK
<1>4. StackInv'
  BY <1>1 DEF IInv, StackInv
<1>5. QueueInv'
  BY SMTT(30), Z3T(30), <1>1, <1>2 DEF IInv, QueueInv
<1>6. VisitedInv'
  <2>1. ASSUME NEW x, x \notin visited, NEW k \in DOMAIN queue, queue[k].node = x
        PROVE  \E j \in DOMAIN queue' : queue'[j].node = x
    <3>1. k # 1 /\ k - 1 \in 1..m /\ (k - 1) + 1 = k
      BY SMTT(30), Z3T(30), <1>2, <2>1
    <3> QED
      BY <1>2, <2>1, <3>1
  <2> QED
    BY <1>1, <2>1 DEF IInv, VisitedInv
<1>7. SearchIsComplete' /\ PathIsCycle'
  BY <1>1 DEF IInv, SearchIsComplete, OnCycle, PathIsCycle
<1> QED
  BY <1>1, <1>3, <1>4, <1>5, <1>6, <1>7 DEF IInv

\* A node that is visited goes on top of the stack, and its successors into the queue.
LEMMA VisitPreserves ==
  ASSUME IInv, VisitNode
  PROVE  IInv'
<1>1. PICK node, d : node = Head(queue).node /\ d = Head(queue).depth
  OBVIOUS
<1>2. /\ UNCHANGED <<waitsFor, pc, todo, start, clean, path>>
      /\ pc = "search" /\ queue # <<>> /\ node \notin visited \cup {start}
      /\ visited' = visited \cup {node} /\ stack' = SetStack(d, node)
      /\ queue' = PrependOutgoingNodesToQueue(node, d, Tail(queue))
  BY <1>1 DEF VisitNode, MarkVisited
<1> DEFINE n == Len(waitsFor[node])
           m == Len(queue) - 1
<1>3. /\ TypeOK /\ StackInv /\ QueueInv /\ VisitedInv
  BY <1>2 DEF IInv
<1>4. /\ m \in Nat /\ DOMAIN queue = 1..m + 1 /\ queue[1] = Head(queue)
      /\ Tail(queue) \in Seq(QueueEntries) /\ Len(Tail(queue)) = m
      /\ \A i \in 1..m : Tail(queue)[i] = queue[i + 1] /\ i + 1 \in 1..m + 1
      /\ node \in TransactionNodes /\ d \in Nat
  BY SMTT(30), Z3T(30), <1>1, <1>2, <1>3, PoppedQueue DEF QueueEntries
<1>5. d \in 1..Len(stack) /\ node \in ToSet(waitsFor[stack[d]])
  BY SMTT(30), Z3T(30), <1>1, <1>3, <1>4 DEF QueueInv
<1>6. /\ stack' \in Seq(TransactionNodes) /\ Len(stack') = d + 1
      /\ \A i \in 1..d : stack'[i] = stack[i]
      /\ stack'[d + 1] = node
  BY SMTT(30), Z3T(30), <1>2, <1>3, <1>4, <1>5, SetStackIs
<1>7. n \in Nat /\ Len(stack) \in Nat
  BY <1>3, <1>4, SuccessorTypes, LenProperties DEF TypeOK
<1>8. /\ queue' \in Seq(QueueEntries) /\ Len(queue') = n + m
      /\ \A k \in 1..n : queue'[k].depth = d + 1 /\ queue'[k].node \in ToSet(waitsFor[node])
      /\ \A k \in n + 1 .. n + m : queue'[k] = Tail(queue)[k - n]
      /\ \A x \in ToSet(waitsFor[node]) : \E k \in 1..n : queue'[k].node = x
  <2>1. /\ queue' \in Seq(QueueEntries) /\ Len(queue') = n + Len(Tail(queue))
        /\ \A k \in 1..n : queue'[k].depth = d + 1 /\ queue'[k].node \in ToSet(waitsFor[node])
        /\ \A k \in n + 1 .. n + Len(Tail(queue)) : queue'[k] = Tail(queue)[k - n]
        /\ \A x \in ToSet(waitsFor[node]) : \E k \in 1..n : queue'[k].node = x
    <3>1. queue' = PrependOutgoingNodesToQueue(node, d, Tail(queue))
      BY <1>2
    <3>2. TypeOK /\ node \in TransactionNodes /\ d \in Nat /\ Tail(queue) \in Seq(QueueEntries)
      BY <1>3, <1>4
    <3> QED
      BY <3>1, <3>2, PrependedQueue
  <2> QED
    BY <1>4, <2>1
<1>9. DOMAIN queue' = 1..n + m
  BY <1>8, LenProperties
<1> HIDE DEF n, m
<1>10. ASSUME NEW k \in n + 1 .. n + m
       PROVE  /\ queue'[k] = queue[k - n + 1] /\ k - n + 1 \in 1..m + 1
              /\ queue'[k].depth \in 1..d
  <2>1. k - n \in 1..m /\ queue'[k] = Tail(queue)[k - n]
    BY SMTT(30), Z3T(30), <1>4, <1>7, <1>8
  <2>2. queue'[k] = queue[k - n + 1] /\ k - n + 1 \in 1..m + 1
    BY <1>4, <1>7, <2>1
  <2>3. queue[k - n + 1].depth \in 1..Len(stack) /\ queue[k - n + 1].depth <= queue[1].depth
    BY SMTT(30), Z3T(30), <1>3, <1>4, <1>7, <2>2 DEF QueueInv
  <2> QED
    BY SMTT(30), Z3T(30), <1>1, <1>4, <1>7, <2>2, <2>3
<1>11. \A k \in 1..n + m : k \in 1..n \/ k \in n + 1 .. n + m
  BY SMTT(30), Z3T(30), <1>4, <1>7
<1>12. TypeOK'
  BY <1>2, <1>3, <1>4, <1>6, <1>8 DEF TypeOK
<1>13. StackInv'
  <2>1. stack' # <<>> /\ stack'[1] = start
    BY SMTT(30), Z3T(30), <1>3, <1>5, <1>6, <1>7, EmptySeq DEF StackInv
  <2>2. ASSUME NEW i \in 1..Len(stack') - 1 PROVE stack'[i + 1] \in ToSet(waitsFor[stack'[i]]) \cap visited'
    <3>1. CASE i = d
      BY SMTT(30), Z3T(30), <1>2, <1>5, <1>6, <3>1
    <3>2. CASE i # d
      <4>1. i \in 1..d /\ i + 1 \in 1..d /\ i \in 1..Len(stack) - 1
        BY SMTT(30), Z3T(30), <1>4, <1>5, <1>6, <1>7, <3>2
      <4> QED
        BY <1>2, <1>3, <1>6, <4>1 DEF StackInv
    <3> QED
      BY <3>1, <3>2
  <2>3. ASSUME NEW i \in 1..d PROVE stack[i] \in visited \cup {start}
    <3>1. CASE i = 1
      BY <1>3, <3>1 DEF StackInv
    <3>2. CASE i # 1
      <4>1. PICK j \in 1..Len(stack) - 1 : i = j + 1
        BY SMTT(30), Z3T(30), <1>5, <1>7, <3>2
      <4> QED
        BY <1>3, <4>1 DEF StackInv
    <3> QED
      BY <3>1, <3>2
  <2>4. ASSUME NEW j \in 1..d + 1, NEW i \in 1..j - 1 PROVE stack'[i] # stack'[j]
    <3>1. i \in 1..d
      BY SMTT(30), Z3T(30), <1>4
    <3>2. CASE j = d + 1
      BY <1>2, <1>6, <2>3, <3>1, <3>2
    <3>3. CASE j # d + 1
      <4>1. j \in 1..d /\ j \in 1..Len(stack)
        BY SMTT(30), Z3T(30), <1>4, <1>5, <1>7, <3>3
      <4> QED
        BY <1>3, <1>6, <3>1, <4>1 DEF StackInv
    <3> QED
      BY <3>2, <3>3
  <2> QED
    BY <1>2, <1>6, <2>1, <2>2, <2>4 DEF StackInv
<1>14. QueueInv'
  <2>1. ASSUME NEW k \in 1..n + m
        PROVE  queue'[k].depth \in 1..d + 1 /\ queue'[k].node \in ToSet(waitsFor[stack'[queue'[k].depth]])
    <3>1. CASE k \in 1..n
      BY SMTT(30), Z3T(30), <1>4, <1>6, <1>8, <3>1
    <3>2. CASE k \in n + 1 .. n + m
      <4>1. PICK j \in 1..m + 1 : queue'[k] = queue[j]
        BY <1>10, <3>2
      <4>2. queue[j].node \in ToSet(waitsFor[stack[queue[j].depth]])
        BY <1>3, <1>4 DEF QueueInv
      <4>3. queue'[k].depth \in 1..d
        BY <1>10, <3>2
      <4> QED
        BY SMTT(30), Z3T(30), <1>4, <1>6, <4>1, <4>2, <4>3
    <3> QED
      BY <1>11, <3>1, <3>2
  <2>2. ASSUME NEW j \in 1..n + m, NEW k \in 1..n + m, j <= k PROVE queue'[k].depth <= queue'[j].depth
    <3>1. CASE k \in 1..n
      <4>1. j \in 1..n
        BY SMTT(30), Z3T(30), <1>4, <1>7, <2>2, <3>1
      <4> QED
        BY SMTT(30), Z3T(30), <1>4, <1>8, <3>1, <4>1
    <3>2. CASE k \in n + 1 .. n + m /\ j \in 1..n
      BY SMTT(30), Z3T(30), <1>4, <1>8, <1>10, <3>2
    <3>3. CASE k \in n + 1 .. n + m /\ j \in n + 1 .. n + m
      <4>1. PICK a, b : a = j - n + 1 /\ b = k - n + 1
        OBVIOUS
      <4>2. /\ a \in DOMAIN queue /\ b \in DOMAIN queue /\ a <= b
            /\ queue'[j] = queue[a] /\ queue'[k] = queue[b]
        BY SMTT(30), Z3T(30), <1>4, <1>7, <1>10, <2>2, <3>3, <4>1
      <4> QED
        BY <1>3, <4>2 DEF QueueInv
    <3> QED
      BY <1>11, <3>1, <3>2, <3>3
  <2> QED
    BY <1>2, <1>6, <1>9, <2>1, <2>2 DEF QueueInv
<1>15. VisitedInv'
  <2>1. ASSUME NEW x \in ToSet(waitsFor[node]) PROVE \E k \in DOMAIN queue' : queue'[k].node = x
    <3>1. PICK k \in 1..n : queue'[k].node = x
      BY <1>8
    <3>2. k \in 1..n + m
      BY SMTT(30), Z3T(30), <1>4, <1>7
    <3> QED
      BY <1>9, <3>1, <3>2
  <2>2. ASSUME NEW k \in DOMAIN queue, queue[k].node # node
        PROVE  \E j \in DOMAIN queue' : queue'[j].node = queue[k].node
    <3>1. k # 1
      BY <1>1, <1>4, <2>2
    <3>2. PICK j : j = k - 1 + n
      OBVIOUS
    <3>3. j \in n + 1 .. n + m /\ j \in 1..n + m /\ j - n + 1 = k
      BY SMTT(30), Z3T(30), <1>4, <1>7, <3>1, <3>2
    <3>4. queue'[j] = queue[k]
      BY <1>10, <3>3
    <3> QED
      BY <1>9, <3>3, <3>4
  <2>3. ASSUME NEW p \in visited \cup {start}, NEW x \in ToSet(waitsFor[p])
        PROVE  x \in visited' \/ \E k \in DOMAIN queue' : queue'[k].node = x
    <3>1. CASE x \in visited \cup {node}
      BY <1>2, <3>1
    <3>2. CASE x \notin visited \cup {node}
      <4>1. PICK k \in DOMAIN queue : queue[k].node = x
        BY <1>3, <3>2 DEF VisitedInv
      <4> QED
        BY <2>2, <3>2, <4>1
    <3> QED
      BY <3>1, <3>2
  <2> QED
    BY <1>2, <1>3, <2>1, <2>3 DEF VisitedInv
<1>16. SearchIsComplete' /\ PathIsCycle'
  BY <1>2 DEF IInv, SearchIsComplete, OnCycle, PathIsCycle
<1> QED
  BY <1>12, <1>13, <1>14, <1>15, <1>16 DEF IInv

\* When the queue is empty, what has been visited is closed, and the start is not in it.
LEMMA NoCyclePreserves ==
  ASSUME IInv, NoCycleFound
  PROVE  IInv'
<1>1. /\ UNCHANGED <<waitsFor, todo, start, queue, visited, stack, path>>
      /\ pc = "search" /\ queue = <<>> /\ pc' = "next" /\ clean' = clean \cup {start}
  BY DEF NoCycleFound
<1>2. DOMAIN queue = {}
  BY SMTT(30), Z3T(30), <1>1
<1>3. /\ visited \in SUBSET TransactionNodes /\ start \in TransactionNodes /\ start \notin visited
      /\ \A m \in visited \cup {start} : ToSet(waitsFor[m]) \subseteq visited
  BY <1>1, <1>2 DEF IInv, TypeOK, VisitedInv
<1>4. ~OnCycle(start)
  BY <1>3 DEF OnCycle
<1>5. SearchIsComplete'
  BY <1>1, <1>4 DEF IInv, SearchIsComplete, OnCycle
<1>6. TypeOK' /\ PathIsCycle'
  BY <1>1, <1>3 DEF IInv, TypeOK, PathIsCycle
<1> QED
  BY <1>1, <1>5, <1>6 DEF IInv

\* The steps outside of a search.
LEMMA OtherSteps ==
  ASSUME IInv, CancelYoungest \/ NoBackend \/ LoopDone \/ UNCHANGED vars
  PROVE  IInv'
<1>1. CASE CancelYoungest
  BY <1>1 DEF IInv, CancelYoungest, TypeOK, SearchIsComplete, OnCycle, PathIsCycle
<1>2. CASE NoBackend
  <2>1. <<>> \in Seq(TransactionNodes) /\ <<>> \in Seq(QueueEntries)
    BY SMTT(30), Z3T(30)
  <2> QED
    BY <1>2, <2>1 DEF IInv, NoBackend, TypeOK, SearchIsComplete, OnCycle, PathIsCycle
<1>3. CASE LoopDone
  BY <1>3 DEF IInv, LoopDone, TypeOK, SearchIsComplete, OnCycle, PathIsCycle
<1>4. CASE UNCHANGED vars
  BY <1>4 DEF IInv, vars, TypeOK, SearchIsComplete, OnCycle, PathIsCycle, StackInv, QueueInv, VisitedInv
<1> QED
  BY <1>1, <1>2, <1>3, <1>4

\* Before the first search there is nothing to be said.
LEMMA InitInv == Init => IInv
<1> SUFFICES ASSUME Init PROVE IInv
  OBVIOUS
<1>1. <<>> \in Seq(TransactionNodes) /\ <<>> \in Seq(QueueEntries)
  BY SMTT(30), Z3T(30)
<1>2. waitsFor \in [TransactionNodes -> Seq(TransactionNodes)]
  BY SearchAssumption DEF Init, SearchAssumption
<1> QED
  BY <1>1, <1>2 DEF Init, IInv, TypeOK, SearchIsComplete, PathIsCycle

\* Every step of the loop.
LEMMA NextPreserves == IInv /\ [Next]_vars => IInv'
<1> SUFFICES ASSUME IInv, [Next]_vars PROVE IInv'
  OBVIOUS
<1>1. CASE \E node \in LocalNodes : StartSearch(node)
  BY <1>1, StartPreserves
<1>2. CASE CycleFound
  BY <1>2, CycleFoundPreserves
<1>3. CASE SkipVisited
  BY <1>3, SkipPreserves
<1>4. CASE VisitNode
  BY <1>4, VisitPreserves
<1>5. CASE NoCycleFound
  BY <1>5, NoCyclePreserves
<1>6. CASE CancelYoungest \/ NoBackend \/ LoopDone \/ UNCHANGED vars
  BY <1>6, OtherSteps
<1> QED
  BY <1>1, <1>2, <1>3, <1>4, <1>5, <1>6 DEF Next, Step, Terminated

\* The stack, the queue and the visited marks of the search fit together at every step.
THEOREM Invariance == Spec => []IInv
  BY InitInv, NextPreserves, PTL DEF Spec

\* A transaction for which CheckDeadlockForTransactionNode returns false waits for itself
\* along no chain of waits.
THEOREM NoDeadlockIsMissed == Spec => []SearchIsComplete
<1>1. IInv => SearchIsComplete
  BY DEF IInv
<1> QED
  BY Invariance, <1>1, PTL

\* A wait graph has finitely many edges.
LEMMA FiniteEdges ==
  ASSUME TypeOK
  PROVE  IsFiniteSet(Edges)
<1> DEFINE out == [n \in TransactionNodes |-> {n} \X DOMAIN waitsFor[n]]
           S == {{n} \X DOMAIN waitsFor[n] : n \in TransactionNodes}
<1>1. ASSUME NEW n \in TransactionNodes PROVE IsFiniteSet({n} \X DOMAIN waitsFor[n])
  <2>1. IsFiniteSet(DOMAIN waitsFor[n])
    BY SMTT(30), Z3T(30), SuccessorTypes, FS_Interval
  <2>2. IsFiniteSet({n})
    BY FS_Singleton
  <2> QED
    BY <2>1, <2>2, FS_Product
<1>2. out \in Surjection(TransactionNodes, S)
  BY DEF Surjection
<1>3. IsFiniteSet(S)
  BY <1>2, SearchAssumption, FS_Surjection DEF SearchAssumption
<1> QED
  BY <1>1, <1>3, FS_UNION DEF Edges

\* Each node on the stack but the last has an edge of its own, the one to the next node.
LEMMA StackBound == IInv => StackFits
<1> SUFFICES ASSUME IInv, pc = "search" PROVE Len(stack) <= maxStackDepth
  BY DEF StackFits
<1>1. TypeOK /\ StackInv
  BY DEF IInv
<1>2. PICK n : n = Len(stack) - 1
  OBVIOUS
<1>3. Len(stack) = n + 1 /\ n \in Nat /\ \A i \in 1..n : stack[i] \in TransactionNodes
  <2>1. stack \in Seq(TransactionNodes)
    BY <1>1 DEF TypeOK
  <2>2. Len(stack) \in Nat \ {0} /\ \A i \in 1..Len(stack) : stack[i] \in TransactionNodes
    BY <1>1, <2>1, LenProperties, ElementOfSeq, EmptySeq DEF StackInv
  <2> QED
    BY SMTT(30), Z3T(30), <1>2, <2>2
<1> DEFINE index(i) == CHOOSE k \in DOMAIN waitsFor[stack[i]] : waitsFor[stack[i]][k] = stack[i + 1]
           f == [i \in 1..n |-> <<stack[i], index(i)>>]
<1>4. ASSUME NEW i \in 1..n PROVE <<stack[i], index(i)>> \in Edges
  <2>1. stack[i + 1] \in ToSet(waitsFor[stack[i]])
    BY <1>1, <1>2 DEF StackInv
  <2>2. \E k \in DOMAIN waitsFor[stack[i]] : waitsFor[stack[i]][k] = stack[i + 1]
    BY <2>1 DEF ToSet
  <2>3. index(i) \in DOMAIN waitsFor[stack[i]]
    BY <2>2
  <2> HIDE DEF index
  <2>4. <<stack[i], index(i)>> \in {stack[i]} \X DOMAIN waitsFor[stack[i]]
    BY <2>3
  <2> QED
    BY <1>3, <2>4 DEF Edges
<1>5. \A i, j \in 1..n : stack[i] = stack[j] => i = j
  <2>1. ASSUME NEW i \in 1..n, NEW j \in 1..n, i < j PROVE stack[i] # stack[j]
    <3>1. j \in 1..Len(stack) /\ i \in 1..j - 1
      BY SMTT(30), Z3T(30), <1>3, <2>1
    <3> QED
      BY <1>1, <3>1 DEF StackInv
  <2>2. \A i, j \in 1..n : i < j \/ j < i \/ i = j
    BY SMTT(30), Z3T(30), <1>3
  <2> QED
    BY <2>1, <2>2
<1> HIDE DEF index
<1>6. f \in [1..n -> Edges]
  BY <1>4
<1>7. \A i, j \in 1..n : f[i] = f[j] => i = j
  BY <1>5
<1>8. f \in Injection(1..n, Edges)
  BY <1>6, <1>7 DEF Injection, IsInjective
<1>9. IsFiniteSet(Edges)
  BY <1>1, FiniteEdges
<1> HIDE DEF f
<1>10. Cardinality(1..n) <= Cardinality(Edges)
  BY <1>8, <1>9, FS_Injection
<1>11. Cardinality(1..n) = n
  BY SMTT(30), Z3T(30), <1>3, FS_Interval
<1>12. Cardinality(Edges) \in Nat
  BY <1>9, FS_CardinalityType
<1> QED
  BY SMTT(30), Z3T(30), <1>3, <1>10, <1>11, <1>12 DEF maxStackDepth, edgeCount

\* Assert(currentStackDepth < maxStackDepth) holds: the search writes no slot beyond the
\* edgeCount + 1 that are allocated.
THEOREM StackIsLargeEnough == Spec => []StackFits
  BY Invariance, StackBound, PTL

\* What BuildDeadlockPathList returns is a cycle of waits through the starting node.
THEOREM ReportedPathIsCycle == Spec => []PathIsCycle
<1>1. IInv => PathIsCycle
  BY DEF IInv
<1> QED
  BY Invariance, <1>1, PTL
=============================================================================
