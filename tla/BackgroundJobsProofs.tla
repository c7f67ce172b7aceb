------------------------ MODULE BackgroundJobsProofs ------------------------
(***************************************************************************)
(* BackgroundJobs keeps its inductive invariant for every plan, every      *)
(* limit and any number of faults and cancels, and what follows: moves run *)
(* in the order of their dependencies, commands commit once unless the     *)
(* monitor crashes, nodes are not overloaded, the state of the job is that *)
(* of its tasks, and finished tasks stay finished.                         *)
(***************************************************************************)
EXTENDS BackgroundJobsInv, FiniteSetTheorems, WellFoundedInduction, TLAPS

USE DEF table, local, executors, bounds
\* The provers of the leaves that name none: Zenon, then Z3.
USE ZenonT(30), Z3T(30)

-----------------------------------------------------------------------------
(* Numbers, plans, dependencies                                            *)

\* A set of naturals that is not empty has a least element.
LEMMA LeastElement ==
  ASSUME NEW S \in SUBSET Nat, S # {}
  PROVE  \E m \in S : \A k \in S : m <= k
<1>1. PICK m \in S : \A k \in S : ~(<<k, m>> \in OpToRel(<, Nat))
  BY WFMin, NatLessThanWellFounded
<1>2. \A k \in S : <<k, m>> \in Nat \X Nat /\ <<k, m>>[1] = k /\ <<k, m>>[2] = m
  OBVIOUS
<1>3. \A k \in S : ~(k < m)
  BY <1>1, <1>2 DEF OpToRel
<1> QED
  BY SMTT(30), Z3T(30), <1>3

\* Min is the least element.
LEMMA MinFacts ==
  ASSUME NEW S \in SUBSET Nat, S # {}
  PROVE  Min(S) \in S /\ \A k \in S : Min(S) <= k
BY LeastElement DEF Min

\* Max is the greatest element of a set with a bound.
LEMMA MaxFacts ==
  ASSUME NEW i \in Nat, NEW S \in SUBSET (1..(i - 1)), S # {}
  PROVE  Max(S) \in S /\ \A k \in S : k <= Max(S)
<1> DEFINE T == {i - k : k \in S}
<1>1. T \in SUBSET Nat /\ T # {}
  <2>1. \A k \in S : i - k \in Nat
    BY SMTT(30), Z3T(30)
  <2> QED
    BY <2>1
<1>2. PICK m \in T : \A l \in T : m <= l
  BY <1>1, LeastElement
<1>3. PICK k \in S : m = i - k
  BY <1>2
<1>4. \A y \in S : k >= y
  BY SMTT(30), Z3T(30), <1>2, <1>3
<1>5. Max(S) \in S /\ \A y \in S : Max(S) >= y
  BY <1>4 DEF Max
<1> QED
  BY SMTT(30), Z3T(30), <1>5

\* The moves of a plan are numbered from 1.
LEMMA MovesFacts ==
  ASSUME plan \in Plans
  PROVE  /\ Len(Moves) \in Nat /\ DOMAIN Moves = 1..Len(Moves)
         /\ ReplicateRefTables \in BOOLEAN
         /\ Tasks \subseteq 0..Len(Moves) /\ DOMAIN Moves \subseteq Tasks
         /\ ReplicateRefTables => RefTask \in Tasks
<1>1. Moves \in Seq(Range(Moves)) /\ ReplicateRefTables \in BOOLEAN
  BY JobsAssumption DEF JobsAssumption, Moves, ReplicateRefTables
<1>2. Len(Moves) \in Nat /\ DOMAIN Moves = 1..Len(Moves)
  BY SMTT(30), Z3T(30), <1>1
<1> QED
  BY SMTT(30), Z3T(30), <1>1, <1>2 DEF Tasks, RefTask

\* There are finitely many tasks.
LEMMA TasksFinite ==
  ASSUME plan \in Plans
  PROVE  Tasks \subseteq Nat /\ IsFiniteSet(Tasks)
<1>1. Len(Moves) \in Nat /\ Tasks \subseteq 0..Len(Moves)
  BY MovesFacts
<1>2. IsFiniteSet(0..Len(Moves)) /\ 0..Len(Moves) \subseteq Nat
  BY SMTT(30), Z3T(30), <1>1, FS_Interval
<1> QED
  BY <1>1, <1>2, FS_Subset

\* A task depends on tasks before it; a move behind a move of its group depends on the last.
LEMMA DependencyFacts ==
  ASSUME plan \in Plans, NEW t \in Tasks
  PROVE  \A d \in DependsOn(t) : d \in Tasks /\ d < t
<1>1. /\ Len(Moves) \in Nat /\ t \in 0..Len(Moves) /\ DOMAIN Moves = 1..Len(Moves)
      /\ DOMAIN Moves \subseteq Tasks
      /\ ReplicateRefTables => RefTask \in Tasks
  BY MovesFacts
<1>2. t \in Nat
  BY SMTT(30), Z3T(30), <1>1
<1>3. ColocationDependency(t) \subseteq 1..(t - 1)
  <2> DEFINE earlier == {k \in 1..(t - 1) : Moves[k].group = Moves[t].group}
  <2>1. earlier # {} => Max(earlier) \in earlier
    BY <1>2, MaxFacts
  <2> QED
    BY <2>1 DEF ColocationDependency
<1>4. \A d \in 1..(t - 1) : d \in Tasks /\ d < t
  BY SMTT(30), Z3T(30), <1>1
<1>5. t # RefTask /\ ReplicateRefTables => RefTask \in Tasks /\ RefTask < t
  BY SMTT(30), Z3T(30), <1>1, <1>2 DEF RefTask
<1>6. ColocationDependency(t) \cup NodeDependencies(t) \subseteq 1..(t - 1)
  BY <1>3 DEF NodeDependencies
<1> QED
  BY <1>4, <1>5, <1>6 DEF DependsOn

\* Tasks and dependencies are those of the plan.
LEMMA SamePlan ==
  ASSUME plan' = plan
  PROVE  /\ Tasks' = Tasks /\ Nodes' = Nodes
         /\ \A t : DependsOn(t)' = DependsOn(t) /\ NodesInvolved(t)' = NodesInvolved(t)
BY DEF Tasks, Nodes, DependsOn, NodesInvolved, ColocationDependency, NodeDependencies, Moves, ReplicateRefTables

\* Behind a task that is not done no task is ready.
LEMMA DependantsAreNotReady ==
  ASSUME OrderInv, NEW u \in Tasks, status[u] # "done"
  PROVE  \A x \in AllDependants(u) : ~Ready(x)
<1> DEFINE S == {x \in Tasks : ~Ready(x)}
<1>1. ASSUME NEW v \in S \cup {u}, NEW w \in Dependants(v)
      PROVE  w \in S
  <2>1. v \in Tasks /\ status[v] # "done"
    BY DEF OrderInv
  <2> QED
    BY <2>1 DEF Dependants, Ready
<1>2. S \in SUBSET Tasks /\ \A v \in S \cup {u} : Dependants(v) \subseteq S
  BY <1>1
<1>3. \A x \in AllDependants(u) : x \in S
  <2> HIDE DEF S
  <2> QED
    BY <1>2 DEF AllDependants
<1> QED
  BY <1>3

\* A dependant of a task depends on the task or on another dependant of it.
LEMMA DependantsAreBehind ==
  ASSUME NEW u \in Tasks, NEW x \in AllDependants(u)
  PROVE  \E d \in DependsOn(x) : d = u \/ d \in AllDependants(u)
<1> DEFINE S == {y \in AllDependants(u) : \E d \in DependsOn(y) : d = u \/ d \in AllDependants(u)}
<1>1. ASSUME NEW v \in S \cup {u}, NEW w \in Dependants(v)
      PROVE  w \in S
  <2>1. v = u \/ v \in AllDependants(u)
    OBVIOUS
  <2>2. w \in Tasks /\ v \in DependsOn(w)
    BY DEF Dependants
  <2>3. w \in AllDependants(u)
    <3> SUFFICES ASSUME NEW C \in SUBSET Tasks, \A y \in C \cup {u} : Dependants(y) \subseteq C
                 PROVE  w \in C
      BY <2>2 DEF AllDependants
    <3>1. v \in C \cup {u}
      BY <2>1 DEF AllDependants
    <3> QED
      BY <3>1
  <2> QED
    BY <2>1, <2>2, <2>3
<1>2. S \in SUBSET Tasks /\ \A v \in S \cup {u} : Dependants(v) \subseteq S
  BY <1>1 DEF AllDependants
<1>3. x \in S
  <2> HIDE DEF S
  <2> QED
    BY <1>2 DEF AllDependants
<1> QED
  BY <1>3

\* Pids are positive, and there are as many as processes and ended executors need.
LEMMA PidFacts ==
  /\ Pids \subseteq Nat /\ None \notin Pids /\ IsFiniteSet(Pids)
  /\ Cardinality(Pids) = MaxWorkerProcesses + MaxBackgroundTaskExecutors
<1>1. MaxWorkerProcesses \in Nat /\ MaxBackgroundTaskExecutors \in Nat /\ MaxBackgroundTaskExecutors # 0
  BY JobsAssumption DEF JobsAssumption
<1>2. MaxWorkerProcesses + MaxBackgroundTaskExecutors \in Nat \ {0}
  BY SMTT(30), Z3T(30), <1>1
<1> DEFINE n == MaxWorkerProcesses + MaxBackgroundTaskExecutors
<1>3. IsFiniteSet(1..n) /\ Cardinality(1..n) = n
  <2>1. n \in Int /\ 1 \in Int /\ ~(1 > n) /\ n - 1 + 1 = n
    BY SMTT(30), Z3T(30), <1>2
  <2> QED
    BY <2>1, FS_Interval
<1>4. 1..n \subseteq Nat /\ 0 \notin 1..n
  BY SMTT(30), Z3T(30), <1>2
<1> QED
  BY <1>3, <1>4 DEF Pids, None

\* When an executor may be started there is a process to start.
LEMMA FreePidExists ==
  ASSUME plan \in Plans, TypeOK, ProcessInv, ~NoExecutor
  PROVE  Min(FreePids) \in Pids /\ process[Min(FreePids)].state = "free"
<1> DEFINE A == {p \in Pids : Alive(p)}
           T == {p \in Pids : Tracked(p)}
           f == [t \in Entries |-> executorOf[t]]
<1>1. IsFiniteSet(Entries) /\ Entries \subseteq Tasks
  BY TasksFinite, FS_Subset DEF Entries
<1>2. f \in Surjection(Entries, T)
  <2>1. f \in [Entries -> T]
    BY DEF Entries, Tracked, TypeOK
  <2>2. \A p \in T : \E t \in Entries : f[t] = p
    BY DEF Tracked
  <2> QED
    BY <2>1, <2>2 DEF Surjection
<1>3. IsFiniteSet(T) /\ Cardinality(T) <= Cardinality(Entries)
  <2> HIDE DEF f, T
  <2> QED
    BY <1>1, <1>2, FS_Surjection
<1>4. IsFiniteSet(A)
  BY PidFacts, FS_Subset
<1>5. FreePids # {}
  <2> SUFFICES ASSUME FreePids = {} PROVE FALSE
    OBVIOUS
  <2>1. Pids = A \cup T
    BY DEF FreePids, ProcessInv, TypeOK, Alive
  <2>2. /\ Cardinality(Pids) = Cardinality(A) + Cardinality(T) - Cardinality(A \cap T)
        /\ IsFiniteSet(A \cap T)
    <3> HIDE DEF A, T
    <3> QED
      BY <1>3, <1>4, <2>1, FS_Union, FS_Intersection
  <2>3. /\ Cardinality(A) \in Nat /\ Cardinality(T) \in Nat /\ Cardinality(A \cap T) \in Nat
        /\ Cardinality(Entries) \in Nat
    BY <1>1, <1>3, <1>4, <2>2, FS_CardinalityType
  <2>4. ~(Cardinality(Entries) >= MaxBackgroundTaskExecutors) /\ ~(Cardinality(A) >= MaxWorkerProcesses)
    BY DEF NoExecutor
  <2> HIDE DEF A, T
  <2> QED
    BY SMTT(30), Z3T(30), <1>3, <2>2, <2>3, <2>4, PidFacts, JobsAssumption DEF JobsAssumption
<1>6. Min(FreePids) \in FreePids
  BY <1>5, PidFacts, MinFacts DEF FreePids
<1> QED
  BY <1>6 DEF FreePids

-----------------------------------------------------------------------------
(* What the steps leave alone                                              *)

\* The executors the monitor follows.
LEMMA SameEntries ==
  ASSUME plan' = plan, executorOf' = executorOf
  PROVE  Entries' = Entries /\ \A p : Tracked(p)' = Tracked(p)
BY SamePlan DEF Entries, Tracked

\* A task that is ready stays so while done tasks stay done.
LEMMA ReadyStays ==
  ASSUME plan \in Plans, plan' = plan, \A t \in Tasks : status[t] = "done" => status'[t] = "done"
  PROVE  \A t \in Tasks : Ready(t) => Ready(t)'
BY SamePlan, DependencyFacts DEF Ready

\* The statuses of the dependencies decide whether a task is ready.
LEMMA ReadySame ==
  ASSUME plan' = plan, status' = status
  PROVE  \A t : Ready(t)' = Ready(t)
BY SamePlan DEF Ready

\* The count of the nodes is kept with the executors.
LEMMA SameNodes ==
  ASSUME NodeInv, plan' = plan, executorOf' = executorOf, taskCount' = taskCount
  PROVE  NodeInv'
<1>1. \A n : {t \in Entries : n \in NodesInvolved(t)}' = {t \in Entries : n \in NodesInvolved(t)}
  BY SMTT(30), Z3T(30), SamePlan, SameEntries
<1> QED
  BY <1>1, SamePlan DEF NodeInv

\* Statuses that count alike for a job give it the same state.
LEMMA SameJobState ==
  ASSUME plan' = plan, NEW r, NEW s,
         \A t \in Tasks : s[t] = r[t] \/ (s[t] \in {"runnable", "running"} /\ r[t] \in {"runnable", "running"})
  PROVE  JobState(s) = JobState(r)
<1> DEFINE some(x, S) == \E t \in Tasks : x[t] \in S
<1>1. /\ some(s, {"cancelling"}) <=> some(r, {"cancelling"})
      /\ some(s, {"cancelled"}) <=> some(r, {"cancelled"})
      /\ some(s, {"error", "unscheduled"}) <=> some(r, {"error", "unscheduled"})
  OBVIOUS
<1>2. some(s, {"blocked", "runnable", "running", "error", "unscheduled"})
        <=> some(r, {"blocked", "runnable", "running", "error", "unscheduled"})
  OBVIOUS
<1>3. some(s, {"blocked", "runnable", "running"}) <=> some(r, {"blocked", "runnable", "running"})
  OBVIOUS
<1> QED
  BY <1>1, <1>2, <1>3 DEF JobState

\* The state of the job is kept with the statuses.
LEMMA SameJob ==
  ASSUME JobFollowsTasks, plan' = plan, status' = status, job' = job
  PROVE  JobFollowsTasks'
BY SamePlan DEF JobFollowsTasks, JobState

-----------------------------------------------------------------------------
(* The steps keep the invariant                                            *)

\* Steps that only move the monitor on, or change what the invariant does not speak of.
LEMMA QuietStep ==
  ASSUME IInv, UNCHANGED <<plan, status, retryCount, job, executorOf, assigned, taskCount, process, commits, crashed>>,
         monitor' \in {"off", "started", "reset"} => monitor \in {"off", "started", "reset"},
         monitor' # "assign" => monitor # "assign"
  PROVE  Consistent'
<1>1. Tasks' = Tasks /\ Entries' = Entries /\ (\A p : Tracked(p)' = Tracked(p)) /\ (\A t : Ready(t)' = Ready(t))
  BY SamePlan, SameEntries, ReadySame
<1>2. MonitorInv'
  BY <1>1 DEF IInv, Consistent, MonitorInv
<1>3. ProcessInv'
  BY <1>1 DEF IInv, Consistent, ProcessInv
<1>4. OrderInv'
  BY SMTT(30), Z3T(30), <1>1, SamePlan DEF IInv, Consistent, OrderInv
<1>5. NodeInv' /\ JobFollowsTasks'
  BY SameNodes, SameJob DEF IInv, Consistent
<1>6. OnceInv'
  BY <1>1 DEF IInv, Consistent, OnceInv
<1> QED
  BY <1>2, <1>3, <1>4, <1>5, <1>6 DEF Consistent

\* How often a command committed, counted up to two.
LEMMA CommitCount ==
  ASSUME NEW n \in 0..2
  PROVE  Min({n + 1, 2}) \in 1..2 /\ (n = 0 => Min({n + 1, 2}) = 1)
<1>1. {n + 1, 2} \in SUBSET Nat /\ {n + 1, 2} # {}
  BY SMTT(30), Z3T(30)
<1>2. Min({n + 1, 2}) \in {n + 1, 2} /\ \A k \in {n + 1, 2} : Min({n + 1, 2}) <= k
  BY <1>1, MinFacts
<1> QED
  BY SMTT(30), Z3T(30), <1>2

\* An executor gets its lock, commits, or ends without having committed.
LEMMA ProcessEffect ==
  ASSUME TypeOK, ProcessInv, NEW p \in Pids, AcquireTaskLock(p) \/ CommandCommits(p) \/ CommandFails(p)
  PROVE  /\ UNCHANGED <<table, monitor, local, bounds>>
         /\ process[p].state \in {"starting", "executing"} /\ process[p].task \in Tasks
         /\ process' \in [Pids -> [task : Tasks \cup {None},
                                   state : {"free", "lost", "starting", "executing", "failed", "succeeded"}]]
         /\ \A q \in Pids \ {p} : process'[q] = process[q]
         /\ \/ process'[p].state = "free" /\ ~Tracked(p)
            \/ /\ process'[p].task = process[p].task
               /\ \/ process'[p].state = "executing"
                  \/ process'[p].state \in {"failed", "succeeded"} /\ Tracked(p)
         /\ \/ commits' = commits /\ process'[p].state # "succeeded"
            \/ /\ process'[p].state \in {"succeeded", "free"}
               /\ commits' = [commits EXCEPT ![process[p].task] = Min({@ + 1, 2})]
<1> DEFINE State == {"free", "lost", "starting", "executing", "failed", "succeeded"}
           Record == [task : Tasks \cup {None}, state : State]
<1>1. PICK k, q : k = process[p].task /\ q = process[p].state
  OBVIOUS
<1>2. process \in [Pids -> Record] /\ process[p] \in Record
  BY DEF TypeOK
<1>3. process[p] = [task |-> k, state |-> q] /\ k \in Tasks \cup {None} /\ q \in State
  BY <1>1, <1>2
<1>4. UNCHANGED <<table, monitor, local, bounds>> /\ q \in {"starting", "executing"}
  BY <1>1 DEF AcquireTaskLock, CommandCommits, CommandFails, Alive
<1>5. k \in Tasks
  BY <1>1, <1>4 DEF ProcessInv
<1>6. ASSUME NEW r \in {"failed", "succeeded"}, Exit(p, r)
      PROVE  \/ process' = [process EXCEPT ![p] = Free] /\ ~Tracked(p)
             \/ process' = [process EXCEPT ![p] = [task |-> k, state |-> r]] /\ Tracked(p)
  <2>1. [process[p] EXCEPT !.state = r] = [task |-> k, state |-> r]
    BY SMTT(30), Z3T(30), <1>3
  <2> QED
    BY <1>6, <2>1 DEF Exit
<1>7. \/ process' = [process EXCEPT ![p] = Free] /\ ~Tracked(p)
      \/ \E r \in {"failed", "succeeded"} :
           process' = [process EXCEPT ![p] = [task |-> k, state |-> r]] /\ Tracked(p)
      \/ process' = [process EXCEPT ![p] = [task |-> k, state |-> "executing"]] /\ commits' = commits
  <2>1. CASE AcquireTaskLock(p) /\ LockFree(process[p].task)
    <3>1. [process[p] EXCEPT !.state = "executing"] = [task |-> k, state |-> "executing"]
      BY SMTT(30), Z3T(30), <1>3
    <3>2. process' = [process EXCEPT ![p].state = "executing"] /\ commits' = commits
      BY <2>1 DEF AcquireTaskLock
    <3> QED
      BY <3>1, <3>2
  <2>2. CASE AcquireTaskLock(p) /\ ~LockFree(process[p].task)
    <3>1. Exit(p, "failed")
      BY <2>2 DEF AcquireTaskLock
    <3> QED
      BY <1>6, <3>1
  <2>3. CASE CommandCommits(p)
    BY <1>6, <2>3 DEF CommandCommits
  <2>4. CASE CommandFails(p)
    BY <1>6, <2>4 DEF CommandFails
  <2> QED
    BY <2>1, <2>2, <2>3, <2>4
<1>8. PICK x \in Record : /\ process' = [process EXCEPT ![p] = x]
                          /\ \/ x = Free /\ ~Tracked(p)
                             \/ \E r \in {"failed", "succeeded"} : x = [task |-> k, state |-> r] /\ Tracked(p)
                             \/ x = [task |-> k, state |-> "executing"] /\ commits' = commits
  BY <1>5, <1>7 DEF Free
<1>9. process' \in [Pids -> Record] /\ process'[p] = x /\ \A o \in Pids \ {p} : process'[o] = process[o]
  BY <1>2, <1>8
<1>10. \/ x.state = "free" /\ ~Tracked(p)
       \/ /\ x.task = k
          /\ x.state = "executing" \/ (x.state \in {"failed", "succeeded"} /\ Tracked(p))
  BY SMTT(30), Z3T(30), <1>8 DEF Free
<1>11. \/ commits' = commits /\ x.state # "succeeded"
       \/ /\ x.state \in {"succeeded", "free"}
          /\ commits' = [commits EXCEPT ![k] = Min({@ + 1, 2})]
  <2>1. ASSUME Exit(p, "failed") PROVE x.state # "succeeded"
    BY SMTT(30), Z3T(30), <1>6, <1>9, <2>1 DEF Free
  <2>2. ASSUME Exit(p, "succeeded") PROVE x.state \in {"succeeded", "free"}
    BY SMTT(30), Z3T(30), <1>6, <1>9, <2>2 DEF Free
  <2>3. CASE AcquireTaskLock(p) /\ LockFree(process[p].task)
    <3>1. process' = [process EXCEPT ![p].state = "executing"] /\ commits' = commits
      BY <2>3 DEF AcquireTaskLock
    <3>2. x.state = "executing"
      BY SMTT(30), Z3T(30), <1>2, <1>9, <3>1
    <3> QED
      BY <3>1, <3>2
  <2>4. CASE AcquireTaskLock(p) /\ ~LockFree(process[p].task)
    BY <2>1, <2>4 DEF AcquireTaskLock
  <2>5. CASE CommandCommits(p)
    BY <1>1, <2>2, <2>5 DEF CommandCommits
  <2>6. CASE CommandFails(p)
    BY <2>1, <2>6 DEF CommandFails
  <2> QED
    BY <2>3, <2>4, <2>5, <2>6
<1> QED
  BY <1>1, <1>4, <1>5, <1>9, <1>10, <1>11

\* A step of an executor.
LEMMA ProcessStep ==
  ASSUME IInv, NEW p \in Pids, AcquireTaskLock(p) \/ CommandCommits(p) \/ CommandFails(p)
  PROVE  Consistent'
<1>1. TypeOK /\ MonitorInv /\ ProcessInv /\ OrderInv /\ NodeInv /\ OnceInv /\ JobFollowsTasks
  BY DEF IInv, Consistent
<1>2. PICK k \in Tasks : k = process[p].task
  BY <1>1, ProcessEffect
<1>3. /\ UNCHANGED <<plan, status, pid, retryCount, job, monitor, executorOf, assigned, taskCount, crashed>>
      /\ process[p].state \in {"starting", "executing"}
      /\ \A q \in Pids \ {p} : process'[q] = process[q]
  BY <1>1, ProcessEffect
<1>4. \/ process'[p].state = "free" /\ ~Tracked(p)
      \/ /\ process'[p].task = k
         /\ process'[p].state = "executing" \/ (process'[p].state \in {"failed", "succeeded"} /\ Tracked(p))
  BY <1>1, <1>2, ProcessEffect
<1>5. /\ \A t \in Tasks \ {k} : commits'[t] = commits[t]
      /\ \/ commits'[k] = commits[k] /\ process'[p].state # "succeeded"
         \/ /\ process'[p].state \in {"succeeded", "free"} /\ commits'[k] \in 1..2
            /\ commits[k] = 0 => commits'[k] = 1
  <2>1. commits \in [Tasks -> 0..2] /\ commits[k] \in 0..2
    BY <1>1 DEF TypeOK
  <2>2. CASE commits' = commits /\ process'[p].state # "succeeded"
    BY <2>2
  <2>3. CASE process'[p].state \in {"succeeded", "free"} /\ commits' = [commits EXCEPT ![k] = Min({@ + 1, 2})]
    <3>1. commits'[k] = Min({commits[k] + 1, 2}) /\ \A t \in Tasks \ {k} : commits'[t] = commits[t]
      BY <2>1, <2>3
    <3> QED
      BY <2>1, <2>3, <3>1, CommitCount
  <2> QED
    BY <1>1, <1>2, <2>2, <2>3, ProcessEffect
<1>6. commits[k] \in Nat /\ commits'[k] \in Nat /\ (commits[k] > 0 => commits'[k] > 0)
  BY SMTT(30), Z3T(30), <1>1, <1>5 DEF TypeOK
<1>7. Tasks' = Tasks /\ Entries' = Entries /\ (\A q : Tracked(q)' = Tracked(q)) /\ (\A t : Ready(t)' = Ready(t))
  BY <1>3, SamePlan, SameEntries, ReadySame
<1>8. Ready(k)
  BY <1>1, <1>2, <1>3 DEF ProcessInv
<1>9. ASSUME NEW t \in Entries
      PROVE  /\ executorOf[t] \in Pids /\ process[executorOf[t]].task = t
             /\ process'[executorOf[t]].task = t /\ process'[executorOf[t]].state # "free"
             /\ executorOf[t] = p <=> t = k /\ executorOf[k] = p
  <2>1. executorOf[t] \in Pids /\ process[executorOf[t]].task = t /\ process[executorOf[t]].state # "free"
    BY SMTT(30), Z3T(30), <1>1 DEF MonitorInv, TypeOK, Entries
  <2>2. executorOf[t] = p => t = k /\ Tracked(p)
    BY <1>2, <2>1 DEF Tracked
  <2> QED
    BY <1>3, <1>4, <2>1, <2>2
<1>10. MonitorInv'
  BY <1>1, <1>3, <1>7, <1>9 DEF MonitorInv
<1>11. ProcessInv'
  <2> SUFFICES ASSUME NEW q \in Pids
               PROVE  /\ process'[q].state # "free" => process'[q].task \in Tasks
                      /\ \A t \in Tasks : process'[q].state # "free" /\ process'[q].task = t => Ready(t)
                      /\ process'[q].state \in {"lost", "failed", "succeeded"} => Tracked(q)
                      /\ process'[q].state = "succeeded" => commits'[process'[q].task] > 0
    BY <1>7 DEF ProcessInv
  <2>1. CASE q = p
    <3>1. process'[p].state = "succeeded" => commits'[k] > 0
      BY SMTT(30), Z3T(30), <1>4, <1>5
    <3> QED
      BY <1>4, <1>8, <2>1, <3>1
  <2>2. CASE q # p
    <3>1. process'[q] = process[q]
      BY <1>3, <2>2
    <3>2. process[q].state = "succeeded" => process[q].task \in Tasks /\ commits[process[q].task] > 0
      BY <1>1 DEF ProcessInv
    <3>3. process[q].state = "succeeded" => commits'[process[q].task] > 0
      BY <1>5, <1>6, <3>2
    <3> QED
      BY <1>1, <3>1, <3>3 DEF ProcessInv
  <2> QED
    BY <2>1, <2>2
<1>12. OrderInv'
  <2> SUFFICES ASSUME NEW t \in Tasks
               PROVE  /\ status[t] \notin {"blocked", "cancelled", "unscheduled"} \/ commits'[t] > 0 => Ready(t)
                      /\ status[t] = "done" => commits'[t] > 0
    BY SMTT(30), Z3T(30), <1>1, <1>3, <1>7, SamePlan DEF OrderInv
  <2> QED
    BY <1>1, <1>5, <1>6, <1>8 DEF OrderInv
<1>13. NodeInv' /\ JobFollowsTasks'
  BY <1>1, <1>3, SameNodes, SameJob
<1>14. OnceInv'
  <2> SUFFICES ASSUME ~crashed PROVE OnceInv'
    BY <1>3 DEF OnceInv
  <2>1. executorOf[k] = p /\ k \in Entries /\ Tracked(p)
    BY SMTT(30), Z3T(30), <1>1, <1>2, <1>3, PidFacts DEF OnceInv, Entries, Tracked
  <2>2. commits[k] = 0
    BY SMTT(30), Z3T(30), <1>1, <1>3, <1>6, <2>1 DEF OnceInv
  <2>3. commits'[k] <= 1 /\ (commits'[k] = 1 <=> process'[p].state = "succeeded")
    BY SMTT(30), Z3T(30), <1>4, <1>5, <2>1, <2>2
  <2>4. ASSUME NEW t \in Tasks
        PROVE  /\ status[t] = "running" => t \in Entries
               /\ commits'[t] <= 1
               /\ t \in Entries => (commits'[t] = 1 <=> process'[executorOf[t]].state = "succeeded")
               /\ t \notin Entries /\ commits'[t] = 1 => status[t] \in {"done", "cancelled"}
    <3>1. CASE t = k
      BY <1>1, <2>1, <2>3, <3>1 DEF OnceInv
    <3>2. CASE t # k
      <4>1. commits'[t] = commits[t] /\ (t \in Entries => process'[executorOf[t]] = process[executorOf[t]])
        BY <1>3, <1>5, <1>9, <3>2
      <4> QED
        BY <1>1, <4>1 DEF OnceInv
    <3> QED
      BY <3>1, <3>2
  <2>5. ASSUME NEW q \in Pids, process'[q].state # "free" PROVE executorOf[process'[q].task] = q
    BY SMTT(30), Z3T(30), <1>1, <1>3, <1>4, <2>1, <2>5 DEF OnceInv
  <2> QED
    BY <1>3, <1>7, <2>4, <2>5 DEF OnceInv
<1> QED
  BY <1>10, <1>11, <1>12, <1>13, <1>14 DEF Consistent

\* Steps that change statuses and leave the executors alone.
LEMMA StatusStep ==
  ASSUME IInv, UNCHANGED <<plan, retryCount, executorOf, process, commits, crashed>>, NodeInv', JobFollowsTasks',
         monitor' \in {"off", "started", "reset"} => Entries = {}, assigned' = {},
         \A t \in Tasks : status[t] \in {"done", "error", "unscheduled", "cancelled"} => status'[t] = status[t],
         \A t \in Tasks : \/ status'[t] \in {status[t], "cancelled"}
                          \/ status[t] \in {"runnable", "running"} /\ status'[t] \in {"runnable", "running", "cancelling"},
         \A t \in Entries : status'[t] \in {"running", "cancelling", "cancelled"},
         \A t \in Tasks : ~crashed /\ status'[t] = "running" => t \in Entries
  PROVE  Consistent'
<1>1. plan \in Plans /\ TypeOK /\ MonitorInv /\ ProcessInv /\ OrderInv /\ OnceInv
  BY DEF IInv, Consistent
<1>2. Tasks' = Tasks /\ Entries' = Entries /\ \A p : Tracked(p)' = Tracked(p)
  BY SamePlan, SameEntries
<1>3. \A t \in Tasks : Ready(t) => Ready(t)'
  BY <1>1, ReadyStays
<1>4. MonitorInv'
  BY SMTT(30), Z3T(30), <1>1, <1>2 DEF MonitorInv
<1>5. ProcessInv'
  BY <1>1, <1>2, <1>3 DEF ProcessInv
<1>6. OrderInv'
  <2> SUFFICES ASSUME NEW t \in Tasks
               PROVE  /\ status'[t] \notin {"blocked", "cancelled", "unscheduled"} \/ commits[t] > 0 => Ready(t)'
                      /\ status'[t] = "done" => commits[t] > 0
                      /\ status'[t] = "unscheduled" => \E d \in DependsOn(t) : status'[d] \in {"error", "unscheduled"}
                      /\ retryCount[t] > RetryLimit => status'[t] = "error"
    BY SMTT(30), Z3T(30), <1>2, SamePlan DEF OrderInv
  <2>1. status'[t] \notin {"blocked", "cancelled", "unscheduled"} \/ commits[t] > 0 => Ready(t)'
    BY <1>1, <1>3 DEF OrderInv
  <2>2. status'[t] \in {"done", "unscheduled"} => status[t] = status'[t]
    OBVIOUS
  <2>3. status'[t] = "unscheduled" => \E d \in DependsOn(t) : status'[d] \in {"error", "unscheduled"}
    BY SMTT(30), Z3T(30), <1>1, <2>2, DependencyFacts DEF OrderInv
  <2> QED
    BY <1>1, <2>1, <2>2, <2>3 DEF OrderInv
<1>7. OnceInv'
  <2> SUFFICES ASSUME ~crashed, NEW t \in Tasks
               PROVE  t \notin Entries /\ commits[t] = 1 => status'[t] \in {"done", "cancelled"}
    BY SMTT(30), Z3T(30), <1>1, <1>2 DEF OnceInv
  <2> QED
    BY <1>1 DEF OnceInv
<1> QED
  BY <1>4, <1>5, <1>6, <1>7 DEF Consistent

\* The monitor makes the tasks of an earlier one runnable again: it follows no executor yet.
LEMMA ResetStep ==
  ASSUME IInv, ResetCommits
  PROVE  Consistent'
<1>1. TypeOK /\ MonitorInv /\ OnceInv /\ NodeInv /\ JobFollowsTasks
  BY DEF IInv, Consistent
<1>2. /\ UNCHANGED <<plan, retryCount, job, executorOf, assigned, taskCount, process, commits, crashed>>
      /\ monitor = "reset" /\ monitor' = "loop"
      /\ status' = [t \in Tasks |-> IF status[t] = "running" THEN "runnable" ELSE status[t]]
  BY DEF ResetCommits
<1>3. Entries = {} /\ assigned' = {}
  BY <1>1, <1>2 DEF MonitorInv
<1>4. JobFollowsTasks'
  <2>1. JobState(status') = JobState(status)
    <3> HIDE DEF JobState
    <3>1. PICK s : s = status'
      OBVIOUS
    <3>2. \A t \in Tasks : s[t] = status[t] \/ (s[t] \in {"runnable", "running"} /\ status[t] \in {"runnable", "running"})
      BY <1>2, <3>1
    <3> QED
      BY <1>2, <3>1, <3>2, SameJobState
  <2>2. JobState(status)' = JobState(status')
    BY <1>2, SamePlan DEF JobState
  <2>3. (\A t \in Tasks : status[t] \in {"blocked", "runnable"}) => \A t \in Tasks : status'[t] \in {"blocked", "runnable"}
    BY <1>2
  <2> QED
    BY <1>1, <1>2, <2>1, <2>2, <2>3, SamePlan DEF JobFollowsTasks
<1>5. NodeInv'
  BY <1>1, <1>2, SameNodes
<1>6. \A t \in Tasks : status'[t] = IF status[t] = "running" THEN "runnable" ELSE status[t]
  BY <1>2
<1> QED
  BY <1>2, <1>3, <1>4, <1>5, <1>6, StatusStep

\* A cancel leaves alone what has finished.
LEMMA CancelStep ==
  ASSUME IInv, CancelTasksForJob, monitor # "assign",
         UNCHANGED <<plan, retryCount, executorOf, assigned, taskCount, process, commits, crashed>>,
         monitor' \in {"off", "started", "reset"} => monitor \in {"off", "started", "reset"}
  PROVE  Consistent'
<1>1. TypeOK /\ MonitorInv /\ OnceInv /\ NodeInv
  BY DEF IInv, Consistent
<1>2. JobFollowsTasks'
  <2>1. job' = JobState(status')
    BY DEF CancelTasksForJob
  <2>2. JobState(status)' = JobState(status')
    BY SamePlan DEF JobState
  <2> QED
    BY <2>1, <2>2 DEF JobFollowsTasks
<1>3. NodeInv'
  BY <1>1, SameNodes
<1>4. ASSUME NEW t \in Tasks
      PROVE  \/ status[t] \in TaskTerminal /\ status'[t] = status[t]
             \/ status[t] \notin TaskTerminal /\ status[t] = "running" /\ status'[t] = "cancelling"
             \/ status[t] \notin TaskTerminal /\ status'[t] = "cancelled"
  BY DEF CancelTasksForJob, CancelledStatus, RunningWithPid
<1>5. assigned' = {} /\ (monitor' \in {"off", "started", "reset"} => Entries = {})
  BY <1>1 DEF MonitorInv
<1>6. \A t \in Entries : status'[t] \in {"running", "cancelling", "cancelled"}
  BY <1>1, <1>4 DEF MonitorInv, Entries, TaskTerminal
<1>7. \A t \in Tasks : status'[t] # "running"
  BY <1>4 DEF TaskTerminal
<1> QED
  BY <1>2, <1>3, <1>4, <1>5, <1>6, <1>7, StatusStep DEF TaskTerminal

\* A task that may run is counted for nodes that have room for it.
LEMMA IncrementEffect ==
  ASSUME TypeOK, NodeInv, NEW t \in Runnable, IncrementParallelTaskCount(t)
  PROVE  /\ taskCount' \in [Nodes -> Nat]
         /\ \A n \in Nodes :
              /\ taskCount'[n] = taskCount[n] + (IF n \in NodesInvolved(t) THEN 1 ELSE 0)
              /\ taskCount'[n] <= MaxBackgroundTaskExecutorsPerNode
<1>1. \A n \in Nodes : taskCount'[n] = taskCount[n] + (IF n \in NodesInvolved(t) THEN 1 ELSE 0)
  BY DEF IncrementParallelTaskCount
<1>2. taskCount \in [Nodes -> Nat] /\ \A n \in Nodes : taskCount[n] \in Nat
  BY DEF TypeOK
<1>3. \A n \in NodesInvolved(t) : ~(taskCount[n] >= MaxBackgroundTaskExecutorsPerNode)
  BY DEF Runnable, NodeLimitReached
<1>4. \A n \in Nodes : taskCount[n] <= MaxBackgroundTaskExecutorsPerNode
  BY DEF NodeInv
<1>5. \A n \in Nodes : taskCount'[n] \in Nat /\ taskCount'[n] <= MaxBackgroundTaskExecutorsPerNode
  BY SMTT(30), Z3T(30), <1>1, <1>2, <1>3, <1>4, JobsAssumption DEF JobsAssumption
<1>6. taskCount' = [n \in Nodes |-> taskCount'[n]]
  BY <1>1 DEF IncrementParallelTaskCount
<1> QED
  BY <1>1, <1>5, <1>6

\* The first of the tasks that may run.
LEMMA RunnableFacts ==
  ASSUME plan \in Plans, Runnable # {}
  PROVE  /\ Min(Runnable) \in Runnable /\ Min(Runnable) \in Tasks
         /\ Min(Runnable) \notin assigned /\ status[Min(Runnable)] = "runnable" /\ Ready(Min(Runnable))
<1>1. Min(Runnable) \in Runnable
  BY TasksFinite, MinFacts DEF Runnable
<1> QED
  BY <1>1 DEF Runnable, BackgroundTaskReadyToRun, HasUnmetDependencies, Ready

\* The executors that involve a node are finitely many.
LEMMA NodeEntriesFinite ==
  ASSUME plan \in Plans, NEW S \in SUBSET Tasks, NEW n
  PROVE  /\ IsFiniteSet({t \in S : n \in NodesInvolved(t)})
         /\ Cardinality({t \in S : n \in NodesInvolved(t)}) \in Nat
<1>1. {t \in S : n \in NodesInvolved(t)} \in SUBSET Tasks
  OBVIOUS
<1>2. IsFiniteSet({t \in S : n \in NodesInvolved(t)})
  BY <1>1, TasksFinite, FS_Subset
<1> QED
  BY <1>2, FS_CardinalityType

\* The assignment commits: its tasks are marked as running.
LEMMA AssignCommitsStep ==
  ASSUME IInv, AssignFails \/ NothingRunnable
  PROVE  Consistent'
<1>1. plan \in Plans /\ TypeOK /\ MonitorInv /\ OnceInv /\ NodeInv /\ JobFollowsTasks
  BY DEF IInv, Consistent
<1>2. /\ UNCHANGED <<plan, retryCount, executorOf, process, commits, crashed>>
      /\ job' = (IF assigned = {} THEN job ELSE JobState(status'))
      /\ monitor = "assign" /\ monitor' = "watch" /\ assigned' = {}
      /\ status' = [t \in Tasks |-> IF t \in assigned THEN "running" ELSE status[t]]
  BY DEF AssignFails, NothingRunnable, AssignCommits
<1>3. NodeInv'
  <2>1. CASE NothingRunnable
    BY <1>1, <1>2, <2>1, SameNodes DEF NothingRunnable
  <2>2. CASE AssignFails
    <3>1. \A n \in Nodes : /\ taskCount'[n] = taskCount[n] + (IF n \in NodesInvolved(Min(Runnable)) THEN 1 ELSE 0)
                           /\ taskCount'[n] <= MaxBackgroundTaskExecutorsPerNode
      BY <1>1, <2>2, RunnableFacts, IncrementEffect DEF AssignFails
    <3>2. \A n \in Nodes : Cardinality({t \in Entries : n \in NodesInvolved(t)}) <= taskCount'[n]
      <4> SUFFICES ASSUME NEW n \in Nodes
                   PROVE  Cardinality({t \in Entries : n \in NodesInvolved(t)}) <= taskCount'[n]
        OBVIOUS
      <4>1. PICK c : c = Cardinality({t \in Entries : n \in NodesInvolved(t)})
        OBVIOUS
      <4>2. c \in Nat /\ c <= taskCount[n] /\ taskCount[n] \in Nat
        <5>1. Entries \subseteq Tasks
          BY DEF Entries
        <5>2. c \in Nat
          BY <1>1, <4>1, <5>1, NodeEntriesFinite
        <5>3. c <= taskCount[n]
          BY <1>1, <4>1 DEF NodeInv
        <5> QED
          BY <1>1, <5>2, <5>3 DEF TypeOK
      <4>3. c <= taskCount'[n]
        BY SMTT(30), Z3T(30), <3>1, <4>2
      <4> QED
        BY <4>1, <4>3
    <3>3. \A n : {t \in Entries : n \in NodesInvolved(t)}' = {t \in Entries : n \in NodesInvolved(t)}
      BY SMTT(30), Z3T(30), <1>2, SamePlan, SameEntries
    <3> QED
      BY <1>2, <3>1, <3>2, <3>3, SamePlan DEF NodeInv
  <2> QED
    BY <2>1, <2>2
<1>4. \A t \in Tasks : status'[t] = IF t \in assigned THEN "running" ELSE status[t]
  BY <1>2
<1>5. \A t \in assigned : t \in Entries /\ t \in Tasks /\ status[t] = "runnable"
  BY <1>1 DEF MonitorInv, Entries
<1>6. JobFollowsTasks'
  <2>1. JobState(status)' = JobState(status')
    BY <1>2, SamePlan DEF JobState
  <2>2. CASE assigned # {}
    BY <1>2, <2>1, <2>2 DEF JobFollowsTasks
  <2>3. CASE assigned = {}
    <3>1. status' = status
      BY <1>1, <1>2, <2>3 DEF TypeOK
    <3> QED
      BY <1>1, <1>2, <2>3, <3>1, SameJob
  <2> QED
    BY <2>2, <2>3
<1>7. \A t \in Entries : status'[t] \in {"running", "cancelling", "cancelled"}
  BY <1>1, <1>4 DEF MonitorInv, Entries
<1>8. \A t \in Tasks : ~crashed /\ status'[t] = "running" => t \in Entries
  BY <1>1, <1>4, <1>5 DEF OnceInv
<1>9. /\ \A t \in Tasks : status[t] \in {"done", "error", "unscheduled", "cancelled"} => status'[t] = status[t]
      /\ \A t \in Tasks : \/ status'[t] \in {status[t], "cancelled"}
                          \/ status[t] \in {"runnable", "running"} /\ status'[t] \in {"runnable", "running", "cancelling"}
  BY <1>4, <1>5
<1> QED
  BY <1>2, <1>3, <1>6, <1>7, <1>8, <1>9, StatusStep

\* An executor is started, or its fork fails.
LEMMA AssignStep ==
  ASSUME IInv, NEW state \in {"starting", "lost"}, AssignRunnableTaskToNewExecutor(state), crashed' = crashed
  PROVE  Consistent'
<1>1. plan \in Plans /\ TypeOK /\ MonitorInv /\ ProcessInv /\ OrderInv /\ NodeInv /\ OnceInv /\ JobFollowsTasks
  BY DEF IInv, Consistent
<1>2. PICK t, p : t = Min(Runnable) /\ p = Min(FreePids)
  OBVIOUS
<1>3. /\ UNCHANGED <<plan, status, retryCount, job, monitor, commits>>
      /\ monitor = "assign" /\ Runnable # {} /\ ~NoExecutor /\ IncrementParallelTaskCount(t)
      /\ executorOf' = [executorOf EXCEPT ![t] = p]
      /\ process' = [process EXCEPT ![p] = [task |-> t, state |-> state]]
      /\ assigned' = assigned \cup {t}
  BY <1>2 DEF AssignRunnableTaskToNewExecutor
<1>4. t \in Runnable /\ t \in Tasks /\ t \notin assigned /\ status[t] = "runnable" /\ Ready(t)
  BY <1>1, <1>2, <1>3, RunnableFacts
<1>5. p \in Pids /\ process[p].state = "free" /\ p # None
  BY <1>1, <1>2, <1>3, FreePidExists, PidFacts
<1>6. t \notin Entries /\ executorOf[t] = None
  BY <1>1, <1>4 DEF MonitorInv, Entries
<1>7. /\ executorOf'[t] = p /\ \A u \in Tasks \ {t} : executorOf'[u] = executorOf[u]
      /\ process'[p].task = t /\ process'[p].state = state /\ \A q \in Pids \ {p} : process'[q] = process[q]
  BY SMTT(30), Z3T(30), <1>1, <1>3, <1>4, <1>5 DEF TypeOK
<1>8. Tasks' = Tasks /\ Nodes' = Nodes /\ (\A u : Ready(u)' = Ready(u)) /\ Entries' = Entries \cup {t}
  <2>1. Tasks' = Tasks /\ Nodes' = Nodes /\ \A u : Ready(u)' = Ready(u)
    BY <1>3, SamePlan, ReadySame
  <2>2. \A u \in Tasks : executorOf'[u] # None <=> u = t \/ executorOf[u] # None
    BY <1>5, <1>7
  <2> QED
    BY <1>4, <2>1, <2>2 DEF Entries
<1>9. \A u \in Entries : /\ u \in Tasks /\ u # t /\ executorOf[u] \in Pids \ {p} /\ executorOf'[u] = executorOf[u]
                         /\ process'[executorOf[u]] = process[executorOf[u]]
  <2>1. \A u \in Entries : u \in Tasks /\ executorOf[u] \in Pids /\ process[executorOf[u]].state # "free"
    BY SMTT(30), Z3T(30), <1>1 DEF MonitorInv, TypeOK, Entries
  <2> QED
    BY <1>5, <1>6, <1>7, <2>1
<1>10. \A q \in Pids : Tracked(q) => Tracked(q)'
  BY <1>8, <1>9 DEF Tracked
<1>11. Tracked(p)'
  BY <1>7, <1>8 DEF Tracked
<1>12. MonitorInv'
  <2> SUFFICES ASSUME NEW u \in Entries \cup {t}
               PROVE  /\ process'[executorOf'[u]].task = u /\ process'[executorOf'[u]].state # "free"
                      /\ IF u \in assigned' THEN status[u] = "runnable"
                                            ELSE status[u] \in {"running", "cancelling", "cancelled"}
    BY <1>1, <1>3, <1>8 DEF MonitorInv
  <2>1. CASE u = t
    BY <1>3, <1>4, <1>7, <2>1
  <2>2. CASE u # t
    BY SMTT(30), Z3T(30), <1>1, <1>3, <1>9, <2>2 DEF MonitorInv
  <2> QED
    BY <2>1, <2>2
<1>13. ProcessInv'
  <2> SUFFICES ASSUME NEW q \in Pids
               PROVE  /\ process'[q].state # "free" => process'[q].task \in Tasks
                      /\ \A u \in Tasks : process'[q].state # "free" /\ process'[q].task = u => Ready(u)
                      /\ process'[q].state \in {"lost", "failed", "succeeded"} => Tracked(q)'
                      /\ process'[q].state = "succeeded" => commits[process'[q].task] > 0
    BY <1>3, <1>8 DEF ProcessInv
  <2>1. CASE q = p
    BY <1>4, <1>7, <1>11, <2>1
  <2>2. CASE q # p
    BY <1>1, <1>7, <1>10, <2>2 DEF ProcessInv
  <2> QED
    BY <2>1, <2>2
<1>14. OrderInv'
  BY SMTT(30), Z3T(30), <1>1, <1>3, <1>8, SamePlan DEF OrderInv
<1>15. NodeInv'
  <2> SUFFICES ASSUME NEW n \in Nodes
               PROVE  /\ Cardinality({u \in Entries \cup {t} : n \in NodesInvolved(u)}) <= taskCount'[n]
                      /\ taskCount'[n] <= MaxBackgroundTaskExecutorsPerNode
    <3>1. \A m : {u \in Entries : m \in NodesInvolved(u)}' = {u \in Entries \cup {t} : m \in NodesInvolved(u)}
      BY SMTT(30), Z3T(30), <1>3, <1>8, SamePlan
    <3> QED
      BY <1>8, <3>1 DEF NodeInv
  <2> DEFINE S == {u \in Entries : n \in NodesInvolved(u)}
  <2>1. /\ taskCount'[n] = taskCount[n] + (IF n \in NodesInvolved(t) THEN 1 ELSE 0)
        /\ taskCount'[n] <= MaxBackgroundTaskExecutorsPerNode
    BY <1>1, <1>3, <1>4, IncrementEffect
  <2>2. IsFiniteSet(S) /\ Cardinality(S) \in Nat /\ Cardinality(S) <= taskCount[n] /\ taskCount[n] \in Nat
    <3>1. Entries \subseteq Tasks
      BY DEF Entries
    <3>2. IsFiniteSet(S) /\ Cardinality(S) \in Nat
      BY <1>1, <3>1, NodeEntriesFinite
    <3>3. Cardinality(S) <= taskCount[n]
      BY <1>1 DEF NodeInv
    <3> QED
      BY <1>1, <3>2, <3>3 DEF TypeOK
  <2>3. t \notin S
    BY <1>6
  <2>4. CASE n \in NodesInvolved(t)
    <3>1. {u \in Entries \cup {t} : n \in NodesInvolved(u)} = S \cup {t}
      BY <2>4
    <3> HIDE DEF S
    <3>2. Cardinality(S \cup {t}) = Cardinality(S) + 1
      BY <2>2, <2>3, FS_AddElement
    <3>3. PICK c : c = Cardinality(S)
      OBVIOUS
    <3>4. c + 1 <= taskCount'[n]
      BY SMTT(30), Z3T(30), <2>1, <2>2, <2>4, <3>3
    <3> QED
      BY <2>1, <3>1, <3>2, <3>3, <3>4
  <2>5. CASE n \notin NodesInvolved(t)
    <3>1. {u \in Entries \cup {t} : n \in NodesInvolved(u)} = S
      BY <2>5
    <3> HIDE DEF S
    <3>2. taskCount'[n] = taskCount[n]
      BY SMTT(30), Z3T(30), <2>1, <2>2, <2>5
    <3> QED
      BY <2>1, <2>2, <3>1, <3>2
  <2> QED
    BY <2>4, <2>5
<1>16. OnceInv'
  <2> SUFFICES ASSUME ~crashed PROVE OnceInv'
    BY DEF OnceInv
  <2>1. ASSUME NEW u \in Tasks
        PROVE  /\ status[u] = "running" => u \in Entries \cup {t}
               /\ commits[u] <= 1
               /\ u \in Entries \cup {t} => (commits[u] = 1 <=> process'[executorOf'[u]].state = "succeeded")
               /\ u \notin Entries \cup {t} /\ commits[u] = 1 => status[u] \in {"done", "cancelled"}
    <3>1. CASE u = t
      BY <1>1, <1>4, <1>6, <1>7, <3>1 DEF OnceInv
    <3>2. CASE u # t
      BY SMTT(30), Z3T(30), <1>1, <1>9, <3>2 DEF OnceInv
    <3> QED
      BY <3>1, <3>2
  <2>2. ASSUME NEW q \in Pids, process'[q].state # "free" PROVE executorOf'[process'[q].task] = q
    <3>1. CASE q = p
      BY <1>7, <3>1
    <3>2. CASE q # p
      <4>1. process'[q] = process[q] /\ process[q].task \in Tasks /\ executorOf[process[q].task] = q /\ q # None
        BY SMTT(30), Z3T(30), <1>1, <1>7, <2>2, <3>2, PidFacts DEF OnceInv, ProcessInv
      <4> QED
        BY <1>6, <1>7, <4>1
    <3> QED
      BY <3>1, <3>2
  <2> QED
    BY <1>3, <1>8, <2>1, <2>2 DEF OnceInv
<1>17. JobFollowsTasks'
  BY <1>1, <1>3, SameJob
<1> QED
  BY <1>12, <1>13, <1>14, <1>15, <1>16, <1>17 DEF Consistent

\* The monitor is gone: it exits when it follows no executor, or crashes.
LEMMA MonitorGoneStep ==
  ASSUME IInv, MonitorExits \/ MonitorCrash
  PROVE  Consistent'
<1>1. plan \in Plans /\ TypeOK /\ ProcessInv /\ OrderInv /\ NodeInv /\ OnceInv /\ JobFollowsTasks
  BY DEF IInv, Consistent
<1>2. /\ UNCHANGED <<plan, status, retryCount, job, commits>>
      /\ crashed' \/ (Entries = {} /\ crashed' = crashed)
      /\ monitor' = "off" /\ assigned' = {}
      /\ executorOf' = [t \in Tasks |-> None] /\ taskCount' = [n \in Nodes |-> 0]
      /\ process' = [p \in Pids |-> IF Alive(p) THEN process[p] ELSE Free]
  BY DEF MonitorExits, MonitorCrash, MonitorGone
<1>3. Tasks' = Tasks /\ Nodes' = Nodes /\ (\A t : Ready(t)' = Ready(t)) /\ Entries' = {}
  <2>1. Tasks' = Tasks /\ Nodes' = Nodes /\ \A t : Ready(t)' = Ready(t)
    BY <1>2, SamePlan, ReadySame
  <2> QED
    BY <1>2, <2>1 DEF Entries
<1>4. MonitorInv'
  BY <1>2, <1>3 DEF MonitorInv
<1>5. \A p \in Pids : process'[p].state # "free" =>
        process'[p] = process[p] /\ process[p].state \in {"starting", "executing"}
  BY SMTT(30), Z3T(30), <1>2 DEF Alive, Free
<1>6. ProcessInv'
  BY SMTT(30), Z3T(30), <1>1, <1>2, <1>3, <1>5 DEF ProcessInv
<1>7. OrderInv'
  BY SMTT(30), Z3T(30), <1>1, <1>2, <1>3, SamePlan DEF OrderInv
<1>8. NodeInv'
  <2>1. \A n : {t \in Entries : n \in NodesInvolved(t)}' = {}
    BY <1>3
  <2>2. Cardinality({}) = 0 /\ 0 <= 0 /\ 0 <= MaxBackgroundTaskExecutorsPerNode
    BY SMTT(30), Z3T(30), FS_EmptySet, JobsAssumption DEF JobsAssumption
  <2>3. \A n \in Nodes : taskCount'[n] = 0
    BY <1>2
  <2> QED
    BY <1>3, <2>1, <2>2, <2>3 DEF NodeInv
<1>9. OnceInv'
  <2> SUFFICES ASSUME ~crashed' PROVE OnceInv'
    BY DEF OnceInv
  <2>1. Entries = {} /\ ~crashed
    BY <1>2
  <2>2. \A p \in Pids : process[p].state = "free"
    <3>1. ASSUME NEW p \in Pids, process[p].state # "free" PROVE process[p].task \in Entries
      BY SMTT(30), Z3T(30), <1>1, <2>1, <3>1, PidFacts DEF OnceInv, ProcessInv, Entries
    <3> QED
      BY <2>1, <3>1
  <2>3. \A p \in Pids : process'[p].state = "free"
    BY <1>5, <2>2
  <2> QED
    BY <1>1, <1>2, <1>3, <2>1, <2>3 DEF OnceInv
<1>10. JobFollowsTasks'
  BY <1>1, <1>2, SameJob
<1> QED
  BY <1>4, <1>6, <1>7, <1>8, <1>9, <1>10 DEF Consistent

-----------------------------------------------------------------------------
(* Watching the executors                                                  *)

Failed == ConsumeExecutorQueue("failed")
Done == ConsumeExecutorQueue("succeeded")
GaveUp == {t \in Failed : TaskHadError(t) = "error"}
Ended == CancelledEntries \cup Failed \cup Done

\* The statuses WatchExecutors sets before it turns to the tasks behind.
Reported ==
  [t \in Tasks |-> IF t \in CancelledEntries THEN "cancelled"
                   ELSE IF t \in Done THEN "done"
                   ELSE IF t \in Failed THEN TaskHadError(t)
                   ELSE IF t \in Entries THEN "running" ELSE status[t]]

\* What is known of an executor the monitor follows.
LEMMA EntryFacts ==
  ASSUME TypeOK, MonitorInv, ProcessInv, monitor = "watch", NEW t \in Entries
  PROVE  /\ t \in Tasks /\ executorOf[t] \in Pids /\ process[executorOf[t]].task = t
         /\ process[executorOf[t]].state # "free" /\ Ready(t)
         /\ status[t] \in {"running", "cancelling", "cancelled"}
<1>1. t \in Tasks /\ executorOf[t] \in Pids
  BY DEF Entries, TypeOK
<1>2. /\ process[executorOf[t]].task = t /\ process[executorOf[t]].state # "free"
      /\ status[t] \in {"running", "cancelling", "cancelled"}
  BY DEF MonitorInv
<1> QED
  BY <1>1, <1>2 DEF ProcessInv

\* The statuses reported.
LEMMA ReportFacts ==
  ASSUME TypeOK, MonitorInv, ProcessInv, monitor = "watch"
  PROVE  /\ Ended \subseteq Entries /\ Done \subseteq Entries /\ Failed \subseteq Entries /\ GaveUp \subseteq Failed
         /\ \A t \in CancelledEntries : Reported[t] = "cancelled"
         /\ \A t \in Done : Reported[t] = "done" /\ process[executorOf[t]].state = "succeeded"
         /\ \A t \in Failed : /\ Reported[t] = (IF retryCount[t] + 1 > RetryLimit THEN "error" ELSE "runnable")
                              /\ process[executorOf[t]].state = "failed"
         /\ \A t \in GaveUp : Reported[t] = "error"
         /\ \A t \in Entries \ Ended : Reported[t] = "running"
         /\ \A t \in Tasks \ Entries : Reported[t] = status[t]
<1>1. /\ CancelledEntries \subseteq Entries /\ Done \subseteq Entries \ CancelledEntries
      /\ Failed \subseteq Entries \ CancelledEntries /\ Entries \subseteq Tasks
      /\ \A t \in Done : process[executorOf[t]].state = "succeeded"
      /\ \A t \in Failed : process[executorOf[t]].state = "failed"
  BY DEF CancelledEntries, Done, Failed, ConsumeExecutorQueue, Entries
<1>2. Done \cap Failed = {}
  BY <1>1
<1>3. \A t \in Failed : Reported[t] = TaskHadError(t)
  BY <1>1, <1>2 DEF Reported
<1>4. /\ \A t \in CancelledEntries : Reported[t] = "cancelled"
      /\ \A t \in Done : Reported[t] = "done"
      /\ \A t \in Entries \ Ended : Reported[t] = "running"
      /\ \A t \in Tasks \ Entries : Reported[t] = status[t]
  BY <1>1 DEF Reported, Ended
<1> QED
  BY <1>1, <1>3, <1>4 DEF Ended, GaveUp, TaskHadError, CalculateBackoffDelayEnds

\* What WatchExecutors does to the variables of the invariant.
LEMMA WatchEffect ==
  ASSUME WatchExecutors
  PROVE  /\ monitor = "watch" /\ monitor' = "loop"
         /\ status' = UpdateDependingTasks(Done, GaveUp, Reported)
         /\ pid' = [t \in Tasks |-> IF t \in Ended THEN None ELSE IF t \in Entries THEN executorOf[t] ELSE pid[t]]
         /\ retryCount' = [t \in Tasks |-> retryCount[t] + (IF t \in Failed THEN 1 ELSE 0)]
         /\ backoff' = (backoff \cup Failed) \ GaveUp
         /\ job' = JobState(status')
         /\ TaskEnded(Ended)
         /\ UNCHANGED <<plan, waitFor, held, assigned, got, handled, signalled, commits, bounds>>
<1>1. /\ monitor = "watch" /\ monitor' = "loop" /\ job' = JobState(status')
      /\ UNCHANGED <<plan, waitFor, held, assigned, got, handled, signalled, commits, bounds>>
  BY DEF WatchExecutors
<1>2. status' = UpdateDependingTasks(Done, GaveUp, Reported)
  BY DEF WatchExecutors, Done, Failed, GaveUp, Reported
<1>3. /\ pid' = [t \in Tasks |-> IF t \in Ended THEN None ELSE IF t \in Entries THEN executorOf[t] ELSE pid[t]]
      /\ TaskEnded(Ended)
  BY DEF WatchExecutors, Done, Failed, Ended
<1>4. /\ retryCount' = [t \in Tasks |-> retryCount[t] + (IF t \in Failed THEN 1 ELSE 0)]
      /\ backoff' = (backoff \cup Failed) \ GaveUp
  BY DEF WatchExecutors, Failed, GaveUp
<1> QED
  BY <1>1, <1>2, <1>3, <1>4

\* How the statuses change: a task whose dependencies were done gets what is reported;
\* any other is left alone, unscheduled behind a task that gave up, or, if it was
\* blocked, runnable (the Assert of UnblockDependingBackgroundTasks).
LEMMA WatchStatus ==
  ASSUME IInv, WatchExecutors
  PROVE  /\ \A t \in Tasks : Ready(t) => status'[t] = Reported[t]
         /\ \A t \in Tasks : Reported[t] = "done" => status'[t] = "done"
         /\ \A t \in Tasks :
              \/ status'[t] = Reported[t]
              \/ /\ status'[t] = "unscheduled" /\ ~Ready(t)
                 /\ \E d \in DependsOn(t) : status'[d] \in {"error", "unscheduled"}
              \/ /\ status'[t] = "runnable" /\ ~Ready(t) /\ status[t] = "blocked"
                 /\ \A d \in DependsOn(t) : status'[d] = "done"
<1> DEFINE Behind(t) == \E u \in GaveUp : t \in AllDependants(u)
           Unblocked == UnblockDependingBackgroundTasks(Done, Reported)
<1>1. plan \in Plans /\ TypeOK /\ MonitorInv /\ ProcessInv /\ OrderInv /\ monitor = "watch"
  BY WatchEffect DEF IInv, Consistent
<1>2. \A t \in Tasks : status'[t] = IF Behind(t) THEN "unscheduled"
                                    ELSE IF t \in Unblocked THEN "runnable" ELSE Reported[t]
  BY WatchEffect DEF UpdateDependingTasks
<1>3. \A u \in Entries : u \in Tasks /\ Ready(u) /\ status[u] \notin {"done", "error", "unscheduled", "blocked"}
  BY <1>1, EntryFacts
<1>4. /\ Done \subseteq Entries /\ GaveUp \subseteq Entries /\ (\A u \in GaveUp : Reported[u] = "error")
      /\ \A t \in Tasks \ Entries : Reported[t] = status[t]
  BY <1>1, ReportFacts
<1>5. \A t \in Tasks : Behind(t) => ~Ready(t)
  BY <1>1, <1>3, <1>4, DependantsAreNotReady
<1>6. \A t \in Tasks : t \in Unblocked => ~Ready(t)
  BY <1>3, <1>4 DEF UnblockDependingBackgroundTasks, Ready
<1>7. \A t \in Tasks : Ready(t) => status'[t] = Reported[t]
  BY <1>2, <1>5, <1>6
<1>8. \A t \in Tasks : Reported[t] = "done" => status'[t] = "done"
  <2> SUFFICES ASSUME NEW t \in Tasks, Reported[t] = "done" PROVE Ready(t)
    BY <1>7
  <2>1. CASE t \in Entries
    BY <1>3, <2>1
  <2>2. CASE t \notin Entries
    BY <1>1, <1>4, <2>2 DEF OrderInv
  <2> QED
    BY <2>1, <2>2
<1>9. ASSUME NEW t \in Tasks, Behind(t)
      PROVE  \E d \in DependsOn(t) : status'[d] \in {"error", "unscheduled"}
  <2>1. PICK u \in GaveUp : t \in AllDependants(u)
    BY <1>9
  <2>2. u \in Tasks /\ Ready(u) /\ Reported[u] = "error"
    BY <1>3, <1>4
  <2>3. PICK d \in DependsOn(t) : d = u \/ d \in AllDependants(u)
    BY <2>1, <2>2, DependantsAreBehind
  <2>4. d \in AllDependants(u) => d \in Tasks /\ Behind(d)
    BY DEF AllDependants
  <2> QED
    BY <1>2, <1>7, <2>2, <2>3, <2>4
<1>10. ASSUME NEW t \in Tasks, t \in Unblocked
       PROVE  status[t] = "blocked" /\ \A d \in DependsOn(t) : status'[d] = "done"
  <2>1. (\A d \in DependsOn(t) : Reported[d] = "done") /\ Reported[t] # "cancelled"
    BY <1>10 DEF UnblockDependingBackgroundTasks
  <2>2. ~Ready(t) /\ t \notin Entries /\ Reported[t] = status[t]
    BY <1>3, <1>4, <1>6, <1>10
  <2>3. status[t] \in {"blocked", "unscheduled"}
    BY <1>1, <2>1, <2>2 DEF OrderInv
  <2>4. status[t] # "unscheduled"
    <3> SUFFICES ASSUME status[t] = "unscheduled" PROVE FALSE
      OBVIOUS
    <3>1. PICK d \in DependsOn(t) : status[d] \in {"error", "unscheduled"}
      BY <1>1 DEF OrderInv
    <3>2. d \in Tasks /\ d \notin Entries
      BY <1>1, <1>3, <3>1, DependencyFacts
    <3> QED
      BY <1>4, <2>1, <3>1, <3>2
  <2>5. \A d \in DependsOn(t) : d \in Tasks
    BY <1>1, DependencyFacts
  <2> QED
    BY <1>8, <2>1, <2>3, <2>4, <2>5
<1> QED
  BY <1>2, <1>5, <1>6, <1>7, <1>8, <1>9, <1>10

\* The executors that are still followed, and the processes that are left.
LEMMA WatchEntries ==
  ASSUME IInv, WatchExecutors
  PROVE  /\ Entries' = Entries \ Ended
         /\ \A t \in Tasks : t \notin Ended => executorOf'[t] = executorOf[t]
         /\ \A t \in Entries \ Ended : process'[executorOf[t]] = process[executorOf[t]]
         /\ \A q \in Pids : process'[q].state # "free" =>
              process'[q] = process[q] /\ \A t \in Ended : executorOf[t] # q
<1>1. plan \in Plans /\ TypeOK /\ MonitorInv /\ ProcessInv /\ monitor = "watch"
  BY WatchEffect DEF IInv, Consistent
<1>2. /\ executorOf' = [t \in Tasks |-> IF t \in Ended THEN None ELSE executorOf[t]]
      /\ process' = [p \in Pids |-> IF p \in {executorOf[t] : t \in Ended} THEN Free ELSE process[p]]
  BY WatchEffect DEF TaskEnded
<1>3. Tasks' = Tasks /\ Ended \subseteq Entries
  BY <1>1, WatchEffect, SamePlan, ReportFacts
<1>4. \A t \in Entries : executorOf[t] \in Pids /\ process[executorOf[t]].task = t
  BY <1>1, EntryFacts
<1>5. Entries' = Entries \ Ended
  BY <1>2, <1>3 DEF Entries
<1>6. \A q \in Pids : process'[q].state # "free" => process'[q] = process[q] /\ \A t \in Ended : executorOf[t] # q
  BY SMTT(30), Z3T(30), <1>2 DEF Free
<1>7. \A t \in Entries \ Ended : process'[executorOf[t]] = process[executorOf[t]]
  <2> SUFFICES ASSUME NEW t \in Entries \ Ended PROVE executorOf[t] \notin {executorOf[u] : u \in Ended}
    BY <1>2, <1>4
  <2> QED
    BY <1>3, <1>4
<1> QED
  BY <1>2, <1>5, <1>6, <1>7

\* The counts of the nodes when executors have ended.
LEMMA WatchNodes ==
  ASSUME IInv, WatchExecutors
  PROVE  taskCount' \in [Nodes -> Nat] /\ NodeInv'
<1>1. plan \in Plans /\ TypeOK /\ MonitorInv /\ ProcessInv /\ NodeInv /\ monitor = "watch"
  BY WatchEffect DEF IInv, Consistent
<1>2. taskCount' = [n \in Nodes |-> taskCount[n] - Cardinality({t \in Ended : n \in NodesInvolved(t)})]
  BY WatchEffect DEF TaskEnded, DecrementParallelTaskCount
<1>3. Ended \subseteq Entries /\ Entries \subseteq Tasks
  BY <1>1, ReportFacts DEF Entries
<1>4. ASSUME NEW n \in Nodes
      PROVE  /\ taskCount'[n] \in Nat /\ taskCount'[n] <= MaxBackgroundTaskExecutorsPerNode
             /\ Cardinality({t \in Entries \ Ended : n \in NodesInvolved(t)}) <= taskCount'[n]
  <2> DEFINE A == {t \in Entries : n \in NodesInvolved(t)}
             B == {t \in Ended : n \in NodesInvolved(t)}
  <2>1. IsFiniteSet(A) /\ Cardinality(A) \in Nat /\ Cardinality(B) \in Nat
    BY <1>1, <1>3, NodeEntriesFinite
  <2>2. Cardinality(A) <= taskCount[n] /\ taskCount[n] <= MaxBackgroundTaskExecutorsPerNode /\ taskCount[n] \in Nat
    BY <1>1 DEF NodeInv, TypeOK
  <2>3. A \cap B = B /\ {t \in Entries \ Ended : n \in NodesInvolved(t)} = A \ B
    BY <1>3
  <2>4. taskCount'[n] = taskCount[n] - Cardinality(B)
    BY <1>2
  <2> HIDE DEF A, B
  <2>5. IsFiniteSet(A \ B) /\ Cardinality(A \ B) = Cardinality(A) - Cardinality(B)
    BY <2>1, <2>3, FS_Difference
  <2>6. Cardinality(A \ B) \in Nat
    BY <2>5, FS_CardinalityType
  <2>7. PICK a, b, c : a = Cardinality(A) /\ b = Cardinality(B) /\ c = Cardinality(A \ B)
    OBVIOUS
  <2>8. /\ taskCount'[n] \in Nat /\ taskCount'[n] <= MaxBackgroundTaskExecutorsPerNode /\ c <= taskCount'[n]
    BY SMTT(30), Z3T(30), <2>1, <2>2, <2>4, <2>5, <2>6, <2>7, JobsAssumption DEF JobsAssumption
  <2> QED
    BY <2>3, <2>7, <2>8
<1>5. taskCount' \in [Nodes -> Nat]
  <2>1. taskCount' = [n \in Nodes |-> taskCount'[n]]
    BY <1>2
  <2> QED
    BY <1>4, <2>1
<1>6. \A n : {t \in Entries : n \in NodesInvolved(t)}' = {t \in Entries \ Ended : n \in NodesInvolved(t)}
  BY SMTT(30), Z3T(30), WatchEffect, WatchEntries, SamePlan
<1> QED
  BY <1>4, <1>5, <1>6, WatchEffect, SamePlan DEF NodeInv

\* The tasks behind others: the order is kept when executors have ended.
LEMMA WatchOrder ==
  ASSUME IInv, WatchExecutors
  PROVE  /\ OrderInv' /\ (\A t \in Tasks : Ready(t) => Ready(t)')
         /\ \A t \in Tasks : status[t] \in {"done", "error", "unscheduled"} => status'[t] = status[t]
<1>1. plan \in Plans /\ TypeOK /\ MonitorInv /\ ProcessInv /\ OrderInv /\ monitor = "watch" /\ plan' = plan
  BY WatchEffect DEF IInv, Consistent
<1>2. Tasks' = Tasks /\ \A t : DependsOn(t)' = DependsOn(t)
  BY <1>1, SamePlan
<1>3. \A t \in Entries : t \in Tasks /\ Ready(t) /\ status[t] \in {"running", "cancelling", "cancelled"}
  BY <1>1, EntryFacts
<1>4. \A t \in Tasks : status[t] \in {"done", "error"} => status'[t] = status[t]
  <2> SUFFICES ASSUME NEW t \in Tasks, status[t] \in {"done", "error"} PROVE status'[t] = status[t]
    OBVIOUS
  <2>1. t \notin Entries /\ Ready(t)
    BY <1>1, <1>3 DEF OrderInv
  <2> QED
    BY SMTT(30), Z3T(30), <1>1, <2>1, WatchStatus, ReportFacts
<1>5. \A t \in Tasks : Ready(t) => Ready(t)'
  BY <1>1, <1>4, ReadyStays
<1>6. \A t \in Tasks : status[t] = "unscheduled" => status'[t] = "unscheduled"
  <2> SUFFICES ASSUME NEW t \in Tasks, status[t] = "unscheduled" PROVE status'[t] = "unscheduled"
    OBVIOUS
  <2>1. Reported[t] = "unscheduled"
    BY <1>1, <1>3, ReportFacts
  <2> QED
    BY <2>1, WatchStatus
<1>7. ASSUME NEW t \in Tasks, status'[t] \notin {"blocked", "cancelled", "unscheduled"} \/ commits'[t] > 0
      PROVE  Ready(t)'
  <2>1. CASE Ready(t)
    BY <1>5, <2>1
  <2>2. CASE ~Ready(t)
    <3>1. commits'[t] = commits[t] /\ t \notin Entries /\ status[t] \in {"blocked", "cancelled", "unscheduled"}
            /\ ~(commits[t] > 0) /\ Reported[t] = status[t]
      BY <1>1, <1>3, <2>2, WatchEffect, ReportFacts DEF OrderInv
    <3>2. \A d \in DependsOn(t) : status'[d] = "done"
      BY <1>7, <3>1, WatchStatus
    <3> QED
      BY <1>2, <3>2 DEF Ready
  <2> QED
    BY <2>1, <2>2
<1>8. ASSUME NEW t \in Tasks, status'[t] = "done"
      PROVE  commits'[t] > 0
  <2>1. Reported[t] = "done"
    BY <1>8, WatchStatus
  <2>2. CASE t \in Entries
    <3>1. t \in Done
      <4>1. CASE t \in CancelledEntries
        BY <1>1, <2>1, <4>1, ReportFacts
      <4>2. CASE t \in Failed
        BY <1>1, <2>1, <4>2, ReportFacts
      <4>3. CASE t \notin Ended
        BY <1>1, <2>1, <2>2, <4>3, ReportFacts
      <4> QED
        BY <4>1, <4>2, <4>3 DEF Ended
    <3>2. executorOf[t] \in Pids /\ process[executorOf[t]].task = t /\ process[executorOf[t]].state = "succeeded"
      BY <1>1, <2>2, <3>1, EntryFacts, ReportFacts
    <3> QED
      BY <1>1, <3>2, WatchEffect DEF ProcessInv
  <2>3. CASE t \notin Entries
    <3>1. status[t] = "done"
      BY <1>1, <2>1, <2>3, ReportFacts
    <3> QED
      BY <1>1, <3>1, WatchEffect DEF OrderInv
  <2> QED
    BY <2>2, <2>3
<1>9. ASSUME NEW t \in Tasks, status'[t] = "unscheduled"
      PROVE  \E d \in DependsOn(t) : status'[d] \in {"error", "unscheduled"}
  <2> SUFFICES ASSUME status'[t] = Reported[t] PROVE \E d \in DependsOn(t) : status'[d] \in {"error", "unscheduled"}
    BY <1>9, WatchStatus
  <2>1. t \notin Entries
    <3> SUFFICES ASSUME t \in Entries PROVE FALSE
      OBVIOUS
    <3>1. Reported[t] \in {"cancelled", "done", "error", "runnable", "running"}
      BY SMTT(30), Z3T(30), <1>1, ReportFacts DEF Ended
    <3> QED
      BY <1>9, <3>1
  <2>2. status[t] = "unscheduled"
    BY <1>1, <1>9, <2>1, ReportFacts
  <2>3. PICK d \in DependsOn(t) : status[d] \in {"error", "unscheduled"}
    BY <1>1, <2>2 DEF OrderInv
  <2>4. d \in Tasks
    BY <1>1, DependencyFacts
  <2> QED
    BY <1>4, <1>6, <2>3, <2>4
<1>10. ASSUME NEW t \in Tasks, retryCount'[t] > RetryLimit
       PROVE  status'[t] = "error"
  <2>1. retryCount'[t] = retryCount[t] + (IF t \in Failed THEN 1 ELSE 0) /\ retryCount[t] \in Nat
    BY SMTT(30), Z3T(30), <1>1, WatchEffect, JobsAssumption DEF TypeOK, JobsAssumption
  <2>2. CASE t \in Failed
    <3>1. retryCount[t] + 1 > RetryLimit
      BY <1>10, <2>1, <2>2
    <3>2. t \in Entries /\ Reported[t] = "error"
      BY <1>1, <2>2, <3>1, ReportFacts
    <3> QED
      BY <1>3, <3>2, WatchStatus
  <2>3. CASE t \notin Failed
    <3>1. retryCount[t] > RetryLimit
      BY SMTT(30), Z3T(30), <1>10, <2>1, <2>3
    <3> QED
      BY <1>1, <1>4, <3>1 DEF OrderInv
  <2> QED
    BY <2>2, <2>3
<1>11. OrderInv'
  BY SMTT(30), Z3T(30), <1>2, <1>7, <1>8, <1>9, <1>10 DEF OrderInv
<1> QED
  BY <1>4, <1>5, <1>6, <1>11

\* Executors that have ended are taken into account.
LEMMA WatchStep ==
  ASSUME IInv, WatchExecutors
  PROVE  Consistent'
<1>1. plan \in Plans /\ TypeOK /\ MonitorInv /\ ProcessInv /\ OrderInv /\ OnceInv /\ monitor = "watch"
  BY WatchEffect DEF IInv, Consistent
<1>2. /\ UNCHANGED <<plan, assigned, commits, crashed>> /\ monitor' = "loop" /\ job' = JobState(status')
      /\ Tasks' = Tasks
  BY WatchEffect, SamePlan
<1>3. /\ Entries' = Entries \ Ended /\ Ended \subseteq Entries
      /\ \A t \in Tasks : t \notin Ended => executorOf'[t] = executorOf[t]
      /\ \A t \in Entries \ Ended : process'[executorOf[t]] = process[executorOf[t]]
  BY <1>1, WatchEntries, ReportFacts
<1>4. \A q \in Pids : process'[q].state # "free" => process'[q] = process[q] /\ \A t \in Ended : executorOf[t] # q
  BY WatchEntries
<1>5. ASSUME NEW t \in Entries
      PROVE  /\ t \in Tasks /\ process[executorOf[t]].task = t /\ process[executorOf[t]].state # "free"
             /\ status'[t] = Reported[t]
  BY <1>1, EntryFacts, WatchStatus
<1>6. assigned = {}
  BY <1>1 DEF MonitorInv
<1>7. MonitorInv'
  <2>1. ASSUME NEW t \in Entries \ Ended
        PROVE  /\ process'[executorOf'[t]].task = t /\ process'[executorOf'[t]].state # "free"
               /\ status'[t] = "running"
    BY SMTT(30), Z3T(30), <1>1, <1>3, <1>5, ReportFacts
  <2> QED
    BY <1>2, <1>3, <1>6, <2>1 DEF MonitorInv
<1>8. ProcessInv'
  <2> SUFFICES ASSUME NEW q \in Pids, process'[q].state # "free"
               PROVE  /\ process'[q].task \in Tasks
                      /\ \A t \in Tasks : process'[q].task = t => Ready(t)'
                      /\ process'[q].state \in {"lost", "failed", "succeeded"} => Tracked(q)'
                      /\ process'[q].state = "succeeded" => commits[process'[q].task] > 0
    BY SMTT(30), Z3T(30), <1>2 DEF ProcessInv
  <2>1. process'[q] = process[q] /\ \A t \in Ended : executorOf[t] # q
    BY <1>4
  <2>2. Tracked(q) => Tracked(q)'
    BY <1>3, <1>5, <2>1 DEF Tracked
  <2> QED
    BY SMTT(30), Z3T(30), <1>1, <2>1, <2>2, WatchOrder DEF ProcessInv
<1>9. OnceInv'
  <2> SUFFICES ASSUME ~crashed PROVE OnceInv'
    BY <1>2 DEF OnceInv
  <2>1. ASSUME NEW t \in Tasks, status'[t] = "running" PROVE t \in Entries \ Ended
    <3>1. Reported[t] = "running"
      BY <2>1, WatchStatus
    <3>2. t \in Entries
      BY SMTT(30), Z3T(30), <1>1, <3>1, ReportFacts DEF OnceInv
    <3>3. t \notin Ended
      BY <1>1, <3>1, ReportFacts DEF Ended
    <3> QED
      BY <3>2, <3>3
  <2>2. ASSUME NEW t \in Entries \ Ended PROVE commits[t] = 1 <=> process'[executorOf'[t]].state = "succeeded"
    BY SMTT(30), Z3T(30), <1>1, <1>3, <1>5 DEF OnceInv
  <2>3. ASSUME NEW t \in Tasks, t \notin Entries \ Ended, commits[t] = 1 PROVE status'[t] \in {"done", "cancelled"}
    <3>1. CASE t \in Ended
      <4>1. t \in Entries /\ t \notin Failed
        BY <1>1, <1>3, <2>3, <3>1, ReportFacts DEF OnceInv
      <4> QED
        BY SMTT(30), Z3T(30), <1>1, <1>5, <3>1, <4>1, ReportFacts DEF Ended
    <3>2. CASE t \notin Ended
      <4>1. status[t] \in {"done", "cancelled"} /\ Reported[t] = status[t]
        BY <1>1, <2>3, <3>2, ReportFacts DEF OnceInv
      <4>2. Ready(t)
        <5>1. commits[t] > 0
          BY SMTT(30), Z3T(30), <2>3
        <5> QED
          BY <1>1, <5>1 DEF OrderInv
      <4> QED
        BY <4>1, <4>2, WatchStatus
    <3> QED
      BY <3>1, <3>2
  <2>4. ASSUME NEW q \in Pids, process'[q].state # "free" PROVE executorOf'[process'[q].task] = q
    <3>1. process'[q] = process[q] /\ process[q].task \in Tasks /\ executorOf[process[q].task] = q
      BY <1>1, <1>4, <2>4 DEF OnceInv, ProcessInv
    <3> QED
      BY <1>3, <1>4, <2>4, <3>1
  <2>5. \A t \in Tasks : commits[t] <= 1
    BY <1>1 DEF OnceInv
  <2> QED
    BY <1>2, <1>3, <2>1, <2>2, <2>3, <2>4, <2>5 DEF OnceInv
<1>10. JobFollowsTasks'
  <2>1. JobState(status)' = JobState(status')
    BY <1>2 DEF JobState
  <2> QED
    BY <1>2, <2>1 DEF JobFollowsTasks
<1> QED
  BY <1>7, <1>8, <1>9, <1>10, WatchOrder, WatchNodes DEF Consistent

-----------------------------------------------------------------------------
(* Types                                                                   *)

\* The state of a job.
LEMMA JobStateType ==
  ASSUME NEW s
  PROVE  JobState(s) \in JobTerminal \cup {"scheduled", "running", "failing", "cancelling"}
BY DEF JobState, JobTerminal

\* The statuses after a cancel.
LEMMA CancelType ==
  ASSUME TypeOK, CancelTasksForJob
  PROVE  /\ status' \in [Tasks -> TaskStatuses]
         /\ job' \in JobTerminal \cup {"scheduled", "running", "failing", "cancelling"}
<1>1. job' \in JobTerminal \cup {"scheduled", "running", "failing", "cancelling"}
  BY JobStateType DEF CancelTasksForJob
<1>2. CancelledStatus \in [Tasks -> TaskStatuses]
  BY DEF CancelledStatus, TypeOK, TaskStatuses, TaskTerminal
<1> QED
  BY <1>1, <1>2 DEF CancelTasksForJob

\* The steps of the monitor that start no executor and end none.
LEMMA TypeMonitor ==
  ASSUME IInv, \/ StartCitusBackgroundTaskQueueMonitor \/ ResetRunningBackgroundTasks
               \/ \E t \in Tasks : WaitForTaskLock(t)
               \/ ResetCommits \/ HandleSignals \/ SkipAssign \/ BeginAssign
  PROVE  TypeOK' /\ plan' = plan
<1>1. TypeOK
  BY DEF IInv
<1>2. CASE StartCitusBackgroundTaskQueueMonitor \/ SkipAssign \/ BeginAssign
  <2>1. /\ UNCHANGED <<table, local, executors, bounds>>
        /\ monitor' \in {"off", "started", "reset", "loop", "check", "assign", "watch"}
    BY <1>2 DEF StartCitusBackgroundTaskQueueMonitor, SkipAssign, BeginAssign
  <2> QED
    BY SMTT(30), Z3T(30), <1>1, <2>1, SamePlan DEF TypeOK
<1>3. CASE ResetRunningBackgroundTasks
  <2>1. /\ UNCHANGED <<table, executorOf, assigned, taskCount, got, handled, process, commits>>
        /\ monitor' = "reset" /\ waitFor' \subseteq Tasks /\ held' \subseteq Tasks
    BY <1>3 DEF ResetRunningBackgroundTasks
  <2>2. signalled' \subseteq Pids
    BY <1>1, <1>3, PidFacts DEF ResetRunningBackgroundTasks, TypeOK
  <2> QED
    BY SMTT(30), Z3T(30), <1>1, <2>1, <2>2, SamePlan DEF TypeOK
<1>4. ASSUME NEW t \in Tasks, WaitForTaskLock(t) PROVE TypeOK' /\ plan' = plan
  BY SMTT(30), Z3T(30), <1>1, <1>4, SamePlan DEF WaitForTaskLock, TypeOK
<1>5. CASE ResetCommits
  <2>1. /\ UNCHANGED <<plan, retryCount, backoff, job, waitFor, executorOf, assigned, taskCount, got, handled, executors>>
        /\ monitor' = "loop" /\ held' = {}
    BY <1>5 DEF ResetCommits
  <2>2. status' \in [Tasks -> TaskStatuses] /\ pid' \in [Tasks -> Pids \cup {None}]
    BY <1>1, <1>5 DEF ResetCommits, TypeOK, TaskStatuses
  <2> QED
    BY SMTT(30), Z3T(30), <1>1, <2>1, <2>2, SamePlan DEF TypeOK
<1>6. CASE HandleSignals
  <2>1. /\ UNCHANGED <<plan, pid, retryCount, backoff, waitFor, held, executorOf, assigned, taskCount, got, process, commits>>
        /\ monitor' = "check" /\ handled' = got
        /\ CancelTasksForJob \/ UNCHANGED <<status, job>>
    BY <1>6 DEF HandleSignals
  <2>2. signalled' \subseteq Pids
    <3>1. {executorOf[t] : t \in Entries} \subseteq Pids /\ {pid[t] : t \in RunningWithPid} \subseteq Pids
      BY SMTT(30), Z3T(30), <1>1 DEF TypeOK, Entries, RunningWithPid
    <3>2. PICK ps \in SUBSET Pids : Signal(ps)
      BY <1>6, <3>1 DEF HandleSignals
    <3> QED
      BY <1>1, <3>2 DEF Signal, TypeOK
  <2> QED
    BY SMTT(30), Z3T(30), <1>1, <2>1, <2>2, CancelType, SamePlan DEF TypeOK
<1> QED
  BY <1>2, <1>3, <1>4, <1>5, <1>6

\* The steps that start executors.
LEMMA TypeAssign ==
  ASSUME IInv, StartExecutor \/ ForkFails \/ AssignFails \/ NothingRunnable
  PROVE  TypeOK' /\ plan' = plan
<1>1. plan \in Plans /\ TypeOK /\ MonitorInv /\ ProcessInv /\ NodeInv
  BY DEF IInv, Consistent
<1>2. ASSUME NEW state \in {"starting", "lost"}, AssignRunnableTaskToNewExecutor(state)
      PROVE  TypeOK' /\ plan' = plan
  <2>1. PICK t, p : t = Min(Runnable) /\ p = Min(FreePids)
    OBVIOUS
  <2>2. /\ UNCHANGED <<table, monitor, waitFor, held, got, handled, signalled, commits>>
        /\ Runnable # {} /\ ~NoExecutor /\ IncrementParallelTaskCount(t)
        /\ executorOf' = [executorOf EXCEPT ![t] = p]
        /\ process' = [process EXCEPT ![p] = [task |-> t, state |-> state]]
        /\ assigned' = assigned \cup {t}
    BY <1>2, <2>1 DEF AssignRunnableTaskToNewExecutor
  <2>3. t \in Runnable /\ t \in Tasks /\ p \in Pids
    BY <1>1, <2>1, <2>2, RunnableFacts, FreePidExists
  <2>4. taskCount' \in [Nodes -> Nat]
    BY <1>1, <2>2, <2>3, IncrementEffect
  <2>5. /\ executorOf' \in [Tasks -> Pids \cup {None}] /\ assigned' \subseteq Tasks
        /\ process' \in [Pids -> [task : Tasks \cup {None},
                                  state : {"free", "lost", "starting", "executing", "failed", "succeeded"}]]
    BY SMTT(30), Z3T(30), <1>1, <2>2, <2>3 DEF TypeOK
  <2> QED
    BY SMTT(30), Z3T(30), <1>1, <2>2, <2>4, <2>5, SamePlan DEF TypeOK
<1>3. CASE AssignFails \/ NothingRunnable
  <2>1. /\ UNCHANGED <<plan, pid, retryCount, backoff, waitFor, held, executorOf, got, handled, executors>>
        /\ status' = [t \in Tasks |-> IF t \in assigned THEN "running" ELSE status[t]]
        /\ assigned' = {} /\ monitor' = "watch" /\ (job' = job \/ \E s : job' = JobState(s))
    BY <1>3 DEF AssignFails, NothingRunnable, AssignCommits
  <2>2. status' \in [Tasks -> TaskStatuses]
    BY <1>1, <2>1 DEF TypeOK, TaskStatuses
  <2>3. taskCount' \in [Nodes -> Nat]
    <3>1. CASE NothingRunnable
      BY <1>1, <3>1 DEF NothingRunnable, TypeOK
    <3>2. CASE AssignFails
      BY <1>1, <3>2, RunnableFacts, IncrementEffect DEF AssignFails
    <3> QED
      BY <1>3, <3>1, <3>2
  <2>4. job' \in JobTerminal \cup {"scheduled", "running", "failing", "cancelling"}
    BY <1>1, <2>1, JobStateType DEF TypeOK
  <2> QED
    BY SMTT(30), Z3T(30), <1>1, <2>1, <2>2, <2>3, <2>4, SamePlan DEF TypeOK
<1> QED
  BY <1>2, <1>3 DEF StartExecutor, ForkFails

\* Executors that have ended.
LEMMA TypeWatch ==
  ASSUME IInv, WatchExecutors
  PROVE  TypeOK' /\ plan' = plan
<1>1. plan \in Plans /\ TypeOK /\ MonitorInv /\ ProcessInv /\ OrderInv /\ monitor = "watch"
  BY WatchEffect DEF IInv, Consistent
<1>2. Ended \subseteq Entries /\ Failed \subseteq Entries /\ Entries \subseteq Tasks
  BY <1>1, ReportFacts DEF Entries
<1>3. status' \in [Tasks -> TaskStatuses]
  <2>1. \A t \in Tasks : Reported[t] \in TaskStatuses
    BY <1>1 DEF Reported, TaskHadError, TypeOK, TaskStatuses, TaskTerminal
  <2>2. \A t \in Tasks : status'[t] \in TaskStatuses
    BY <2>1, WatchStatus DEF TaskStatuses, TaskTerminal
  <2>3. status' = [t \in Tasks |-> status'[t]]
    BY WatchEffect DEF UpdateDependingTasks
  <2> QED
    BY <2>2, <2>3
<1>4. pid' \in [Tasks -> Pids \cup {None}]
  BY <1>1, WatchEffect DEF TypeOK
<1>5. retryCount' \in [Tasks -> 0..(RetryLimit + 1)]
  <2>1. RetryLimit \in Nat
    BY JobsAssumption DEF JobsAssumption
  <2>2. \A t \in Tasks : retryCount[t] \in 0..(RetryLimit + 1)
    BY <1>1 DEF TypeOK
  <2>3. \A t \in Failed : ~(retryCount[t] > RetryLimit)
    BY <1>1, <1>2, EntryFacts DEF OrderInv
  <2>4. \A t \in Tasks : retryCount[t] + (IF t \in Failed THEN 1 ELSE 0) \in 0..(RetryLimit + 1)
    BY SMTT(30), Z3T(30), <2>1, <2>2, <2>3
  <2> QED
    BY <2>4, WatchEffect
<1>6. backoff' \subseteq Tasks
  BY <1>1, <1>2, WatchEffect DEF TypeOK
<1>7. job' \in JobTerminal \cup {"scheduled", "running", "failing", "cancelling"}
  BY WatchEffect, JobStateType
<1>8. executorOf' \in [Tasks -> Pids \cup {None}]
  BY <1>1, WatchEffect DEF TaskEnded, TypeOK
<1>9. process' \in [Pids -> [task : Tasks \cup {None},
                             state : {"free", "lost", "starting", "executing", "failed", "succeeded"}]]
  BY SMTT(30), Z3T(30), <1>1, WatchEffect DEF TaskEnded, TypeOK, Free
<1>10. /\ UNCHANGED <<plan, waitFor, held, assigned, got, handled, signalled, commits>>
       /\ monitor' = "loop" /\ taskCount' \in [Nodes -> Nat]
  BY WatchEffect, WatchNodes
<1> QED
  BY SMTT(30), Z3T(30), <1>1, <1>3, <1>4, <1>5, <1>6, <1>7, <1>8, <1>9, <1>10, SamePlan DEF TypeOK

\* Cancels, executor processes, the end of the monitor and the passing of time.
LEMMA TypeEnvironment ==
  ASSUME IInv, \/ citus_job_cancel \/ MonitorExits \/ MonitorCrash
               \/ \E sig \in {"sigterm", "sigint"} : MonitorSignalled(sig)
               \/ \E p \in Pids : AcquireTaskLock(p) \/ CommandCommits(p) \/ CommandFails(p)
               \/ \E t \in Tasks : BackoffEnds(t)
  PROVE  TypeOK' /\ plan' = plan
<1>1. TypeOK /\ ProcessInv
  BY DEF IInv, Consistent
<1>2. CASE citus_job_cancel
  <2>1. /\ UNCHANGED <<plan, pid, retryCount, backoff, monitor, local, process, commits>>
        /\ CancelTasksForJob
    BY <1>2 DEF citus_job_cancel
  <2>2. signalled' \subseteq Pids
    <3>1. {pid[t] : t \in RunningWithPid} \subseteq Pids
      BY <1>1 DEF TypeOK, RunningWithPid
    <3>2. PICK ps \in SUBSET Pids : Signal(ps)
      BY <1>2, <3>1 DEF citus_job_cancel
    <3> QED
      BY <1>1, <3>2 DEF Signal, TypeOK
  <2> QED
    BY SMTT(30), Z3T(30), <1>1, <2>1, <2>2, CancelType, SamePlan DEF TypeOK
<1>3. CASE MonitorExits \/ MonitorCrash
  <2>1. MonitorGone /\ UNCHANGED <<table, signalled, commits>>
    BY <1>3 DEF MonitorExits, MonitorCrash
  <2>2. process' \in [Pids -> [task : Tasks \cup {None},
                               state : {"free", "lost", "starting", "executing", "failed", "succeeded"}]]
    BY SMTT(30), Z3T(30), <1>1, <2>1 DEF MonitorGone, TypeOK, Free
  <2>3. /\ monitor' = "off" /\ waitFor' = {} /\ held' = {} /\ assigned' = {} /\ got' = {} /\ handled' = {}
        /\ executorOf' \in [Tasks -> Pids \cup {None}] /\ taskCount' \in [Nodes -> Nat]
    BY <2>1 DEF MonitorGone
  <2> QED
    BY SMTT(30), Z3T(30), <1>1, <2>1, <2>2, <2>3, SamePlan DEF TypeOK
<1>4. ASSUME NEW sig \in {"sigterm", "sigint"}, MonitorSignalled(sig) PROVE TypeOK' /\ plan' = plan
  BY SMTT(30), Z3T(30), <1>1, <1>4, SamePlan DEF MonitorSignalled, TypeOK
<1>5. ASSUME NEW p \in Pids, AcquireTaskLock(p) \/ CommandCommits(p) \/ CommandFails(p)
      PROVE  TypeOK' /\ plan' = plan
  <2>1. signalled' \subseteq Pids
    BY <1>1, <1>5 DEF AcquireTaskLock, CommandCommits, CommandFails, Exit, TypeOK
  <2>2. commits' \in [Tasks -> 0..2]
    <3>1. CASE commits' = commits
      BY <1>1, <3>1 DEF TypeOK
    <3>2. CASE commits' = [commits EXCEPT ![process[p].task] = Min({@ + 1, 2})]
      <4>1. process[p].task \in Tasks
        BY <1>1, <1>5, ProcessEffect
      <4>2. PICK n \in 0..2 : n = commits[process[p].task]
        BY <1>1, <4>1 DEF TypeOK
      <4>3. Min({n + 1, 2}) \in 0..2
        <5>1. Min({n + 1, 2}) \in 1..2
          BY CommitCount
        <5> QED
          BY SMTT(30), Z3T(30), <5>1
      <4> QED
        BY <1>1, <3>2, <4>1, <4>2, <4>3 DEF TypeOK
    <3> QED
      BY <1>1, <1>5, <3>1, <3>2, ProcessEffect
  <2>3. /\ UNCHANGED <<table, monitor, local, bounds>>
        /\ process' \in [Pids -> [task : Tasks \cup {None},
                                  state : {"free", "lost", "starting", "executing", "failed", "succeeded"}]]
    BY <1>1, <1>5, ProcessEffect
  <2> QED
    BY SMTT(30), Z3T(30), <1>1, <2>1, <2>2, <2>3, SamePlan DEF TypeOK
<1>6. ASSUME NEW t \in Tasks, BackoffEnds(t) PROVE TypeOK' /\ plan' = plan
  BY SMTT(30), Z3T(30), <1>1, <1>6, SamePlan DEF BackoffEnds, TypeOK
<1> QED
  BY <1>2, <1>3, <1>4, <1>5, <1>6

-----------------------------------------------------------------------------
(* Invariance                                                              *)

\* The tasks of a new job are blocked or runnable, and nothing runs.
LEMMA InitInv == Init => IInv
<1> SUFFICES ASSUME Init PROVE IInv
  OBVIOUS
<1>1. \A t \in Tasks : /\ status[t] = ScheduleBackgroundTask(t) /\ status[t] \in {"blocked", "runnable"}
                       /\ executorOf[t] = None /\ commits[t] = 0 /\ retryCount[t] = 0
  BY DEF Init, ScheduleBackgroundTask
<1>2. Entries = {} /\ \A p \in Pids : process[p] = Free
  BY <1>1 DEF Entries, Init
<1>3. TypeOK
  <2>1. status \in [Tasks -> TaskStatuses]
    BY DEF Init, ScheduleBackgroundTask, TaskStatuses
  <2>2. retryCount \in [Tasks -> 0..(RetryLimit + 1)] /\ commits \in [Tasks -> 0..2]
    BY SMTT(30), Z3T(30), JobsAssumption DEF JobsAssumption, Init
  <2>3. process \in [Pids -> [task : Tasks \cup {None},
                              state : {"free", "lost", "starting", "executing", "failed", "succeeded"}]]
    BY SMTT(30), Z3T(30) DEF Init, Free
  <2>4. taskCount \in [Nodes -> Nat]
    BY SMTT(30), Z3T(30) DEF Init
  <2> QED
    BY <2>1, <2>2, <2>3, <2>4 DEF Init, TypeOK
<1>4. MonitorInv
  BY <1>2 DEF MonitorInv, Init
<1>5. ProcessInv
  BY <1>2 DEF ProcessInv, Free
<1>6. OrderInv
  <2>1. \A t \in Tasks : ~(commits[t] > 0) /\ ~(retryCount[t] > RetryLimit)
    BY SMTT(30), Z3T(30), <1>1, JobsAssumption DEF JobsAssumption
  <2>2. \A t \in Tasks : status[t] = "runnable" => Ready(t)
    BY <1>1 DEF ScheduleBackgroundTask, Ready
  <2> QED
    BY <1>1, <2>1, <2>2 DEF OrderInv
<1>7. NodeInv
  <2> SUFFICES ASSUME NEW n \in Nodes
               PROVE  /\ Cardinality({t \in Entries : n \in NodesInvolved(t)}) <= taskCount[n]
                      /\ taskCount[n] <= MaxBackgroundTaskExecutorsPerNode
    BY DEF NodeInv
  <2>1. taskCount[n] = 0 /\ {t \in Entries : n \in NodesInvolved(t)} = {}
    BY <1>2 DEF Init
  <2>2. Cardinality({t \in Entries : n \in NodesInvolved(t)}) = 0
    BY <2>1, FS_EmptySet
  <2>3. 0 <= 0 /\ 0 <= MaxBackgroundTaskExecutorsPerNode
    BY SMTT(30), Z3T(30), JobsAssumption DEF JobsAssumption
  <2> QED
    BY <2>1, <2>2, <2>3
<1>8. OnceInv
  <2>1. \A t \in Tasks : commits[t] <= 1 /\ commits[t] # 1
    BY SMTT(30), Z3T(30), <1>1
  <2> QED
    BY SMTT(30), Z3T(30), <1>1, <1>2, <2>1 DEF OnceInv, Free
<1>9. JobFollowsTasks
  BY <1>1 DEF JobFollowsTasks, Init
<1> QED
  BY <1>3, <1>4, <1>5, <1>6, <1>7, <1>8, <1>9 DEF Init, IInv, Consistent

\* Every step keeps the types and the plan.
LEMMA NextType ==
  ASSUME IInv, [Next]_vars
  PROVE  TypeOK' /\ plan' = plan
<1>1. CASE Next
  BY <1>1, TypeMonitor, TypeAssign, TypeWatch, TypeEnvironment DEF Next, MonitorStep
<1>2. CASE UNCHANGED vars
  <2>1. TypeOK
    BY DEF IInv
  <2> QED
    BY SMTT(30), Z3T(30), <1>2, <2>1, SamePlan DEF TypeOK, vars
<1> QED
  BY <1>1, <1>2

\* Every step keeps what the pieces of state say about one another.
LEMMA NextConsistent ==
  ASSUME IInv, [Next]_vars
  PROVE  Consistent'
<1>1. CASE StartCitusBackgroundTaskQueueMonitor
  BY <1>1, QuietStep DEF StartCitusBackgroundTaskQueueMonitor
<1>2. CASE ResetRunningBackgroundTasks
  BY <1>2, QuietStep DEF ResetRunningBackgroundTasks
<1>3. ASSUME NEW t \in Tasks, WaitForTaskLock(t) PROVE Consistent'
  BY <1>3, QuietStep DEF WaitForTaskLock
<1>4. CASE ResetCommits
  BY <1>4, ResetStep
<1>5. CASE HandleSignals
  <2>1. /\ UNCHANGED <<plan, retryCount, executorOf, assigned, taskCount, process, commits, crashed>>
        /\ monitor = "loop" /\ monitor' = "check"
        /\ CancelTasksForJob \/ UNCHANGED <<status, job>>
    BY <1>5 DEF HandleSignals
  <2> QED
    BY <2>1, CancelStep, QuietStep
<1>6. CASE SkipAssign
  BY <1>6, QuietStep DEF SkipAssign
<1>7. CASE BeginAssign
  BY <1>7, QuietStep DEF BeginAssign
<1>8. CASE StartExecutor
  BY <1>8, AssignStep DEF StartExecutor
<1>9. CASE ForkFails
  BY <1>9, AssignStep DEF ForkFails
<1>10. CASE AssignFails \/ NothingRunnable
  BY <1>10, AssignCommitsStep
<1>11. CASE WatchExecutors
  BY <1>11, WatchStep
<1>12. CASE MonitorExits \/ MonitorCrash
  BY <1>12, MonitorGoneStep
<1>13. ASSUME NEW sig \in {"sigterm", "sigint"}, MonitorSignalled(sig) PROVE Consistent'
  BY <1>13, QuietStep DEF MonitorSignalled
<1>14. CASE citus_job_cancel
  <2>1. /\ UNCHANGED <<plan, retryCount, executorOf, assigned, taskCount, process, commits, crashed, monitor>>
        /\ CancelTasksForJob /\ monitor # "assign"
    BY <1>14 DEF citus_job_cancel
  <2> QED
    BY <2>1, CancelStep
<1>15. ASSUME NEW p \in Pids, AcquireTaskLock(p) \/ CommandCommits(p) \/ CommandFails(p) PROVE Consistent'
  BY <1>15, ProcessStep
<1>16. ASSUME NEW t \in Tasks, BackoffEnds(t) PROVE Consistent'
  BY <1>16, QuietStep DEF BackoffEnds
<1>17. CASE UNCHANGED vars
  BY <1>17, QuietStep DEF vars
<1> QED
  BY <1>1, <1>2, <1>3, <1>4, <1>5, <1>6, <1>7, <1>8, <1>9, <1>10, <1>11, <1>12, <1>13, <1>14, <1>15, <1>16, <1>17
     DEF Next, MonitorStep

\* No step changes a task that is done, failed for good or is unscheduled.
LEMMA NextFinished ==
  ASSUME IInv, [Next]_vars
  PROVE  \A t \in Tasks : status[t] \in {"done", "error", "unscheduled"} => status'[t] = status[t]
<1>1. MonitorInv
  BY DEF IInv, Consistent
<1>2. CASE UNCHANGED status
  BY <1>2
<1>3. CASE ResetCommits
  BY <1>3 DEF ResetCommits
<1>4. CASE CancelTasksForJob
  BY <1>4 DEF CancelTasksForJob, CancelledStatus, TaskTerminal
<1>5. CASE AssignFails \/ NothingRunnable
  <2>1. \A t \in assigned : status[t] = "runnable"
    BY <1>1 DEF MonitorInv
  <2>2. status' = [t \in Tasks |-> IF t \in assigned THEN "running" ELSE status[t]]
    BY <1>5 DEF AssignFails, NothingRunnable, AssignCommits
  <2> QED
    BY <2>1, <2>2
<1>6. CASE WatchExecutors
  BY <1>6, WatchOrder
<1>7. \/ UNCHANGED status \/ ResetCommits \/ CancelTasksForJob
      \/ AssignFails \/ NothingRunnable \/ WatchExecutors
  <2>1. CASE UNCHANGED vars
    BY <2>1 DEF vars
  <2>2. CASE MonitorStep
    BY <2>2 DEF MonitorStep, ResetRunningBackgroundTasks, WaitForTaskLock, HandleSignals, SkipAssign, BeginAssign,
                StartExecutor, AssignRunnableTaskToNewExecutor, MonitorExits
  <2>3. CASE Next /\ ~MonitorStep
    BY <2>3 DEF Next, StartCitusBackgroundTaskQueueMonitor, ForkFails, AssignRunnableTaskToNewExecutor,
                MonitorCrash, MonitorSignalled, citus_job_cancel, AcquireTaskLock, CommandCommits,
                CommandFails, BackoffEnds
  <2> QED
    BY <2>1, <2>2, <2>3
<1> QED
  BY <1>2, <1>3, <1>4, <1>5, <1>6, <1>7

\* The inductive invariant: the catalog of tasks, the executors the monitor follows, their
\* processes and the counts of the nodes stay consistent, whatever the plan and the limits.
THEOREM Invariance == Spec => []IInv
<1>1. IInv /\ [Next]_vars => IInv'
  <2> SUFFICES ASSUME IInv, [Next]_vars PROVE IInv'
    OBVIOUS
  <2>1. TypeOK' /\ plan' = plan /\ Consistent'
    BY NextType, NextConsistent
  <2> QED
    BY <2>1 DEF IInv
<1> QED
  BY InitInv, <1>1, PTL DEF Spec

\* Every variable keeps its type; in particular no count of a node goes below zero
\* (DecrementParallelTaskCountForNodesInvolved).
THEOREM TypeCorrect == Spec => []TypeOK
<1>1. IInv => TypeOK
  BY DEF IInv
<1> QED
  BY Invariance, <1>1, PTL

\* A task that is done, failed for good or is unscheduled never changes its status again.
THEOREM FinishedStay == Spec => FinishedTasksStay
<1>1. IInv /\ [Next]_vars =>
        [\A t \in Tasks : status[t] \in {"done", "error", "unscheduled"} => status'[t] = status[t]]_vars
  BY NextFinished
<1> QED
  BY Invariance, <1>1, PTL DEF Spec, FinishedTasksStay

-----------------------------------------------------------------------------
(* The order of the moves                                                  *)

\* The tasks a ready task waits for committed and were ready themselves.
LEMMA ReadyFacts ==
  ASSUME plan \in Plans, OrderInv, NEW i \in Tasks, Ready(i)
  PROVE  \A d \in DependsOn(i) : d \in Tasks /\ d < i /\ commits[d] > 0 /\ Ready(d)
BY DependencyFacts DEF OrderInv, Ready

\* The dependencies of a move on other moves are among its dependencies.
LEMMA MoveDependencies ==
  ASSUME plan \in Plans, NEW i \in DOMAIN Moves
  PROVE  /\ i \in Nat \ {0} /\ i \in Tasks
         /\ \A d \in ColocationDependency(i) \cup NodeDependencies(i) : d \in DependsOn(i) /\ d \in DOMAIN Moves
<1>1. i \in 1..Len(Moves) /\ Len(Moves) \in Nat /\ DOMAIN Moves = 1..Len(Moves) /\ i \in Tasks
  BY MovesFacts
<1>2. i \in Nat \ {0}
  BY SMTT(30), Z3T(30), <1>1
<1>3. \A d \in 1..(i - 1) : d \in DOMAIN Moves
  BY SMTT(30), Z3T(30), <1>1
<1>4. ColocationDependency(i) \subseteq 1..(i - 1)
  <2> DEFINE earlier == {k \in 1..(i - 1) : Moves[k].group = Moves[i].group}
  <2>1. CASE earlier = {}
    BY <2>1 DEF ColocationDependency
  <2>2. CASE earlier # {}
    <3>1. Max(earlier) \in earlier
      BY <1>2, <2>2, MaxFacts
    <3> QED
      BY <2>2, <3>1 DEF ColocationDependency
  <2> QED
    BY <2>1, <2>2
<1>5. NodeDependencies(i) \subseteq 1..(i - 1)
  BY DEF NodeDependencies
<1>6. \A d \in ColocationDependency(i) \cup NodeDependencies(i) : d \in DependsOn(i)
  BY DEF DependsOn
<1> QED
  BY <1>1, <1>2, <1>3, <1>4, <1>5, <1>6

\* All earlier moves of the colocation group of a ready move committed: along the chain of
\* last earlier moves, by the least move for which one did not.
LEMMA GroupCommitted ==
  ASSUME plan \in Plans, OrderInv
  PROVE  \A i \in DOMAIN Moves : Ready(i) =>
           \A k \in 1..(i - 1) : Moves[k].group = Moves[i].group => commits[k] > 0
<1> DEFINE Bad == {i \in DOMAIN Moves : Ready(i) /\ \E k \in 1..(i - 1) :
                                          Moves[k].group = Moves[i].group /\ ~(commits[k] > 0)}
<1> SUFFICES ASSUME Bad # {} PROVE FALSE
  OBVIOUS
<1>1. Bad \subseteq Nat
  BY MoveDependencies
<1>2. PICK i \in Bad : \A j \in Bad : i <= j
  BY <1>1, LeastElement
<1>3. i \in DOMAIN Moves /\ Ready(i) /\ i \in Nat \ {0} /\ i \in Tasks
  BY MoveDependencies
<1>4. PICK k \in 1..(i - 1) : Moves[k].group = Moves[i].group /\ ~(commits[k] > 0)
  OBVIOUS
<1> DEFINE earlier == {l \in 1..(i - 1) : Moves[l].group = Moves[i].group}
<1>5. PICK m : m = Max(earlier)
  OBVIOUS
<1>6. m \in earlier /\ k <= m
  BY <1>3, <1>4, <1>5, MaxFacts
<1>7. m \in ColocationDependency(i)
  BY <1>5, <1>6 DEF ColocationDependency
<1>8. m \in DOMAIN Moves /\ m < i /\ commits[m] > 0 /\ Ready(m)
  BY <1>3, <1>7, MoveDependencies, ReadyFacts
<1>9. k # m /\ k \in 1..(m - 1) /\ ~(i <= m)
  <2>1. k # m
    BY <1>4, <1>8
  <2> QED
    BY SMTT(30), Z3T(30), <1>3, <1>6, <1>8, <2>1
<1>10. m \in Bad
  BY <1>4, <1>6, <1>8, <1>9
<1> QED
  BY <1>2, <1>9, <1>10

\* The reference tables were copied before any ready move: down the dependencies of the
\* move one comes to a move that has none on other moves, which waits for the copy.
LEMMA ReferenceTablesCommitted ==
  ASSUME plan \in Plans, OrderInv, ReplicateRefTables
  PROVE  \A i \in DOMAIN Moves : Ready(i) => commits[RefTask] > 0
<1> DEFINE Bad == {i \in DOMAIN Moves : Ready(i)}
<1> SUFFICES ASSUME Bad # {}, ~(commits[RefTask] > 0) PROVE FALSE
  OBVIOUS
<1>1. Bad \subseteq Nat
  BY MoveDependencies
<1>2. PICK i \in Bad : \A j \in Bad : i <= j
  BY <1>1, LeastElement
<1>3. i \in DOMAIN Moves /\ Ready(i) /\ i \in Nat \ {0} /\ i \in Tasks
  BY MoveDependencies
<1>4. CASE ColocationDependency(i) \cup NodeDependencies(i) = {}
  <2>1. i # RefTask
    BY <1>3 DEF RefTask
  <2>2. RefTask \in DependsOn(i)
    BY <1>4, <2>1 DEF DependsOn
  <2> QED
    BY <1>3, <2>2, ReadyFacts
<1>5. CASE ColocationDependency(i) \cup NodeDependencies(i) # {}
  <2>1. PICK d : d \in ColocationDependency(i) \cup NodeDependencies(i)
    BY <1>5
  <2>2. d \in Bad /\ d < i
    BY <1>3, <2>1, MoveDependencies, ReadyFacts
  <2>3. ~(i <= d)
    BY SMTT(30), Z3T(30), <1>1, <1>3, <2>2
  <2> QED
    BY <1>2, <2>2, <2>3
<1> QED
  BY <1>4, <1>5

\* While a move runs, what it depends on committed: the copy of the reference tables, the
\* earlier moves of its colocation group and the earlier moves off its target node, across
\* retries, cancels and crashes of the monitor.
THEOREM RunInOrder == Spec => []MovesRunInOrder
<1>1. IInv => MovesRunInOrder
  <2> SUFFICES ASSUME IInv, NEW i \in DOMAIN Moves, Executing(i)
               PROVE  /\ ReplicateRefTables => commits[RefTask] > 0
                      /\ \A k \in 1..(i - 1) :
                           Moves[k].group = Moves[i].group \/ Moves[k].source = Moves[i].target => commits[k] > 0
    BY DEF MovesRunInOrder
  <2>1. plan \in Plans /\ ProcessInv /\ OrderInv
    BY DEF IInv, Consistent
  <2>2. i \in Tasks
    BY <2>1, MoveDependencies
  <2>3. Ready(i)
    <3>1. PICK p \in Pids : process[p] = [task |-> i, state |-> "executing"]
      BY DEF Executing
    <3>2. process[p].task = i /\ process[p].state # "free"
      BY <3>1
    <3> QED
      BY <2>1, <2>2, <3>2 DEF ProcessInv
  <2>4. ReplicateRefTables => commits[RefTask] > 0
    BY <2>1, <2>3, ReferenceTablesCommitted
  <2>5. \A k \in 1..(i - 1) : Moves[k].group = Moves[i].group => commits[k] > 0
    BY <2>1, <2>3, GroupCommitted
  <2>6. \A k \in 1..(i - 1) : Moves[k].source = Moves[i].target => commits[k] > 0
    <3> SUFFICES ASSUME NEW k \in 1..(i - 1), Moves[k].source = Moves[i].target PROVE commits[k] > 0
      OBVIOUS
    <3>1. k \in NodeDependencies(i)
      BY DEF NodeDependencies
    <3> QED
      BY <2>1, <2>2, <2>3, <3>1, MoveDependencies, ReadyFacts
  <2> QED
    BY <2>4, <2>5, <2>6
<1> QED
  BY Invariance, <1>1, PTL

\* Unless the monitor crashes, no task commits twice, a task that is done committed, and
\* one that committed is neither run again nor counted as failed.
THEOREM CommitOnce == Spec => []CommitsOnce
<1>1. IInv => CommitsOnce
  <2> SUFFICES ASSUME IInv, ~crashed, NEW t \in Tasks
               PROVE  /\ commits[t] <= 1
                      /\ status[t] = "done" => commits[t] = 1
                      /\ commits[t] = 1 =>
                           status[t] \notin {"blocked", "runnable", "error", "unscheduled"} \/ t \in assigned
    BY DEF CommitsOnce
  <2>1. TypeOK /\ MonitorInv /\ OrderInv /\ OnceInv
    BY DEF IInv, Consistent
  <2>2. commits[t] \in 0..2 /\ commits[t] <= 1
    BY <2>1 DEF TypeOK, OnceInv
  <2>3. ASSUME status[t] = "done" PROVE commits[t] = 1
    <3>1. commits[t] > 0
      BY <2>1, <2>3 DEF OrderInv
    <3> QED
      BY SMTT(30), Z3T(30), <2>2, <3>1
  <2>4. ASSUME commits[t] = 1
        PROVE  status[t] \notin {"blocked", "runnable", "error", "unscheduled"} \/ t \in assigned
    <3>1. CASE t \in Entries
      BY <2>1, <3>1 DEF MonitorInv
    <3>2. CASE t \notin Entries
      BY <2>1, <2>4, <3>2 DEF OnceInv
    <3> QED
      BY <3>1, <3>2
  <2> QED
    BY <2>2, <2>3, <2>4
<1> QED
  BY Invariance, <1>1, PTL

\* The executors the monitor follows involve no node more often than
\* max_background_task_executors_per_node allows, although a task is counted before it is
\* known whether an executor can be started for it.
THEOREM NodeLimit == Spec => []NodeLimitHolds
<1>1. IInv => NodeLimitHolds
  <2> SUFFICES ASSUME IInv, NEW n \in Nodes
               PROVE  Cardinality({t \in Entries : n \in NodesInvolved(t)}) <= MaxBackgroundTaskExecutorsPerNode
    BY DEF NodeLimitHolds
  <2>1. plan \in Plans /\ TypeOK /\ NodeInv /\ Entries \subseteq Tasks
    BY DEF IInv, Consistent, Entries
  <2>2. PICK c \in Nat : c = Cardinality({t \in Entries : n \in NodesInvolved(t)})
    BY <2>1, NodeEntriesFinite
  <2>3. PICK m \in Nat : m = taskCount[n]
    BY <2>1 DEF TypeOK
  <2>4. c <= m /\ m <= MaxBackgroundTaskExecutorsPerNode
    BY <2>1, <2>2, <2>3 DEF NodeInv
  <2>5. c <= MaxBackgroundTaskExecutorsPerNode
    BY SMTT(30), Z3T(30), <2>4, JobsAssumption DEF JobsAssumption
  <2> QED
    BY <2>2, <2>5
<1> QED
  BY Invariance, <1>1, PTL
=============================================================================
