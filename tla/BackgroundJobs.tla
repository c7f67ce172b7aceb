-------------------------- MODULE BackgroundJobs --------------------------
(***************************************************************************)
(* The background job of a rebalance (citus_rebalance_start): a list of    *)
(* shard moves becomes tasks with dependencies (shard_rebalancer.c); the   *)
(* maintenance daemon starts a queue monitor, which starts one executor    *)
(* process per runnable task, follows their response queues and updates    *)
(* pg_dist_background_task and pg_dist_background_job (background_jobs.c,  *)
(* metadata_utility.c).  Users cancel the job; the monitor may crash, be   *)
(* terminated or be cancelled.                                             *)
(***************************************************************************)
EXTENDS Naturals, Sequences, FiniteSets, FiniteSetsExt

CONSTANTS
  Plans,                             \* plans: [refTables : BOOLEAN, moves : a sequence of [group, source, target]]
  MaxBackgroundTaskExecutors,
  MaxBackgroundTaskExecutorsPerNode,
  MaxWorkerProcesses,                \* background workers PostgreSQL can run for executors
  RetryLimit,                        \* the 32 of CalculateBackoffDelay
  MaxFaults,                         \* bound on crashes, failed forks and signals of the monitor
  MaxCancels                         \* bound on calls of citus_job_cancel

ASSUME JobsAssumption ==
  /\ \A p \in Plans :
       /\ p.refTables \in BOOLEAN /\ p.moves \in Seq(Range(p.moves))
       /\ \A i \in DOMAIN p.moves : p.moves[i].source # p.moves[i].target
  /\ MaxBackgroundTaskExecutors \in Nat \ {0}
  /\ MaxBackgroundTaskExecutorsPerNode \in Nat \ {0}
  /\ {MaxWorkerProcesses, RetryLimit, MaxFaults, MaxCancels} \subseteq Nat

None == 0
RefTask == 0
Pids == 1..(MaxWorkerProcesses + MaxBackgroundTaskExecutors)
TaskIds == 0..Max({Len(p.moves) : p \in Plans})

VARIABLES
  plan,       \* the moves the job was created for
  status,     \* pg_dist_background_task.status
  pid,        \* pg_dist_background_task.pid
  retryCount, \* pg_dist_background_task.retry_count
  backoff,    \* tasks whose not_before is in the future
  job,        \* pg_dist_background_job.state
  monitor,    \* where the queue monitor is
  waitFor,    \* taskIdsToWait of ResetRunningBackgroundTasks
  held,       \* task locks the monitor holds until the end of that transaction
  executorOf, \* currentExecutors: the process of a task, or None
  assigned,   \* tasks the open transaction of AssignRunnableTasks set to running
  taskCount,  \* ParallelTasksPerNode
  got,        \* GotSigterm, GotSigint
  handled,    \* terminateExecutorsStarted, cancelExecutorsStarted
  process,    \* executor processes: [task, state]
  signalled,  \* processes with a signal that ends them pending
  commits,    \* how often the command of a task committed
  faults, cancels, crashed

table == <<plan, status, pid, retryCount, backoff, job>>
local == <<waitFor, held, executorOf, assigned, taskCount, got, handled>>
executors == <<process, signalled, commits>>
bounds == <<faults, cancels, crashed>>
vars == <<table, monitor, local, executors, bounds>>

Moves == plan.moves
ReplicateRefTables == plan.refTables
Tasks == (IF ReplicateRefTables THEN {RefTask} ELSE {}) \cup DOMAIN Moves
Nodes == {Moves[i].source : i \in DOMAIN Moves} \cup {Moves[i].target : i \in DOMAIN Moves}

-----------------------------------------------------------------------------
(* The dependencies of a move.                                             *)

(* The last earlier move of the colocation group. *)
ColocationDependency(i) ==
  LET earlier == {k \in 1..(i - 1) : Moves[k].group = Moves[i].group}
  IN  IF earlier = {} THEN {} ELSE {Max(earlier)}

NodeDependencies_Swapped(i) == {k \in 1..(i - 1) : Moves[k].target = Moves[i].source}

(* Every earlier move that frees space on the target. *)
NodeDependencies(i) == {k \in 1..(i - 1) : Moves[k].source = Moves[i].target}

DependsOn(t) ==
  LET moves == ColocationDependency(t) \cup NodeDependencies(t)
  IN  IF t # RefTask /\ moves = {} /\ ReplicateRefTables THEN {RefTask} ELSE moves

Dependants(t) == {u \in Tasks : t \in DependsOn(u)}

(* Dependants, their dependants and so on: what every set contains that    *)
(* has the dependants of t and those of its own members.                   *)
AllDependants(t) ==
  {x \in Tasks : \A S \in SUBSET Tasks :
     (\A u \in S \cup {t} : Dependants(u) \subseteq S) => x \in S}

NodesInvolved(t) == IF t = RefTask THEN {} ELSE {Moves[t].source, Moves[t].target}

-----------------------------------------------------------------------------

Free == [task |-> None, state |-> "free"]

TaskTerminal == {"cancelled", "done", "error", "unscheduled"}
JobTerminal == {"cancelled", "failed", "finished"}

ScheduleBackgroundTask(t) == IF DependsOn(t) = {} THEN "runnable" ELSE "blocked"

(* The tasks of a plan are scheduled in one transaction. *)
Init ==
  /\ plan \in Plans
  /\ status = [t \in Tasks |-> ScheduleBackgroundTask(t)]
  /\ pid = [t \in Tasks |-> None]
  /\ retryCount = [t \in Tasks |-> 0]
  /\ backoff = {}
  /\ job = "scheduled"
  /\ monitor = "off"
  /\ waitFor = {}
  /\ held = {}
  /\ executorOf = [t \in Tasks |-> None]
  /\ assigned = {}
  /\ taskCount = [n \in Nodes |-> 0]
  /\ got = {}
  /\ handled = {}
  /\ process = [p \in Pids |-> Free]
  /\ signalled = {}
  /\ commits = [t \in Tasks |-> 0]
  /\ faults = 0
  /\ cancels = 0
  /\ crashed = FALSE

(* UpdateBackgroundJob: the state of the job for statuses s. *)
JobState(s) ==
  LET some(S) == \E t \in Tasks : s[t] \in S
  IN  IF some({"cancelling"}) THEN "cancelling"
      ELSE IF some({"cancelled"}) THEN "cancelled"
      ELSE IF ~some({"blocked", "runnable", "running", "error", "unscheduled"}) THEN "finished"
      ELSE IF ~some({"error", "unscheduled"}) THEN "running"
      ELSE IF some({"blocked", "runnable", "running"}) THEN "failing" ELSE "failed"

Alive(p) == process[p].state \in {"starting", "executing"}
Executing(t) == \E p \in Pids : process[p] = [task |-> t, state |-> "executing"]
LockFree(t) == ~Executing(t) /\ t \notin held
Entries == {t \in Tasks : executorOf[t] # None}
Tracked(p) == \E t \in Entries : executorOf[t] = p

-----------------------------------------------------------------------------
(* Executor processes.                                                     *)

(* A process that ended is kept while the monitor has its queue. *)
Exit(p, state) ==
  /\ process' = [process EXCEPT ![p] = IF Tracked(p) THEN [@ EXCEPT !.state = state] ELSE Free]
  /\ signalled' = signalled \ {p}

AcquireTaskLock(p) ==
  /\ process[p].state = "starting"
  /\ IF LockFree(process[p].task)
       THEN /\ process' = [process EXCEPT ![p].state = "executing"]
            /\ UNCHANGED signalled
       ELSE Exit(p, "failed")
  /\ UNCHANGED <<table, monitor, local, commits, bounds>>

CommandCommits(p) ==
  /\ process[p].state = "executing"
  /\ Exit(p, "succeeded")
  /\ commits' = [commits EXCEPT ![process[p].task] = Min({@ + 1, 2})]
  /\ UNCHANGED <<table, monitor, local, bounds>>

CommandFails(p) ==
  /\ Alive(p)
  /\ Exit(p, "failed")
  /\ UNCHANGED <<table, monitor, local, commits, bounds>>

-----------------------------------------------------------------------------
(* Starting the queue monitor.                                             *)

HasRunnableBackgroundTask ==
  \E t \in Tasks \ backoff : status[t] \in {"runnable", "running"}

(* CitusMaintenanceDaemonMain: the lock of the monitor is free. *)
StartCitusBackgroundTaskQueueMonitor ==
  /\ monitor = "off"
  /\ HasRunnableBackgroundTask
  /\ monitor' = "started"
  /\ UNCHANGED <<table, local, executors, bounds>>

(* The monitor signals the executors of an earlier one that still hold the *)
(* lock of their task.                                                     *)
ResetRunningBackgroundTasks ==
  LET running == {t \in Tasks : status[t] = "running" /\ pid[t] # None}
      locked == {t \in running : ~LockFree(t)}
  IN  /\ monitor = "started"
      /\ monitor' = "reset"
      /\ waitFor' = locked
      /\ held' = running \ locked
      /\ signalled' = signalled \cup {p \in {pid[t] : t \in locked} : Alive(p)}
      /\ UNCHANGED <<table, executorOf, assigned, taskCount, got, handled, process, commits, bounds>>

WaitForTaskLock(t) ==
  /\ monitor = "reset"
  /\ t \in waitFor
  /\ \A u \in waitFor : t <= u
  /\ LockFree(t)
  /\ waitFor' = waitFor \ {t}
  /\ held' = held \cup {t}
  /\ UNCHANGED <<table, monitor, executorOf, assigned, taskCount, got, handled, executors, bounds>>

ResetCommits ==
  /\ monitor = "reset"
  /\ waitFor = {}
  /\ monitor' = "loop"
  /\ held' = {}
  /\ status' = [t \in Tasks |-> IF status[t] = "running" THEN "runnable" ELSE status[t]]
  /\ pid' = [t \in Tasks |-> IF status[t] = "running" THEN None ELSE pid[t]]
  /\ UNCHANGED <<plan, retryCount, backoff, job, waitFor, executorOf, assigned, taskCount, got, handled,
                 executors, bounds>>

-----------------------------------------------------------------------------
(* Cancelling the job.                                                     *)

(* CancelTasksForJob: the tasks whose executor is waited for, and the new  *)
(* statuses.                                                               *)
RunningWithPid == {t \in Tasks : status[t] = "running" /\ pid[t] # None}

CancelledStatus_Finished ==
  [t \in Tasks |-> IF t \in RunningWithPid THEN "cancelling" ELSE "cancelled"]

CancelledStatus ==
  [t \in Tasks |-> IF status[t] \in TaskTerminal THEN status[t]
                   ELSE IF t \in RunningWithPid THEN "cancelling" ELSE "cancelled"]

Signal_None(ps) == UNCHANGED signalled

Signal(ps) == signalled' = signalled \cup {p \in ps : Alive(p)}
CancelTasksForJob == status' = CancelledStatus /\ job' = JobState(CancelledStatus)

(* CancelTasksForJob takes an exclusive lock on the table of tasks, which  *)
(* the reset and the assignment hold until they commit.                    *)
citus_job_cancel ==
  /\ cancels < MaxCancels
  /\ monitor \notin {"reset", "assign"}
  /\ CancelTasksForJob
  /\ Signal({pid[t] : t \in RunningWithPid})
  /\ cancels' = cancels + 1
  /\ UNCHANGED <<plan, pid, retryCount, backoff, monitor, local, process, commits, faults, crashed>>

-----------------------------------------------------------------------------
(* The loop of the monitor.                                                *)

(* SIGTERM: terminate the executors, SIGINT: cancel their jobs; once.      *)
HandleSignals ==
  LET new == got \ handled
      cancel == "sigint" \in new /\ Entries # {}
  IN  /\ monitor = "loop"
      /\ monitor' = "check"
      /\ handled' = got
      /\ Signal((IF "sigterm" \in new THEN {executorOf[t] : t \in Entries} ELSE {})
                  \cup (IF cancel THEN {pid[t] : t \in RunningWithPid} ELSE {}))
      /\ IF cancel THEN CancelTasksForJob ELSE UNCHANGED <<status, job>>
      /\ UNCHANGED <<plan, pid, retryCount, backoff, waitFor, held, executorOf, assigned, taskCount, got,
                     process, commits, bounds>>

(* No task is assigned once the monitor has a signal. *)
SkipAssign ==
  /\ monitor = "check"
  /\ got # {}
  /\ monitor' = "watch"
  /\ UNCHANGED <<table, local, executors, bounds>>

BeginAssign ==
  /\ monitor = "check"
  /\ got = {}
  /\ monitor' = "assign"
  /\ UNCHANGED <<table, local, executors, bounds>>

HasUnmetDependencies(t) == \E d \in DependsOn(t) : status[d] # "done"

BackgroundTaskReadyToRun(t) == t \notin backoff /\ ~HasUnmetDependencies(t)

NodeLimitReached_OffByOne(t) ==
  \E n \in NodesInvolved(t) : taskCount[n] > MaxBackgroundTaskExecutorsPerNode

NodeLimitReached(t) ==
  \E n \in NodesInvolved(t) : taskCount[n] >= MaxBackgroundTaskExecutorsPerNode

(* The tasks GetRunnableBackgroundTask may return: it takes the first, and *)
(* counts it for its nodes.                                                *)
Runnable ==
  {t \in Tasks \ assigned :
     status[t] = "runnable" /\ BackgroundTaskReadyToRun(t) /\ ~NodeLimitReached(t)}

IncrementParallelTaskCount_Forgotten(t) == UNCHANGED taskCount

IncrementParallelTaskCount(t) ==
  taskCount' = [n \in Nodes |-> taskCount[n] + (IF n \in NodesInvolved(t) THEN 1 ELSE 0)]

FreePids == {p \in Pids : process[p].state = "free"}

NoExecutor ==
  \/ Cardinality(Entries) >= MaxBackgroundTaskExecutors
  \/ Cardinality({p \in Pids : Alive(p)}) >= MaxWorkerProcesses

AssignCommits_NoJobUpdate ==
  /\ status' = [t \in Tasks |-> IF t \in assigned THEN "running" ELSE status[t]]
  /\ assigned' = {}
  /\ monitor' = "watch"
  /\ UNCHANGED <<plan, job, pid, retryCount, backoff, waitFor, held, executorOf, got, handled,
                 executors, bounds>>

AssignCommits ==
  /\ status' = [t \in Tasks |-> IF t \in assigned THEN "running" ELSE status[t]]
  /\ job' = IF assigned = {} THEN job ELSE JobState(status')
  /\ assigned' = {}
  /\ monitor' = "watch"
  /\ UNCHANGED <<plan, pid, retryCount, backoff, waitFor, held, executorOf, got, handled, executors, bounds>>

(* The process starts while the transaction that marks the task running    *)
(* is still open.  state is "lost" when the fork failed: the handle is not *)
(* NULL and WaitForBackgroundWorkerStartup's result is not looked at.      *)
AssignRunnableTaskToNewExecutor(state) ==
  LET t == Min(Runnable)
      p == Min(FreePids)
  IN  /\ monitor = "assign"
      /\ Runnable # {}
      /\ ~NoExecutor
      /\ IncrementParallelTaskCount(t)
      /\ executorOf' = [executorOf EXCEPT ![t] = p]
      /\ process' = [process EXCEPT ![p] = [task |-> t, state |-> state]]
      /\ assigned' = assigned \cup {t}
      /\ UNCHANGED <<table, monitor, waitFor, held, got, handled, signalled, commits>>

StartExecutor == AssignRunnableTaskToNewExecutor("starting") /\ UNCHANGED bounds

ForkFails ==
  /\ faults < MaxFaults
  /\ AssignRunnableTaskToNewExecutor("lost")
  /\ faults' = faults + 1
  /\ UNCHANGED <<cancels, crashed>>

(* A limit is reached after the task was counted for its nodes. *)
AssignFails ==
  /\ monitor = "assign"
  /\ Runnable # {}
  /\ NoExecutor
  /\ IncrementParallelTaskCount(Min(Runnable))
  /\ AssignCommits

NothingRunnable ==
  /\ monitor = "assign"
  /\ Runnable = {}
  /\ AssignCommits
  /\ UNCHANGED taskCount

-----------------------------------------------------------------------------
(* Watching the executors: one transaction over all entries, the table of  *)
(* tasks locked exclusively from the first to the commit.                  *)

(* TaskConcurrentCancelCheck: only a task that is being cancelled is given *)
(* up, any other counts as running again.                                  *)
CancelledEntries == {t \in Entries : status[t] = "cancelling"}

(* ConsumeExecutorQueue: the entries whose queue ended with or without an  *)
(* error.                                                                  *)
ConsumeExecutorQueue(state) ==
  {t \in Entries \ CancelledEntries : process[executorOf[t]].state = state}

CalculateBackoffDelayEnds(t) == retryCount[t] + 1 > RetryLimit

TaskHadError(t) == IF CalculateBackoffDelayEnds(t) THEN "error" ELSE "runnable"

(* Tasks that wait for none but finished tasks, one of them in done. *)
UnblockDependingBackgroundTasks(done, s) ==
  {t \in Tasks : /\ DependsOn(t) \cap done # {}
                 /\ \A d \in DependsOn(t) : s[d] = "done"
                 /\ s[t] # "cancelled"}

UpdateDependingTasks_OnlyDone(done, gaveUp, s) ==
  [t \in Tasks |-> IF t \in UnblockDependingBackgroundTasks(done, s) THEN "runnable" ELSE s[t]]

(* After statuses s were set. *)
UpdateDependingTasks(done, gaveUp, s) ==
  [t \in Tasks |-> IF \E u \in gaveUp : t \in AllDependants(u) THEN "unscheduled"
                   ELSE IF t \in UnblockDependingBackgroundTasks(done, s) THEN "runnable" ELSE s[t]]

DecrementParallelTaskCount(ended) ==
  taskCount' = [n \in Nodes |-> taskCount[n] - Cardinality({t \in ended : n \in NodesInvolved(t)})]

(* It waits for the process to end. *)
TaskEnded(ended) ==
  /\ \A t \in ended : ~Alive(executorOf[t])
  /\ executorOf' = [t \in Tasks |-> IF t \in ended THEN None ELSE executorOf[t]]
  /\ process' = [p \in Pids |-> IF p \in {executorOf[t] : t \in ended} THEN Free ELSE process[p]]
  /\ DecrementParallelTaskCount(ended)

WatchExecutors ==
  LET cancelled == CancelledEntries
      failed == ConsumeExecutorQueue("failed")
      done == ConsumeExecutorQueue("succeeded")
      gaveUp == {t \in failed : TaskHadError(t) = "error"}
      ended == cancelled \cup failed \cup done
      s == [t \in Tasks |-> IF t \in cancelled THEN "cancelled"
                            ELSE IF t \in done THEN "done"
                            ELSE IF t \in failed THEN TaskHadError(t)
                            ELSE IF t \in Entries THEN "running" ELSE status[t]]
  IN  /\ monitor = "watch"
      /\ Entries # {}
      /\ monitor' = "loop"
      /\ status' = UpdateDependingTasks(done, gaveUp, s)
      /\ pid' = [t \in Tasks |-> IF t \in ended THEN None
                                 ELSE IF t \in Entries THEN executorOf[t] ELSE pid[t]]
      /\ retryCount' = [t \in Tasks |-> retryCount[t] + (IF t \in failed THEN 1 ELSE 0)]
      /\ backoff' = (backoff \cup failed) \ gaveUp
      /\ job' = JobState(status')
      /\ TaskEnded(ended)
      /\ UNCHANGED <<plan, waitFor, held, assigned, got, handled, signalled, commits, bounds>>

MonitorGone ==
  /\ monitor' = "off"
  /\ waitFor' = {}
  /\ held' = {}
  /\ executorOf' = [t \in Tasks |-> None]
  /\ assigned' = {}
  /\ taskCount' = [n \in Nodes |-> 0]
  /\ got' = {}
  /\ handled' = {}
  /\ process' = [p \in Pids |-> IF Alive(p) THEN process[p] ELSE Free]

MonitorExits_AtOnce ==
  /\ monitor = "watch"
  /\ Entries = {} \/ "sigterm" \in got
  /\ MonitorGone
  /\ UNCHANGED <<table, signalled, commits, bounds>>

(* proc_exit: no task runs and none could be started. *)
MonitorExits ==
  /\ monitor = "watch"
  /\ Entries = {}
  /\ MonitorGone
  /\ UNCHANGED <<table, signalled, commits, bounds>>

-----------------------------------------------------------------------------
(* The environment.                                                        *)

(* The monitor fails with an error; its open transaction is lost, its      *)
(* executors live on.                                                      *)
MonitorCrash ==
  /\ monitor # "off"
  /\ faults < MaxFaults
  /\ faults' = faults + 1
  /\ crashed' = TRUE
  /\ MonitorGone
  /\ UNCHANGED <<table, signalled, commits, cancels>>

MonitorSignalled(sig) ==
  /\ monitor # "off"
  /\ faults < MaxFaults
  /\ sig \notin got
  /\ faults' = faults + 1
  /\ got' = got \cup {sig}
  /\ UNCHANGED <<table, monitor, waitFor, held, executorOf, assigned, taskCount, handled, executors,
                 cancels, crashed>>

(* not_before passes. *)
BackoffEnds(t) ==
  /\ t \in backoff
  /\ backoff' = backoff \ {t}
  /\ UNCHANGED <<plan, status, pid, retryCount, job, monitor, local, executors, bounds>>

MonitorStep ==
  \/ ResetRunningBackgroundTasks
  \/ \E t \in Tasks : WaitForTaskLock(t)
  \/ ResetCommits
  \/ HandleSignals
  \/ SkipAssign
  \/ BeginAssign
  \/ StartExecutor
  \/ AssignFails
  \/ NothingRunnable
  \/ WatchExecutors
  \/ MonitorExits

Next ==
  \/ StartCitusBackgroundTaskQueueMonitor
  \/ MonitorStep
  \/ ForkFails
  \/ MonitorCrash
  \/ \E sig \in {"sigterm", "sigint"} : MonitorSignalled(sig)
  \/ citus_job_cancel
  \/ \E p \in Pids : AcquireTaskLock(p) \/ CommandCommits(p) \/ CommandFails(p)
  \/ \E t \in Tasks : BackoffEnds(t)

Spec == Init /\ [][Next]_vars

(* The daemon polls, the monitor and its executors run, time passes; a     *)
(* command ends by itself or when it is signalled.                         *)
FairSpec ==
  /\ Spec
  /\ WF_vars(StartCitusBackgroundTaskQueueMonitor)
  /\ WF_vars(MonitorStep)
  /\ \A t \in TaskIds : WF_vars(BackoffEnds(t))
  /\ \A p \in Pids :
       /\ WF_vars(AcquireTaskLock(p))
       /\ WF_vars(p \in signalled /\ CommandFails(p))

-----------------------------------------------------------------------------
(* Properties.                                                             *)

TaskStatuses == TaskTerminal \cup {"blocked", "runnable", "running", "cancelling"}

(* Every variable keeps its type; no count of a node goes below zero. *)
TypeOK ==
  /\ status \in [Tasks -> TaskStatuses]
  /\ pid \in [Tasks -> Pids \cup {None}]
  /\ retryCount \in [Tasks -> 0..(RetryLimit + 1)]
  /\ backoff \subseteq Tasks
  /\ job \in JobTerminal \cup {"scheduled", "running", "failing", "cancelling"}
  /\ monitor \in {"off", "started", "reset", "loop", "check", "assign", "watch"}
  /\ waitFor \subseteq Tasks
  /\ held \subseteq Tasks
  /\ executorOf \in [Tasks -> Pids \cup {None}]
  /\ assigned \subseteq Tasks
  /\ taskCount \in [Nodes -> Nat]
  /\ handled \subseteq got /\ got \subseteq {"sigterm", "sigint"}
  /\ process \in [Pids -> [task : Tasks \cup {None},
                           state : {"free", "lost", "starting", "executing", "failed", "succeeded"}]]
  /\ signalled \subseteq Pids
  /\ commits \in [Tasks -> 0..2]

(* While a move runs, the reference tables are copied, and every earlier   *)
(* move of its colocation group and every earlier move off its target node *)
(* committed.                                                              *)
MovesRunInOrder ==
  \A i \in DOMAIN Moves : Executing(i) =>
    /\ ReplicateRefTables => commits[RefTask] > 0
    /\ \A k \in 1..(i - 1) :
         Moves[k].group = Moves[i].group \/ Moves[k].source = Moves[i].target => commits[k] > 0

(* Unless the monitor crashed, no command commits twice, and a task that   *)
(* committed is not left in a state from which it runs again or in which   *)
(* it counts as failed.                                                    *)
CommitsOnce ==
  ~crashed => \A t \in Tasks :
    /\ commits[t] <= 1
    /\ status[t] = "done" => commits[t] = 1
    /\ commits[t] = 1 => status[t] \notin {"blocked", "runnable", "error", "unscheduled"} \/ t \in assigned

(* The tasks the monitor runs involve no node more often than              *)
(* max_background_task_executors_per_node allows.                          *)
NodeLimitHolds ==
  \A n \in Nodes :
    Cardinality({t \in Entries : n \in NodesInvolved(t)}) <= MaxBackgroundTaskExecutorsPerNode

(* "For a Job to be in it's terminal state, all tasks from that job should *)
(* also be in their terminal state" (metadata_utility.c:2729).  A cancel   *)
(* that comes before the monitor has stored the pid of a running task      *)
(* breaks it: the task is cancelled, nobody is signalled, and the next     *)
(* TaskConcurrentCancelCheck sets it back to running.                      *)
TerminalJobHasTerminalTasks ==
  job \in JobTerminal => \A t \in Tasks : status[t] \in TaskTerminal

(* A task that is done, failed for good or is unscheduled stays so: the     *)
(* Assert of UnblockDependingBackgroundTasks, and what a cancel, a retry   *)
(* or a restart of the monitor leaves alone.                               *)
FinishedTasksStay ==
  [][\A t \in Tasks : status[t] \in {"done", "error", "unscheduled"} => status'[t] = status[t]]_vars

(* No task stays in the state of being cancelled, unless the monitor       *)
(* crashes.                                                                *)
CancellingEnds == []<>(crashed \/ \A t \in Tasks : status[t] # "cancelling")

(* If every command ends, the job settles: no task stays blocked, runnable *)
(* or running, crashes of the monitor included, unless an executor could   *)
(* not be forked.                                                          *)
JobSettles ==
  (\A p \in Pids : WF_vars(CommandCommits(p) \/ CommandFails(p))) =>
     <>[](\/ \A t \in Tasks : status[t] \in TaskTerminal \cup {"cancelling"}
          \/ \E p \in Pids : process[p].state = "lost")
=============================================================================
