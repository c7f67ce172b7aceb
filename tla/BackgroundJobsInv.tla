------------------------- MODULE BackgroundJobsInv -------------------------
(***************************************************************************)
(* The inductive invariant of BackgroundJobs: what the catalog of tasks,   *)
(* the executors the monitor follows, the processes and the counts of the  *)
(* nodes say about one another.                                            *)
(***************************************************************************)
EXTENDS BackgroundJobs

Ready(t) == \A d \in DependsOn(t) : status[d] = "done"

\* The monitor follows executors from its first assignment on; only an open assignment
\* has tasks that are not marked as running yet.
MonitorInv ==
  /\ monitor \in {"off", "started", "reset"} => Entries = {}
  /\ monitor # "assign" => assigned = {}
  /\ assigned \subseteq Entries
  /\ \A t \in Entries :
       /\ process[executorOf[t]].task = t /\ process[executorOf[t]].state # "free"
       /\ IF t \in assigned THEN status[t] = "runnable"
                           ELSE status[t] \in {"running", "cancelling", "cancelled"}

\* A process works on a task whose dependencies are done; one that has ended is followed.
ProcessInv ==
  \A p \in Pids :
    /\ process[p].state # "free" => process[p].task \in Tasks
    /\ \A t \in Tasks : process[p].state # "free" /\ process[p].task = t => Ready(t)
    /\ process[p].state \in {"lost", "failed", "succeeded"} => Tracked(p)
    /\ process[p].state = "succeeded" => commits[process[p].task] > 0

\* A task gets past being blocked when its dependencies are done, and is unscheduled
\* behind a task that failed for good.
OrderInv ==
  \A t \in Tasks :
    /\ status[t] \notin {"blocked", "cancelled", "unscheduled"} \/ commits[t] > 0 => Ready(t)
    /\ status[t] = "done" => commits[t] > 0
    /\ status[t] = "unscheduled" => \E d \in DependsOn(t) : status[d] \in {"error", "unscheduled"}
    /\ retryCount[t] > RetryLimit => status[t] = "error"

\* A node is counted at least for the executors that involve it.
NodeInv ==
  \A n \in Nodes :
    /\ Cardinality({t \in Entries : n \in NodesInvolved(t)}) <= taskCount[n]
    /\ taskCount[n] <= MaxBackgroundTaskExecutorsPerNode

\* Unless the monitor crashed, every process is followed, and a task that committed has
\* a process that says so, is done, or was cancelled too late.
OnceInv ==
  ~crashed =>
    /\ \A t \in Tasks :
         /\ status[t] = "running" => t \in Entries
         /\ commits[t] <= 1
         /\ t \in Entries => (commits[t] = 1 <=> process[executorOf[t]].state = "succeeded")
         /\ t \notin Entries /\ commits[t] = 1 => status[t] \in {"done", "cancelled"}
    /\ \A p \in Pids : process[p].state # "free" => executorOf[process[p].task] = p

\* The job row shows the projection of the statuses of its tasks, from the first update on.
JobFollowsTasks ==
  job = JobState(status) \/ (job = "scheduled" /\ \A t \in Tasks : status[t] \in {"blocked", "runnable"})

\* What the pieces of state say about one another.
Consistent ==
  MonitorInv /\ ProcessInv /\ OrderInv /\ NodeInv /\ OnceInv /\ JobFollowsTasks

\* The inductive invariant: through assignments, retries, cancels, failed forks and restarts
\* of the monitor (CitusBackgroundTaskQueueMonitorMain) the catalog, the monitor's memory
\* and the executor processes stay consistent.
IInv == plan \in Plans /\ TypeOK /\ Consistent
=============================================================================
