# Verification of Citus' distributed protocols

TLA+ models of the concurrent and distributed parts of the Citus extension, the
TLC configurations that check them on small instances, and TLAPS proofs of the
central safety results for every instance. Paths are relative to
`src/src/backend/distributed/` unless they begin with `src/`.

## The system and its parts

A Citus cluster is a set of PostgreSQL nodes. A client's transaction runs in a
backend of one node, the *initiator*; the planner turns its statements into
tasks for shards, and the executor sends these over connections to other
nodes. Everything that must hold across nodes is built from a few protocols,
and these are what the modules model:

| Part | Code | Modules |
| --- | --- | --- |
| coordinated transactions, two-phase commit, recovery | `transaction/` | `AtomicCommit`, `TwoPhaseCommit`, `TwoPhaseCommitRefinement`, `TwoPhaseCommitInv`, `MCTwoPhaseCommit` and the proof modules |
| causal clock | `clock/causal_clock.c` | `CausalClock`, `MCCausalClock`, `CausalClockProofs` |
| distributed deadlock detection | `transaction/distributed_deadlock_detection.c`, `transaction/lock_graph.c` | `DeadlockSearch`, `DeadlockSearchProofs`, `DeadlockDetection`, `MCDeadlockSearch`, `MCDeadlockDetection` |
| background jobs of the rebalancer | `utils/background_jobs.c`, `metadata/metadata_utility.c`, `operations/shard_rebalancer.c` | `BackgroundJobs`, `BackgroundJobsInv`, `MCBackgroundJobs`, `BackgroundJobsProofs` |
| shard moves and the cleanup after them | `operations/shard_transfer.c`, `operations/shard_cleaner.c`, `replication/multi_logical_replication.c` | `ShardMove`, `ShardMoveInv`, `MCShardMove`, `ShardMoveSteps`, `ShardMoveOthers`, `ShardMoveProofs` |

`PROJECT.json` names, for every definition that models code, the file and the
lines it stands for.

## Two-phase commit

**`TwoPhaseCommit`** has one transition system for the backends of one
initiating node, their connections, the worker sessions at the other end, and
the session that runs recovery.

* A *gid* is one connection of one transaction and the prepared transaction it
  may leave behind. `rstate`, `failed`, `critical` are the fields of its
  `RemoteTransaction`; `access` the kinds of placement access recorded for the
  connection; `chan` what is in transit on it; `wtx` the state of the worker's
  transaction; `rows` the tuples of `pg_dist_transaction`.
* `phase` says how far a backend is in `CoordinatedTransactionCallback`. The
  pre-commit, commit and abort callbacks loop over the connections, first
  sending and then waiting for the responses; each send and each receive is an
  action (`StartRemoteTransactionPrepare`, `FinishRemoteTransactionPrepare` and
  so on), so that failures and recovery interleave with them.
* Recovery is `RecoverTwoPhaseCommits`: the list of prepared transactions of a
  worker (`P`), the active transaction numbers read backend by backend (`A`),
  the snapshot of the records (`T`), the second list (`Q`), the loop over the
  records and the roll back of what is left, each read and each resolution an
  action. The tuples it deletes are kept aside in `deletes` until its own
  transaction commits.
* `Execute` sends one task or command. The executor asks whether a modification
  takes the transaction to a second connection
  (`Activate2PCIfModifyingTransactionExpandsToNewNode`) in two places: when a
  task is assigned to a connection because of an earlier access to its
  placement, and before a `BEGIN`. A task of the pool that is given to a
  connection in `REMOTE_TRANS_STARTED` passes neither. `Statements` therefore
  has two kinds of modification: `"write"`, of a placement the connection has
  accessed or over a connection without a transaction, and `"write_other"`, of a
  placement not accessed before. Beside them there are `"read"` and `"node"`, a
  command over a node connection, which always asks for 2PC.
* Failures: a connection breaks (the command may still arrive, the response is
  lost), a worker or the initiating node restarts (transaction numbers start
  again from 1), a recovery query fails. `MaxFailures` bounds them.
* A management transaction (`OuterXacts`) runs in the main database for a
  transaction of another database. Its prepared transactions are resolved by
  recovery only, which asks whether the outer transaction is in progress and
  then whether it committed.

**`AtomicCommit`** is what a transaction promises without any mechanism: the
sites it wrote to reach its decision. `TwoPhaseCommitRefinement` maps
`TwoPhaseCommit` to it; run `tpc_nodes` checks it on an instance and
`TwoPhaseCommitProofs` proves it.

The initiator's own writes are not a site of their own: they commit with the
local transaction, which is the decision. The instances have one connection
per transaction and worker; the proofs do not need that.

| Run | Instance | What it shows |
| --- | --- | --- |
| `tpc_nodes` | 1 transaction, 2 workers, `"read"` and `"write"`, 1 failure | the workers agree, and a decided transaction is not lost, with and without 2PC, also when a transaction only turns to 2PC at its second connection; every step is a step of `AtomicCommit` or a stutter; the inductive invariant `IInv` of the proofs |
| `tpc_races` | 2 transactions, 1 worker, 1 failure | recovery racing with preparing and committing backends commits nothing undecided, spares what is in progress, and never drops a record that is still needed |
| `tpc_liveness` | 1 plain or management transaction, 1 worker, 2 failures | nothing that an outer transaction has decided is lost, prepared transactions are resolved, records deleted, callbacks left; the inductive invariant `IInv` of the proofs |
| `tpc_read_then_write` (violation) | as `tpc_nodes`, with `"write_other"` | a write on one worker, a SELECT on another and a write over the connection of the SELECT commit without 2PC, and can diverge |

Two transactions are what it takes for a number to be shared or reused, two
workers for a disagreement, and two failures for one to happen while another is
being repaired; the runs with two transactions or two workers keep to one
failure, which already leaves a prepared transaction behind for recovery and a
reused number.

What the statements of an instance are decides what holds. With `"write_other"`
a transaction may write over two connections without 2PC: `Agreement` and the
refinement fail, as `tpc_read_then_write` shows, and both are stated for
`EveryWriteChecked`, that there are none. `DecisionIsDurable` and `IInv` hold
with all of them: the 1PC `COMMIT` of every connection precedes the local commit,
and `ErrorIfPostCommitFailedShardPlacements` raises an error, so that nothing is
decided, when it failed on a connection that modified a placement. With `"node"`
and `"read"` together `WritingConnectionsAgree` fails in another way: a
connection that ran a command over the node and then a SELECT of a placement no
longer counts as modified and is not prepared.

*Fairness.* A callback once entered runs to its end, since nothing in it waits
for anything but a response or the end of a connection; a worker executes a
command or it is lost with its connection; the outer transaction ends; and the
maintenance daemon runs recovery every `Recover2PCInterval`. Nothing is assumed
of clients.

### Proofs

`TwoPhaseCommitProofs` proves, for all sets of transactions, connections,
workers and any bound on failures, `Spec => []IInv` and from it `Agreement`,
`CommitOnlyAfterDecision`, `DecisionIsDurable`, `RecordUntilResolved` and the
action property `RecoverySparesActive`. `ConstantsAssumption`, that the
constants have their types, is all that is assumed, except that `Agreement` has
the hypothesis `EveryWriteChecked`, without which it is false.

None of these is inductive. Agreement, for instance, rests on what a command in
transit presupposes (a `COMMIT PREPARED` is only sent after the decision), on
what the coordinator's view says about the worker (`PREPARED` means prepared),
and on what recovery's four lists still guarantee when they are used: a
prepared transaction seen before the scan of the backends, and not among the
numbers found by it, belongs to a finished transaction. `IInv`
(`TwoPhaseCommitInv`) is the conjunction of these: `XactInv` and `ConnInv` (the
phases and the connections), `OneWriter` (without 2PC a transaction writes over
one connection, if every modification is checked), `ChanInv` (the network), `RemoteInv` (the coordinator's view),
`OutcomeInv` (outcomes), `RecoveryControl` and `RecoveryInv` (recovery). The
proof modules are:

* `TwoPhaseCommitSteps`: `TypeOK` and `XactInv`, what the steps of each actor
  change, and the lemmas for `ConnInv`, `OneWriter`, `ChanInv` and `RemoteInv`;
* `TwoPhaseCommitProofs`: `OutcomeInv`, `RecoveryInv`, the rest of the step, the
  theorems and the refinement.

The refinement, `Spec => ImplementsAtomicCommit`, is proved under two hypotheses:
`EveryWriteChecked`, and `NodeCommandsApart`, that commands over node connections
are not mixed with reads. Without the first two sites of a transaction may
disagree; without the second a connection that wrote may stop counting as
modified, and its site would disappear. The invariant and the other theorems do
not need `NodeCommandsApart`; they speak of the connections that count. The
refinement takes two facts besides `IInv`: `StatementInv`, which ties the
accesses of a connection to the commands that ran over it (so a site, once
enlisted, stays), and `EarlyDecision`, that a transaction that has not reached
its pre-commit callback is decided only if something aborted (so that switching
to 2PC in the middle changes no decision). The local commit is the step that
decides for a 2PC transaction, the outer commit for a management transaction,
the only worker without 2PC; every other step aborts, moves one site, or
stutters.

## Causal clock

**`CausalClock`** models `citus_get_node_clock` and
`citus_get_transaction_clock` on several nodes: the clock in shared memory, its
lock, the sequence that persists the logical part, and the sessions. A call
reads the wall clock, waits for the lock, initialises the clock after a
restart, increments and saves it, releases the lock and only then copies the
result, field by field. A transaction clock polls all nodes of the transaction,
takes the largest value and adjusts every node to it.

The wall clock is arbitrary (it may go back). A commit flushes the WAL, so that
the sequence survives a crash; what an uncommitted transaction has logged may
or may not survive. The nodes of a transaction commit or prepare their parts one
after the other (`StartCommit`, `CommitPart`), and may crash in between.
`AdjustLocalClock` never meets a clock that is not initialised, because the
poll precedes it on the same connection and a restart closes the connection.

| Run | Instance | What it shows |
| --- | --- | --- |
| `clock_transaction` | 2 nodes, 3 sessions, 1 crash | no node that committed its part falls below the transaction's clock, and none falls below it on the way there unless it crashes; every value saved is larger than every value kept, across restarts and clock jumps |

`MaxCounter` stands for `MAX_COUNTER` (the counter carries into the logical
clock within the run), `LogVals` for the 32 values PostgreSQL logs ahead for a
sequence, `MaxLogical` bounds the wall clock and stops the run, for which
reason deadlock is not checked here.

### Proofs

`CausalClockProofs` proves `Spec => []IInv`, and from it `TypeOK`,
`ClockMovesForward` and `TransactionClockIsKept`, for any nodes and sessions, any readings of the wall
clock and any number of restarts. `ConstantsAssumption` is all it assumes: a
session's remotes are on other nodes, have no remotes themselves and work for
no other session, as the connections of a backend do.

`TransactionClockIsKept` says nothing of a node that crashes after it adjusted its
clock and before its part is committed or prepared: it may lose the adjustment,
although the transaction commits on the other nodes.

`TransactionClockIsKept` compares a committed stamp with the shared clock, or
with the sequence after a restart; neither says why the next step keeps it.
`ClockInv` is the chain in between: stamp, last value kept by a commit, last
value persisted (`floor`), shared clock or sequence, and the WAL beside it. That
a step extends the chain depends on what the session that takes it knows
(`Persisting`): with the lock it is about to persist more than `floor`, and
after `setval` the unlocked clock is `floor` itself, which is why an adjustment
that finds the clock ahead need not persist anything. `Persisting` needs
`LockInv` (one session of a node between tick and `setval`), `CheckedInv` (only an
initialised clock is ticked or adjusted, so that `InitClockAtFirstUse` resets no
clock in use) and `AdjustInv` (all nodes adjust to the value the transaction
returns).

## Distributed deadlock detection

**`DeadlockSearch`** is the depth-first search of `CheckForDistributedDeadlocks`
with its queue, stack and visited marks, one loop iteration per step, on an
arbitrary graph. Run `deadlock_search` takes all graphs over three transactions
and all orders of their lists, and compares the result with a definition of
being on a cycle that knows nothing of the search (`OnCycle`: a transaction is
in every set that contains its successors and is closed under successors).

**`DeadlockDetection`** is the protocol around it. Transactions take exclusive
locks on several nodes and keep them until they end; the daemon of every node
reads the wait graph of its own node and of the others, each at a different
moment (a node that does not answer is skipped), takes any cycle through a
transaction of its own, associates the transactions of the cycle with local
backends and cancels the youngest. A process outside a distributed transaction
is vertex 0 of its node, as in `AddWaitEdge`. A transaction may end while it
waits, by an error. A backend may run several transactions one after the other
(`Backend`), and a cancellation meets the one that is in progress when the signal
is sent, as `CancelTransactionDueToDeadlock` only looks whether there is one.

| Run | Instance | What it shows |
| --- | --- | --- |
| `deadlock_search` | all graphs over 3 transactions | every cycle through a starting node is found, the path is a cycle, the stack suffices, the search ends |
| `deadlock_detection` | 2 transactions of 2 nodes, a local backend, 2 locks, 2 daemons, a failed query | edges collected at different times still are a deadlock when it is found, unless a participant has ended; every deadlock is resolved |
| `deadlock_numbers` (violation) | transactions of two nodes with one number | a backend that is not in the cycle is cancelled |

`DetectedDeadlockIsReal` is the reason why the collection needs no global
snapshot: a waiting transaction that does not fail goes on only after the one it
waits for, so the edges of a cycle cannot disappear one by one. Its two
hypotheses are needed. Once a participant has ended, by a cancellation or an
error, the remaining edges may be stale. And where several backends of a node
outside distributed transactions share vertex 0 (`StandsForSeveral`), one of them
may block a transaction that another waits for, a cycle without a deadlock.
`MCDeadlockDetection` also defines instances with two such backends (`TwoLocals`)
and with two transactions of one backend (`OneAfterTheOther`), on which TLC
confirms the invariants; liveness is checked on the smaller one only.
Fairness: each daemon keeps running (`citus.distributed_deadlock_detection_factor`)
and a waiting backend reacts to its cancellation; nobody is assumed to finish.
Lock modes are reduced to one exclusive mode; waits for "safe operations" are
left out of the graph by the code and out of the model. Deadlock of the model
is not checked in these runs: all transactions may have ended.

### Proofs

`DeadlockSearchProofs` proves `SearchIsComplete`, `PathIsCycle` and `StackFits`
for every finite set of transactions, every wait graph, every order of its lists
and every set of starting nodes; `SearchAssumption` says no more than that.
The inductive invariant `IInv` has three parts, all about a search under way:

* `StackInv`: the stack is a path from the start through distinct visited nodes;
* `QueueInv`: a node in the queue is a successor of the stack's node one level
  up, and what comes later in the queue is no deeper. This is why the slots
  below a node are still the way to it when its turn comes, although the slots
  were written by different iterations;
* `VisitedInv`: a successor of the start or of a visited node has been visited
  or is in the queue. When the queue is empty the visited nodes are closed under
  successors and do not contain the start, so the start is on no cycle.

`StackFits` follows by an injection from the stack to the edges: each node but
the last has the edge to the next one, and no node is on the stack twice.

## Background jobs

**`BackgroundJobs`** is the queue of `citus_rebalance_start`: one job, whose
tasks are the moves of a plan. `DependsOn` is computed from the plan as
`GenerateTaskMoveDependencyList` does: a move waits for the last move of its
colocation group and for the moves from its target node. `status`, `job` and
`retryCount` are the catalog; `executorOf`, `taskCount` the memory of the
monitor; `process` the executors. Each iteration of
`CitusBackgroundTaskQueueMonitorMain` (signals, assignment, a look at the
executors) is split where it commits, so that `citus_job_cancel`, the executors
and a restart can come in between. `commits` counts how often the command of a
task has taken effect.

| Run | Instance | What it shows |
| --- | --- | --- |
| `jobs_rebalance` | 2 plans of moves, 2 executors, 1 per node, 1 retry, 1 cancel, 1 crash or signal | moves keep their order, no command is committed twice unless the monitor crashes, nodes are not overloaded, finished tasks stay as they are, cancelled tasks end and the job settles; the inductive invariant `IInv` of the proofs |
| `jobs_cancel` (violation) | the same plans, 1 cancel, no fault | a task that is cancelled between its assignment and the monitor's first look at it is set back to running, in a job that is cancelled |

`MovesRunInOrder` is about what executes, not about the catalog: an executor
outlives the monitor that started it, and the next monitor starts from the
catalog alone. Fairness: the daemon starts a monitor when there is something
to run, the monitor goes on, an executor takes its task's lock and reacts to a
signal, and a retry becomes due; nothing is assumed of how long a command takes.
`CancellingEnds` leaves out a crash of the monitor, after which nothing but a
second cancel ends a cancelling task.

### Proofs

`BackgroundJobsProofs` proves `Spec => []IInv`, and from it `TypeOK`,
`MovesRunInOrder`, `CommitsOnce`, `NodeLimitHolds` and the
action property `FinishedTasksStay`, for every list of moves, any limits on
executors, workers and retries, and any number of cancels, crashes, signals and
failed forks. `JobsAssumption` gives the constants their types and says that a
move's source is not its target, as the rebalancer's moves are; the limits on
executors are at least 1, as their GUCs are.

`IInv` is in `BackgroundJobsInv`; run `jobs_rebalance` checks it too. Its parts:

* `MonitorInv`: what the monitor follows. Every entry has a process that works on
  its task, and its task is running, cancelling or cancelled in the catalog,
  except for the tasks of an assignment that has not committed, which are still
  runnable. This is why a cancel must wait for the assignment, and does, through
  the lock of the table.
* `ProcessInv`, `OrderInv`: a process only works on a task whose dependencies are
  done, a task that is done committed, and only a task whose dependencies are
  done gets past being blocked. Since no step changes a task that is done
  (`WatchOrder`), this outlives the monitor. A task behind one that failed for
  good never becomes ready: `UnscheduleDependentTasks` reaches it through tasks
  that are not done either (`DependantsAreNotReady`), so that it takes nothing
  away from a task that runs, is done or has failed.
* `NodeInv`: the count of a node is at most the limit and at least the number of
  entries that involve it. It may be larger, because a task is counted before it
  is known whether an executor can be started.
* `JobFollowsTasks`: the state of the job is the one `UpdateBackgroundJob`
  computes from the statuses of its tasks.
* `OnceInv`: unless the monitor crashed, every process is followed, and a task
  has committed exactly when its process says so, it is done, or it was
  cancelled too late.

`MovesRunInOrder` follows from `IInv` but speaks of all earlier moves of the
group and of the reference tables, where the catalog only has the last earlier
move. `GroupCommitted` and `ReferenceTablesCommitted` go down the dependencies:
the least ready move for which the claim failed would wait for a smaller ready
move, for which it holds. Neither these proofs nor `IInv` use the lock of a task,
so the order does not depend on it; the lock is what keeps two executors from
running one task at a time after a crash.

## Shard moves

**`ShardMove`** is `citus_move_shard_placement` for one colocation group: the
session of the move, the sessions that write, the cleaner of the maintenance
daemon and the one a move calls.

* `placement` and `exclusive` are, for the coordinator and every worker with
  metadata, its placement metadata and the metadata lock of the shards. A write
  (`CitusBeginModifyScan`) waits for the lock of its router, reads the placement,
  and holds the lock until it ends. A move takes the locks one by one
  (`BlockWritesToShardList`), at the beginning without logical replication and
  after the first catch-up with it.
* `objects` are the tables, publications, slots, subscriptions and roles that
  exist on the workers, `records` is `pg_dist_cleanup`, `opLock` the lock of an
  operation id. The objects are created outside of any transaction, each with
  the record before it, or, for roles and subscriptions, after it (`Steps`).
* `wal` and `replication` are the log of a worker and, for each move, where its
  slot begins, how far its subscription has applied the log, and which tables
  it still publishes. A slot waits for older transactions of the source, also
  for prepared ones; the copy sees the snapshot of the slot.
* The move's changes on the workers are committed with two-phase commit. Here
  they are decided with `CommitMove` and take effect in `EndMoveOnWorker`; that
  this happens, and on all workers alike, is what `TwoPhaseCommit` shows.
* Failures (`MaxFaults`): an error at any step of the move or of a cleaner, a
  failed drop, a lost `COMMIT PREPARED` of a write, a restart of the coordinator
  or of a worker.

Simplifications: one catch-up stands for the two before the lock; a drop is one
step on its worker, which does not go on after its sender has gone; a drop and
the deletion of its record at the end of a move are one step; indexes,
constraints and partitions are left out; tables have no readers.

| Run | Instance | What it shows |
| --- | --- | --- |
| `shard_moves` | 2 moves between 2 workers, one of them with metadata, 1 write, 1 fault | every router that lets writes through points to tables that exist and have all committed rows; tables, slots and publications that are not in use have a record; in the end no record is left; moves end |
| `moves_prepared` (violation) | 1 move, 1 write, its `COMMIT PREPARED` lost | the row is committed on the old placement after the switch |

Two moves are what it takes for a shard to come back to a node with leftovers,
and for a move to meet the locks and cleaners of another. `NoWriteLeftBehind`
rests on three things that look independent: the order of locking and reading
on both sides, `ErrorIfCleanupRecordForShardExists`, and the second look of the
cleaner at its record once it has the operation's lock. Fairness: sessions go
on, the daemon cleans up every `DeferShardDeleteInterval`, two-phase commit and
recovery end what they began; no move need be called, and no write begun.
Deadlock is not checked: all moves and writes may have ended.

### Proofs

`ShardMoveProofs` proves `Spec => []IInv`, and from it `TypeOK`,
`NoWriteLeftBehind` and `LeftoversAreRecorded`, for any workers, any of them with
metadata, any list of shards, any writes and any number of moves and faults.
`MoveAssumption` gives the constants their types: there is a shard, the
coordinator is not a worker, the shards begin on a worker.

`IInv` is in `ShardMoveInv`; run `shard_moves` checks it too. Neither property is
inductive, because both are about the placements in use, and what makes a
placement complete at the moment of the switch lies in the steps before it:

* `MoveInv`, `RouterInv`, `WriteInv`: metadata that is out of date is locked by
  the committed move that makes it so, and a write that executes holds the lock
  of a router whose metadata is up to date. Hence no write goes to the old
  placement once all routers are locked.
* `OpLockInv`, `RecordInv`, `CleanerInv`: the lock of an operation id is held by
  its move, from the moment it registers until its end, or by one cleaner. What
  a cleaner is about to drop has a record it has looked up under the lock. Once
  a move has registered, the only records of tables are its own, of its target
  node; this is what `ErrorIfCleanupRecordForShardExists` is for. So no cleaner
  drops what a move creates or uses.
* `SetupInv`, `LinkInv`: the steps of the setup that are behind have not been
  undone, and rows and subscriptions are only in tables that exist.
* `DataInv`, `CopyInv`: the placement in use has every committed row; the new one
  has them but for the changes in the log after the position the subscription
  has applied, and with all routers locked nothing is committed after the
  position the move waits for. A finished wait thus leaves nothing out.

`ShardMoveSteps` has the lemmas on what the steps do, type correctness and the
writes; `ShardMoveOthers` cleaners, workers, failures and the beginning of a
move; `ShardMoveProofs` the setup, the copy, the switch and the theorems.

## What is only model-checked

* Liveness, in every component: the prover has neither ENABLED nor fairness.
* `DetectedDeadlockIsReal` and `TypeOK` of `DeadlockDetection`. The wait graph is a
  transitive closure computed by a fold, about which an induction over sets would
  be needed.

## Not modelled

The planner, the deparser and the handlers of the DDL statements are rewritings
of parse trees and SQL text: they keep no state between calls, and what they
compute depends on all of PostgreSQL's grammar. File and tuple I/O (COPY,
intermediate results, the local executor) has no protocol of its own. The
metadata cache depends on invalidation messages of PostgreSQL. Savepoints and
`PREPARE TRANSACTION` issued by a client are not part of `TwoPhaseCommit`.
Names of prepared transactions are abstracted to be distinct; the worker would
refuse a name in use, which is an error response in the model.
