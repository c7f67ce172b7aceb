----------------------------- MODULE ShardMove -----------------------------
(***************************************************************************)
(* citus_move_shard_placement for one group of colocated shards            *)
(* (shard_transfer.c), with or without logical replication                 *)
(* (multi_logical_replication.c), the cleaners that drop what moves leave  *)
(* behind (shard_cleaner.c), and the sessions that write to the shards     *)
(* meanwhile (citus_custom_scan.c).  A write may be routed by the          *)
(* coordinator or by any worker, each with its own copy of the metadata    *)
(* and its own metadata lock.  The workers' part of a move is committed    *)
(* with two-phase commit: it is decided with the coordinator's and carried *)
(* out later.                                                              *)
(***************************************************************************)
EXTENDS Naturals, Sequences

CONSTANTS
  Nodes,         \* the workers
  MetadataNodes, \* those with metadata, which route writes
  Coordinator,
  FirstNode,    \* the worker with the shards in the beginning
  ShardList,    \* the colocated shards, in the order of their list
  Writes,       \* transactions that write one row to one shard
  ShardOf,
  MaxMoves,     \* bound on calls of citus_move_shard_placement
  MaxFaults     \* bound on errors, crashes and lost commands

Shards == {ShardList[i] : i \in DOMAIN ShardList}
Routers == MetadataNodes \cup {Coordinator}
Ops == 1..MaxMoves
None == 0

ASSUME MoveAssumption ==
  /\ Coordinator \notin Nodes /\ MetadataNodes \subseteq Nodes /\ FirstNode \in Nodes
  /\ ShardList \in Seq(Shards) /\ ShardList # <<>>
  /\ ShardOf \in [Writes -> Shards]
  /\ {MaxMoves, MaxFaults} \subseteq Nat

\* The daemon, or a user who calls citus_cleanup_orphaned_resources, and the session
\* which a move opens for that call.
Cleaners == {"daemon", "call"}

VARIABLES
  placement,   \* pg_dist_placement of every router: the worker with the shards
  exclusive,   \* the move that holds the metadata locks of the shards on a router
  objects,     \* the shard tables, publications, slots, subscriptions and roles there are
  rows,        \* the committed rows of the shard tables
  wal,         \* the writes committed on a worker, in this order
  replication, \* for each move: its slot and subscription
  records,     \* pg_dist_cleanup
  opLock,      \* who holds the lock of an operation id
  ops,         \* the moves so far: where from, where to and their outcome
  move,        \* the session that runs citus_move_shard_placement
  cleaner,     \* the sessions that run DropOrphanedResourcesForCleanup
  write,       \* the sessions that write
  faults

data == <<objects, rows, wal, replication>>
metadata == <<placement, exclusive, ops>>
cleanup == <<records, opLock>>
vars == <<metadata, data, cleanup, move, cleaner, write, faults>>

-----------------------------------------------------------------------------
(* Objects and their cleanup records                                        *)

\* CleanupObject: objects are dropped in the order of these numbers.
TypeRank == [shard |-> 1, subscription |-> 2, slot |-> 3, publication |-> 4, user |-> 5]

Object(type, name, node) == [type |-> type, name |-> name, node |-> node]
Table(s, n) == Object("shard", s, n)

\* The publication, slot, subscription or role of move o.
ObjectOf(o, type) ==
  Object(type, o, IF type \in {"publication", "slot"} THEN ops[o].source ELSE ops[o].target)

Record(o, object, policy) == [op |-> o, object |-> object, policy |-> policy]

IdleMove == [pc |-> "idle", logical |-> FALSE, step |-> 0, position |-> 0, locked |-> {}]
IdleCleaner == [pc |-> "idle", list |-> {}, current |-> {}, deleted |-> {}]
NoReplication == [start |-> 0, applied |-> 0, linked |-> {}, enabled |-> FALSE, owned |-> FALSE]

Ended(pc) == [pc |-> pc, router |-> Coordinator, node |-> FirstNode]

Init ==
  /\ placement = [r \in Routers |-> FirstNode]
  /\ exclusive = [r \in Routers |-> None]
  /\ objects = {Table(s, FirstNode) : s \in Shards}
  /\ rows = [t \in Shards \X Nodes |-> {}]
  /\ wal = [n \in Nodes |-> <<>>]
  /\ replication = [o \in Ops |-> NoReplication]
  /\ records = {}
  /\ opLock = [o \in Ops |-> "none"]
  /\ ops = <<>>
  /\ move = IdleMove
  /\ cleaner = [c \in Cleaners |-> IdleCleaner]
  /\ write = [w \in Writes |-> Ended("idle")]
  /\ faults = 0

Fault == faults < MaxFaults /\ faults' = faults + 1

\* Mutant: a drop that fails for an object that is not there.
Droppable_MustExist(object) == object \in objects

\* What PostgreSQL refuses to drop: a table a prepared transaction has written to, a
\* slot in use, a role that owns a subscription.
Droppable(object) ==
  /\ object.type = "shard" =>
       ~\E w \in Writes : /\ write[w].pc = "prepared"
                          /\ Table(ShardOf[w], write[w].node) = object
  /\ object.type = "slot" => ~replication[object.name].enabled
  /\ object.type = "user" => ~replication[object.name].owned

\* Dropping a table removes it from the publications and subscriptions it was in.
ReplicationWithout(object, o) ==
  LET repl == replication[o]
      tables == IF object.type = "shard" /\ object.node \in {ops[o].source, ops[o].target}
                THEN {object.name} ELSE {}
      slot == object = ObjectOf(o, "slot")
      subscription == object = ObjectOf(o, "subscription")
  IN [start |-> IF slot THEN 0 ELSE repl.start,
      applied |-> IF slot THEN 0 ELSE repl.applied,
      linked |-> IF subscription THEN {} ELSE repl.linked \ tables,
      enabled |-> repl.enabled /\ ~subscription,
      owned |-> repl.owned /\ ~subscription]

Drop(object) ==
  /\ objects' = objects \ {object}
  /\ rows' = [t \in DOMAIN rows |-> IF Table(t[1], t[2]) = object THEN {} ELSE rows[t]]
  /\ replication' = [o \in Ops |-> IF o \in DOMAIN ops THEN ReplicationWithout(object, o) ELSE replication[o]]
  /\ UNCHANGED wal

CompareCleanupRecordsByObjectType(r, q) == TypeRank[r.object.type] <= TypeRank[q.object.type]
First(list) == {r \in list : \A q \in list : CompareCleanupRecordsByObjectType(r, q)}

-----------------------------------------------------------------------------
(* Writes                                                                   *)

HoldsShareLock(w) == write[w].pc = "executing"

\* A statement on router r: AcquireMetadataLocks waits for a move that holds the lock,
\* and only then FirstReplicaAssignTaskList loads the placements.
CitusBeginModifyScan(w, r) ==
  /\ write[w].pc = "idle" /\ exclusive[r] = None
  /\ write' = [write EXCEPT ![w] = [pc |-> "executing", router |-> r, node |-> placement[r]]]
  /\ UNCHANGED <<metadata, data, cleanup, move, cleaner, faults>>

\* The row of a write becomes part of the table and of the log of its worker.
WriteRow(w) ==
  LET n == write[w].node
  IN /\ Table(ShardOf[w], n) \in objects
     /\ rows' = [rows EXCEPT ![<<ShardOf[w], n>>] = @ \cup {w}]
     /\ wal' = [wal EXCEPT ![n] = Append(@, w)]
     /\ UNCHANGED <<objects, replication>>

\* The write commits on the worker, and then the router releases its locks.
CommitWrite(w) ==
  /\ write[w].pc = "executing"
  /\ WriteRow(w)
  /\ write' = [write EXCEPT ![w] = Ended("committed")]
  /\ UNCHANGED <<metadata, cleanup, move, cleaner, faults>>

\* The write is part of a transaction over several nodes, and COMMIT PREPARED gets lost
\* after the decision: the router ends its transaction and releases its locks.
CommitPreparedLost(w) ==
  /\ write[w].pc = "executing" /\ Table(ShardOf[w], write[w].node) \in objects
  /\ write' = [write EXCEPT ![w].pc = "prepared"]
  /\ Fault
  /\ UNCHANGED <<metadata, data, cleanup, move, cleaner>>

\* Transaction recovery commits what was left prepared.
RecoverWrite(w) ==
  /\ write[w].pc = "prepared"
  /\ WriteRow(w)
  /\ write' = [write EXCEPT ![w] = Ended("recovered")]
  /\ UNCHANGED <<metadata, cleanup, move, cleaner, faults>>

\* The client rolls back, or the statement fails.
AbortWrite(w) ==
  /\ HoldsShareLock(w)
  /\ write' = [write EXCEPT ![w] = Ended("aborted")]
  /\ UNCHANGED <<metadata, data, cleanup, move, cleaner, faults>>

AbortWritesOf(routers) ==
  write' = [w \in Writes |->
              IF write[w].router \in routers /\ HoldsShareLock(w)
              THEN Ended("aborted") ELSE write[w]]

-----------------------------------------------------------------------------
(* The move                                                                 *)

Current == Len(ops)
Source == ops[Current].source
Target == ops[Current].target
At(pc) == move.pc = pc

\* The placements of the shards are on the source and the target differs: with any other
\* arguments, or while another move holds the colocation lock, the call does nothing.
\* Without logical replication writes are blocked first.
TransferShards(target, logical) ==
  /\ At("idle") /\ Len(ops) < MaxMoves /\ target # placement[Coordinator]
  /\ ops' = Append(ops, [source |-> placement[Coordinator], target |-> target, outcome |-> "running"])
  /\ move' = [IdleMove EXCEPT !.pc = IF logical THEN "cleanup" ELSE "block", !.logical = logical]
  /\ UNCHANGED <<placement, exclusive, data, cleanup, cleaner, write, faults>>

\* The metadata lock of router r, which waits for the writes it has and, on a worker, for
\* a move that is still to be committed or aborted there.
LockShardDistributionMetadata(r) ==
  /\ exclusive[r] = None
  /\ \A w \in Writes : write[w].router = r => ~HoldsShareLock(w)
  /\ exclusive' = [exclusive EXCEPT ![r] = Current]

\* The coordinator's locks first, then those of the workers.
BlockWritesToShardList(r) ==
  /\ At("block") /\ r \notin move.locked
  /\ r # Coordinator => Coordinator \in move.locked
  /\ LockShardDistributionMetadata(r)
  /\ move' = [move EXCEPT
       !.locked = @ \cup {r},
       !.pc = IF move.locked \cup {r} # Routers THEN @ ELSE IF move.logical THEN "position" ELSE "cleanup"]
  /\ UNCHANGED <<placement, ops, data, cleanup, cleaner, write, faults>>

\* The call of citus_cleanup_orphaned_resources over a connection to this node.
DropOrphanedResourcesInSeparateTransaction ==
  /\ At("cleanup") /\ cleaner["call"].pc = "idle"
  /\ cleaner' = [cleaner EXCEPT !["call"] = [IdleCleaner EXCEPT !.pc = "loop", !.list = records]]
  /\ move' = [move EXCEPT !.pc = "cleaning"]
  /\ UNCHANGED <<metadata, data, cleanup, write, faults>>

\* Mutant: the lock of the operation id outlives the transaction.
Abort_KeepsOperationLock ==
  /\ move' = IdleMove
  /\ ops' = [ops EXCEPT ![Current].outcome = "aborted"]
  /\ exclusive' = [exclusive EXCEPT ![Coordinator] = None]
  /\ UNCHANGED <<placement, records, opLock>>

\* The transaction of the move ends with its locks on the coordinator.
Abort ==
  /\ move' = IdleMove
  /\ ops' = [ops EXCEPT ![Current].outcome = "aborted"]
  /\ exclusive' = [exclusive EXCEPT ![Coordinator] = None]
  /\ opLock' = [o \in Ops |-> IF opLock[o] = "move" THEN "none" ELSE opLock[o]]
  /\ UNCHANGED <<placement, records>>

\* No shard of the group may have a record left, on whatever worker.
ErrorIfCleanupRecordForShardExists ==
  \E r \in records : r.object.type = "shard"

CleanupFailed ==
  /\ At("cleaning") /\ cleaner["call"].pc = "idle"
  /\ ErrorIfCleanupRecordForShardExists
  /\ Abort
  /\ UNCHANGED <<data, cleaner, write, faults>>

RegisterOperationNeedingCleanup ==
  /\ At("cleaning") /\ cleaner["call"].pc = "idle"
  /\ ~ErrorIfCleanupRecordForShardExists
  /\ opLock' = [opLock EXCEPT ![Current] = "move"]
  /\ move' = [move EXCEPT !.pc = "setup", !.step = 1]
  /\ UNCHANGED <<metadata, data, records, cleaner, write, faults>>

Step(do, type, name) == [do |-> do, type |-> type, name |-> name]

\* What CopyShardTables creates outside of any transaction, with the records it writes.
CreateShards ==
  [i \in 1..2 * Len(ShardList) |->
    Step(IF i % 2 = 1 THEN "record" ELSE "create", "shard", ShardList[(i + 1) \div 2])]

CreatePublications(o) == <<Step("record", "publication", o), Step("create", "publication", o)>>

\* Mutant: the slot is created before its record.
CreateReplicationSlots_RecordedAfter(o) == <<Step("create", "slot", o), Step("record", "slot", o)>>

CreateReplicationSlots(o) == <<Step("record", "slot", o), Step("create", "slot", o)>>

CreateSubscriptions(o) ==
  <<Step("create", "user", o), Step("record", "user", o),
    Step("create", "subscription", o), Step("record", "subscription", o)>>

Steps ==
  CreateShards
    \o IF move.logical
       THEN CreatePublications(Current) \o CreateReplicationSlots(Current) \o CreateSubscriptions(Current)
       ELSE <<>>

ThisStep == Steps[move.step]
StepObject(step) ==
  IF step.type = "shard" THEN Table(step.name, Target) ELSE ObjectOf(Current, step.type)
StepRecord(step) ==
  Record(Current, StepObject(step), IF step.type = "shard" THEN "on_failure" ELSE "always")

NextStep ==
  move' = [move EXCEPT !.step = @ + 1, !.pc = IF move.step = Len(Steps) THEN "copy" ELSE "setup"]

\* Committed at once over another connection.  After the record of a subscription its
\* owner is changed to the role made for it.
InsertCleanupRecordOutsideTransaction ==
  /\ At("setup") /\ ThisStep.do = "record"
  /\ records' = records \cup {StepRecord(ThisStep)}
  /\ replication' = [replication EXCEPT ![Current].owned = @ \/ ThisStep.type = "subscription"]
  /\ NextStep
  /\ UNCHANGED <<metadata, objects, rows, wal, opLock, cleaner, write, faults>>

\* The slot is consistent once no older transaction runs on the source, a prepared one
\* included; what commits later goes to the slot.  Subscriptions are created disabled.
CreateObject ==
  /\ At("setup") /\ ThisStep.do = "create"
  /\ ThisStep.type = "slot" =>
       ~\E w \in Writes : write[w].pc = "prepared" /\ write[w].node = Source
  /\ objects' = objects \cup {StepObject(ThisStep)}
  /\ \/ /\ ThisStep.type = "slot"
        /\ replication' = [replication EXCEPT ![Current] =
                              [@ EXCEPT !.start = Len(wal[Source]), !.applied = Len(wal[Source])]]
     \/ /\ ThisStep.type = "subscription"
        /\ replication' = [replication EXCEPT ![Current].linked = Shards]
     \/ /\ ThisStep.type \notin {"slot", "subscription"}
        /\ UNCHANGED replication
  /\ NextStep
  /\ UNCHANGED <<metadata, rows, wal, cleanup, cleaner, write, faults>>

\* The rows the copy sees: all of them, or those of the snapshot of the slot.
SnapshotRows(s) ==
  IF move.logical
  THEN rows[<<s, Source>>] \ {wal[Source][i] : i \in replication[Current].start + 1 .. Len(wal[Source])}
  ELSE rows[<<s, Source>>]

CopyShardsToNode ==
  /\ At("copy")
  /\ rows' = [t \in DOMAIN rows |-> IF t[2] = Target THEN SnapshotRows(t[1]) ELSE rows[t]]
  /\ move' = [move EXCEPT !.pc = IF move.logical THEN "enable" ELSE "finalize", !.step = 0]
  /\ UNCHANGED <<metadata, objects, wal, replication, cleanup, cleaner, write, faults>>

EnableSubscriptions ==
  /\ At("enable")
  /\ replication' = [replication EXCEPT ![Current].enabled = TRUE]
  /\ move' = [move EXCEPT !.pc = "position"]
  /\ UNCHANGED <<metadata, objects, rows, wal, cleanup, cleaner, write, faults>>

\* The apply worker of a subscription: the next change in the log of the source, if the
\* table it is for is still part of the publication and of the subscription.
ApplyChange(o) ==
  /\ {ObjectOf(o, t) : t \in {"publication", "slot", "subscription"}} \subseteq objects
  /\ replication[o].enabled /\ replication[o].applied < Len(wal[ops[o].source])
  /\ LET w == wal[ops[o].source][replication[o].applied + 1]
     IN rows' = IF ShardOf[w] \in replication[o].linked
                THEN [rows EXCEPT ![<<ShardOf[w], ops[o].target>>] = @ \cup {w}] ELSE rows
  /\ replication' = [replication EXCEPT ![o].applied = @ + 1]
  /\ UNCHANGED <<metadata, objects, wal, cleanup, move, cleaner, write, faults>>

\* WaitForAllSubscriptionsToCatchUp, first while writes go on and again after they
\* have been blocked.
GetRemoteLogPosition ==
  /\ At("position")
  /\ move' = [move EXCEPT !.pc = "wait", !.position = Len(wal[Source])]
  /\ UNCHANGED <<metadata, data, cleanup, cleaner, write, faults>>

WaitForAllSubscriptionsToCatchUp ==
  /\ At("wait") /\ replication[Current].applied >= move.position
  /\ move' = [move EXCEPT !.pc = IF move.locked = Routers THEN "finalize" ELSE "block"]
  /\ UNCHANGED <<metadata, data, cleanup, cleaner, write, faults>>

\* The objects of the move that are always dropped, one after the other; what cannot be
\* dropped keeps its record.
ToFinalize == {r \in records : r.op = Current /\ r.policy = "always" /\ TypeRank[r.object.type] > move.step}

FinalizeRecord(r) ==
  /\ move' = [move EXCEPT !.step = TypeRank[r.object.type]]
  /\ \/ /\ Droppable(r.object) /\ Drop(r.object)
        /\ records' = records \ {r}
        /\ UNCHANGED faults
     \/ /\ ~Droppable(r.object) /\ UNCHANGED <<data, records, faults>>
     \/ /\ Fault /\ UNCHANGED <<data, records>>
  /\ UNCHANGED <<metadata, opLock, cleaner, write>>

FinalizeOperationNeedingCleanupOnSuccess ==
  At("finalize") /\ \E r \in First(ToFinalize) : FinalizeRecord(r)

\* The records that leave with the transaction of the move, and those it inserts.
DeletedRecords == {r \in records : r.op = Current /\ r.policy = "on_failure"}
InsertCleanupRecordsForShardPlacementsOnNode ==
  {Record(Current, Table(s, Source), "deferred") : s \in Shards}

\* The metadata of the workers has changed in the transactions that hold their locks,
\* and these have been prepared.
CommitMove ==
  /\ At("finalize") /\ ToFinalize = {}
  /\ \A r \in Routers : exclusive[r] = Current
  /\ placement' = [placement EXCEPT ![Coordinator] = Target]
  /\ exclusive' = [exclusive EXCEPT ![Coordinator] = None]
  /\ ops' = [ops EXCEPT ![Current].outcome = "committed"]
  /\ records' = (records \ DeletedRecords) \cup InsertCleanupRecordsForShardPlacementsOnNode
  /\ opLock' = [opLock EXCEPT ![Current] = "none"]
  /\ move' = IdleMove
  /\ UNCHANGED <<data, cleaner, write, faults>>

\* A worker has lost the transaction with the locks, so that it cannot be prepared.
PrepareMoveFails ==
  /\ At("finalize") /\ ToFinalize = {}
  /\ \E r \in Routers : exclusive[r] # Current
  /\ Abort
  /\ UNCHANGED <<data, cleaner, write, faults>>

\* An error, a timeout or a cancellation.
MoveFails ==
  /\ ~At("idle")
  /\ Abort
  /\ Fault
  /\ UNCHANGED <<data, cleaner, write>>

\* Mutant: the rollback leaves a worker without the placement.
EndMoveOnWorker_PlacementLost(n) ==
  /\ exclusive[n] # None /\ ops[exclusive[n]].outcome # "running"
  /\ exclusive' = [exclusive EXCEPT ![n] = None]
  /\ placement' = [placement EXCEPT ![n] =
                     IF ops[exclusive[n]].outcome = "committed" THEN ops[exclusive[n]].target ELSE None]
  /\ UNCHANGED <<ops, data, cleanup, move, cleaner, write, faults>>

\* Mutant: nobody rolls the move back on a worker.
EndMoveOnWorker_OnlyCommitted(n) ==
  /\ exclusive[n] # None /\ ops[exclusive[n]].outcome = "committed"
  /\ exclusive' = [exclusive EXCEPT ![n] = None]
  /\ placement' = [placement EXCEPT ![n] = ops[exclusive[n]].target]
  /\ UNCHANGED <<ops, data, cleanup, move, cleaner, write, faults>>

\* The prepared transaction of a move on worker n is committed or rolled back.
EndMoveOnWorker(n) ==
  /\ exclusive[n] # None /\ ops[exclusive[n]].outcome # "running"
  /\ exclusive' = [exclusive EXCEPT ![n] = None]
  /\ placement' = [placement EXCEPT ![n] =
                     IF ops[exclusive[n]].outcome = "committed" THEN ops[exclusive[n]].target ELSE @]
  /\ UNCHANGED <<ops, data, cleanup, move, cleaner, write, faults>>

-----------------------------------------------------------------------------
(* The cleaners                                                             *)

ListCleanupRecords(c) ==
  /\ c = "daemon" /\ cleaner[c].pc = "idle" /\ records # {}
  /\ cleaner' = [cleaner EXCEPT ![c] = [IdleCleaner EXCEPT !.pc = "loop", !.list = records]]
  /\ UNCHANGED <<metadata, data, cleanup, move, write, faults>>

CanLockOperationId(c, o) == opLock[o] \in {"none", c}

\* Mutant: the record is trusted as it was listed.
CleanupRecordExists_NotChecked(r) == TRUE

CleanupRecordExists(r) == r \in records

\* The next record of the list: skipped if its operation still runs, or is being cleaned
\* by somebody else, or if the record has gone meanwhile.
LockRecord(c, r) ==
  LET locked == CanLockOperationId(c, r.op)
      found == locked /\ CleanupRecordExists(r)
  IN /\ opLock' = IF locked THEN [opLock EXCEPT ![r.op] = c] ELSE opLock
     /\ cleaner' = [cleaner EXCEPT ![c] =
                       [pc |-> IF found THEN "drop" ELSE "loop", list |-> @.list \ {r},
                        current |-> IF found THEN {r} ELSE {}, deleted |-> @.deleted]]
     /\ UNCHANGED <<metadata, data, records, move, write, faults>>

TryLockOperationId(c) ==
  cleaner[c].pc = "loop" /\ \E r \in First(cleaner[c].list) : LockRecord(c, r)

\* The record is deleted in the transaction of the cleaner.
DropRecord(c, r) ==
  /\ \/ /\ Droppable(r.object) /\ Drop(r.object)
        /\ cleaner' = [cleaner EXCEPT ![c] =
                          [pc |-> "loop", list |-> @.list, current |-> {}, deleted |-> @.deleted \cup {r}]]
        /\ UNCHANGED faults
     \/ /\ cleaner' = [cleaner EXCEPT ![c] =
                          [pc |-> "loop", list |-> @.list, current |-> {}, deleted |-> @.deleted]]
        /\ UNCHANGED data
        /\ IF Droppable(r.object) THEN Fault ELSE UNCHANGED faults
  /\ UNCHANGED <<metadata, cleanup, move, write>>

TryDropResourceByCleanupRecordOutsideTransaction(c) ==
  cleaner[c].pc = "drop" /\ \E r \in cleaner[c].current : DropRecord(c, r)

ReleaseLocks(cs) == [o \in Ops |-> IF opLock[o] \in cs THEN "none" ELSE opLock[o]]

CommitCleanup(c) ==
  /\ cleaner[c].pc = "loop" /\ cleaner[c].list = {}
  /\ records' = records \ cleaner[c].deleted
  /\ opLock' = ReleaseLocks({c})
  /\ cleaner' = [cleaner EXCEPT ![c] = IdleCleaner]
  /\ UNCHANGED <<metadata, data, move, write, faults>>

\* The transaction of the cleaner fails after it may have dropped objects; a move that
\* waits for it fails with it.
CleanupFails(c) ==
  /\ cleaner[c].pc # "idle"
  /\ cleaner' = [cleaner EXCEPT ![c] = IdleCleaner]
  /\ IF c = "call" /\ At("cleaning")
     THEN /\ move' = IdleMove
          /\ ops' = [ops EXCEPT ![Current].outcome = "aborted"]
          /\ exclusive' = [exclusive EXCEPT ![Coordinator] = None]
          /\ UNCHANGED placement
     ELSE UNCHANGED <<metadata, move>>
  /\ opLock' = ReleaseLocks({c})
  /\ Fault
  /\ UNCHANGED <<data, records, write>>

-----------------------------------------------------------------------------
(* Restarts                                                                 *)

CoordinatorCrash ==
  /\ Fault
  /\ move' = IdleMove
  /\ ops' = IF At("idle") THEN ops ELSE [ops EXCEPT ![Current].outcome = "aborted"]
  /\ exclusive' = [exclusive EXCEPT ![Coordinator] = None]
  /\ opLock' = [o \in Ops |-> "none"]
  /\ cleaner' = [c \in Cleaners |-> IdleCleaner]
  /\ AbortWritesOf({Coordinator})
  /\ UNCHANGED <<placement, data, records>>

\* A restart loses the locks of a move that has not been prepared.
WorkerCrash(n) ==
  /\ Fault
  /\ exclusive' = [exclusive EXCEPT ![n] =
                     IF @ # None /\ ops[@].outcome = "running" THEN None ELSE @]
  /\ AbortWritesOf({n})
  /\ UNCHANGED <<placement, ops, data, cleanup, move, cleaner>>

-----------------------------------------------------------------------------

MoveStep ==
  \/ \E r \in Routers : BlockWritesToShardList(r)
  \/ DropOrphanedResourcesInSeparateTransaction \/ CleanupFailed
  \/ RegisterOperationNeedingCleanup
  \/ InsertCleanupRecordOutsideTransaction \/ CreateObject
  \/ CopyShardsToNode \/ EnableSubscriptions
  \/ GetRemoteLogPosition \/ WaitForAllSubscriptionsToCatchUp
  \/ FinalizeOperationNeedingCleanupOnSuccess
  \/ CommitMove \/ PrepareMoveFails

CleanerStep(c) ==
  \/ ListCleanupRecords(c) \/ TryLockOperationId(c)
  \/ TryDropResourceByCleanupRecordOutsideTransaction(c) \/ CommitCleanup(c)

Next ==
  \/ \E n \in Nodes, logical \in BOOLEAN : TransferShards(n, logical)
  \/ MoveStep \/ MoveFails
  \/ \E n \in MetadataNodes : EndMoveOnWorker(n) \/ WorkerCrash(n)
  \/ \E o \in DOMAIN ops : ApplyChange(o)
  \/ \E c \in Cleaners : CleanerStep(c) \/ CleanupFails(c)
  \/ \E w \in Writes : \/ \E r \in Routers : CitusBeginModifyScan(w, r)
                       \/ CommitWrite(w) \/ AbortWrite(w)
                       \/ CommitPreparedLost(w) \/ RecoverWrite(w)
  \/ CoordinatorCrash

Spec == Init /\ [][Next]_vars

\* What ends by itself: writes that have begun, the workers' part of a move, and the
\* changes an apply worker has to apply.
OthersStep ==
  \/ \E n \in MetadataNodes : EndMoveOnWorker(n)
  \/ \E o \in DOMAIN ops : ApplyChange(o)
  \/ \E w \in Writes : CommitWrite(w) \/ AbortWrite(w) \/ RecoverWrite(w)

\* A move that was called goes on, and so does a cleaner; the daemon cleans up every
\* DeferShardDeleteInterval; two-phase commit and its recovery end the transactions of
\* moves and writes on the workers.
FairSpec ==
  /\ Spec
  /\ WF_vars(MoveStep) /\ WF_vars(OthersStep)
  /\ \A c \in Cleaners : WF_vars(CleanerStep(c))

-----------------------------------------------------------------------------
(* Properties                                                               *)

AllObjects ==
  [type : {"shard"}, name : Shards, node : Nodes]
    \cup [type : {"subscription", "slot", "publication", "user"}, name : Ops, node : Nodes]
AllRecords == [op : Ops, object : AllObjects, policy : {"on_failure", "always", "deferred"}]

ReplicationStates ==
  [start : Nat, applied : Nat, linked : SUBSET Shards, enabled : BOOLEAN, owned : BOOLEAN]
OpRecords == [source : Nodes, target : Nodes, outcome : {"running", "committed", "aborted"}]
MoveStates ==
  [pc : {"idle", "block", "cleanup", "cleaning", "setup", "copy", "enable", "position", "wait", "finalize"},
   logical : BOOLEAN, step : Nat, position : Nat, locked : SUBSET Routers]
CleanerStates ==
  [pc : {"idle", "loop", "drop"}, list : SUBSET AllRecords, current : SUBSET AllRecords,
   deleted : SUBSET AllRecords]
WriteStates ==
  [pc : {"idle", "executing", "prepared", "committed", "recovered", "aborted"}, router : Routers, node : Nodes]

\* What each variable may be; a router always has a placement to route to.
TypeOK ==
  /\ placement \in [Routers -> Nodes] /\ exclusive \in [Routers -> Ops \cup {None}]
  /\ objects \subseteq AllObjects /\ rows \in [Shards \X Nodes -> SUBSET Writes]
  /\ wal \in [Nodes -> Seq(Writes)] /\ replication \in [Ops -> ReplicationStates]
  /\ records \subseteq AllRecords /\ opLock \in [Ops -> Cleaners \cup {"none", "move"}]
  /\ ops \in Seq(OpRecords) /\ Len(ops) <= MaxMoves
  /\ move \in MoveStates /\ cleaner \in [Cleaners -> CleanerStates] /\ write \in [Writes -> WriteStates]
  /\ faults \in 0..MaxFaults

\* Unless router r blocks writes, the tables its metadata points to exist and have the
\* rows of these writes.
Complete(r, writes) ==
  exclusive[r] = None =>
    \A s \in Shards :
      /\ Table(s, placement[r]) \in objects
      /\ {w \in writes : ShardOf[w] = s} \subseteq rows[<<s, placement[r]>>]

\* Whenever a router lets writes through, the placements it routes to exist and have
\* every row that any router has committed: no write is lost by the switch to the new
\* placement (BlockWritesToShardList, CitusBeginModifyScan), and no cleaner drops a
\* placement that is in use again (DropOrphanedResourcesForCleanup).
NoWriteLeftBehind ==
  \A r \in Routers : Complete(r, {w \in Writes : write[w].pc = "committed"})

\* The same of the writes whose COMMIT PREPARED was lost and which recovery committed:
\* "we need to take metadata locks to make sure no write is left behind when finalizing
\* a shard move" (CitusBeginModifyScan).
NoPreparedWriteLeftBehind ==
  \A r \in Routers : Complete(r, {w \in Writes : write[w].pc = "recovered"})

Recorded(object) == \E r \in records : r.object = object
InUse(object) == \E s \in Shards : object = Table(s, placement[Coordinator])

\* Whatever crashes when, a shard table, slot or publication that is not the placement in use has a record by
\* which it will be found (InsertCleanupRecordOutsideTransaction before the creation,
\* deferred records with the metadata).
LeftoversAreRecorded ==
  \A object \in objects :
    object.type \in {"shard", "slot", "publication"} => InUse(object) \/ Recorded(object)

\* After the last move everything recorded is dropped: no record is skipped forever.
CleanupEnds == <>[](records = {})

\* A move ends: its locks, its waits for replication and its own cleanup never wait for
\* something that waits for the move.
MoveEnds == []<>(move.pc = "idle")
=============================================================================
