---------------------------- MODULE ShardMoveInv ----------------------------
(***************************************************************************)
(* The inductive invariant of ShardMove: what the metadata locks, the      *)
(* locks of operation ids, the cleanup records and the logs say about one  *)
(* another, from which NoWriteLeftBehind and LeftoversAreRecorded follow.  *)
(***************************************************************************)
EXTENDS ShardMove

\* The move has registered its operation: it holds the lock of its id.
Registered ==
  move.pc \in {"setup", "copy", "enable", "position", "wait", "finalize"} \/ (At("block") /\ move.logical)

\* The operations there may be records of.
Known(o) == o \in 1..Current /\ (o = Current => At("idle") \/ Registered)

\* The move that runs is the last one; it moves the shards away from where they are.
MoveInv ==
  /\ ~At("idle") =>
       /\ Current \in Ops /\ ops[Current].outcome = "running"
       /\ Source = placement[Coordinator] /\ Target # Source
  /\ \A o \in 1..Current : ops[o].outcome = "running" => o = Current /\ ~At("idle")
  /\ move.pc \in {"enable", "position", "wait"} => move.logical

\* Metadata that is out of date is locked by the committed move that makes it so.
RouterOK(r) ==
  /\ exclusive[r] # None => exclusive[r] \in 1..Current
  /\ IF exclusive[r] # None /\ ops[exclusive[r]].outcome = "committed"
       THEN ops[exclusive[r]].target = placement[Coordinator]
       ELSE placement[r] = placement[Coordinator]
RouterInv ==
  /\ exclusive[Coordinator] # None => exclusive[Coordinator] = Current /\ ~At("idle")
  /\ \A r \in Routers : RouterOK(r)

\* A write that executes was let through by its router; what is in a log has committed.
WriteInv ==
  /\ \A w \in Writes : write[w].pc = "executing" =>
       exclusive[write[w].router] = None /\ write[w].node = placement[write[w].router]
  /\ \A n \in Nodes : \A i \in 1..Len(wal[n]) : write[wal[n][i]].pc \in {"committed", "recovered"}

\* Records are of operations that have registered and of tables not in use; once a move
\* has registered, the only records of shards are its own.
RecordOK(r) ==
  /\ Known(r.op)
  /\ IF r.object.type = "shard"
       THEN /\ r.policy # "always" /\ r.object.node # placement[Coordinator]
            /\ r.policy = "on_failure" => r.object.node = ops[r.op].target
            /\ Registered => r.op = Current /\ r.policy = "on_failure"
       ELSE r.policy = "always" /\ r.object.name = r.op
RecordInv == \A r \in records : RecordOK(r)

\* The lock of an operation id is held by its move or by a cleaner of its records.
OpLockInv ==
  /\ Registered => opLock[Current] = "move"
  /\ \A o \in Ops : /\ opLock[o] = "move" => o = Current /\ Registered
                    /\ opLock[o] \in Cleaners => Known(o)

\* What a cleaner is about to drop, or has dropped, keeps its record and its lock until
\* the cleaner commits, and is not created again meanwhile.
CleanerOK(c) ==
  /\ \A r \in cleaner[c].list : Known(r.op)
  /\ \A r \in cleaner[c].current \cup cleaner[c].deleted : r \in records /\ opLock[r.op] = c
  /\ \A r \in cleaner[c].deleted : r.object \notin objects
CleanerInv == \A c \in Cleaners : CleanerOK(c)

\* The steps of the setup before the current one have been done and not been undone.
Done(step) ==
  IF step.do = "record" THEN StepRecord(step) \in records
  ELSE /\ StepObject(step) \in objects
       /\ step.type = "subscription" => replication[Current].linked = Shards
SetupInv ==
  /\ At("setup") => move.step \in 1..Len(Steps) /\ \A j \in 1..move.step - 1 : Done(Steps[j])
  /\ Registered /\ ~At("setup") =>
       /\ \A s \in Shards : Table(s, Target) \in objects
       /\ move.logical /\ ~At("finalize") => replication[Current].linked = Shards

\* Rows are only in tables that exist, and a subscription only applies changes to such
\* tables; that of an operation which has not registered does not exist.
LinkInv ==
  /\ \A s \in Shards, n \in Nodes : rows[<<s, n>>] # {} => Table(s, n) \in objects
  /\ \A o \in 1..Current : \A s \in replication[o].linked : Table(s, ops[o].target) \in objects
  /\ \A o \in Ops : ~Known(o) => replication[o] = NoReplication

\* The rows that were committed through a router.
Committed(s) == {w \in Writes : write[w].pc = "committed" /\ ShardOf[w] = s}

\* The placement in use is complete, whoever may write to it.
DataInv ==
  \A s \in Shards :
    /\ Table(s, placement[Coordinator]) \in objects
    /\ Committed(s) \subseteq rows[<<s, placement[Coordinator]>>]

\* The changes after position i of the source's log.
LogAfter(i) == {wal[Source][j] : j \in i + 1 .. Len(wal[Source])}

Blocked == \A r \in Routers : exclusive[r] = Current

\* The new placement has what was committed, but for the changes still to be applied;
\* while all routers are blocked nothing is committed after the position waited for.
CopyInv ==
  LET repl == replication[Current] IN
  /\ Registered /\ ~At("finalize") => repl.applied <= Len(wal[Source])
  /\ move.pc \in {"setup", "copy", "enable"} => ~repl.enabled /\ repl.applied = repl.start
  /\ At("enable") \/ At("position") \/ At("wait") \/ (At("block") /\ move.logical) =>
       \A s \in Shards : Committed(s) \subseteq rows[<<s, Target>>] \cup LogAfter(repl.applied)
  /\ At("wait") /\ move.locked = Routers /\ Blocked =>
       \A w \in LogAfter(move.position) : write[w].pc # "committed"
  /\ At("finalize") /\ Blocked =>
       \A s \in Shards : Committed(s) \subseteq rows[<<s, Target>>]

IInv ==
  /\ TypeOK /\ MoveInv /\ RouterInv /\ WriteInv /\ RecordInv /\ OpLockInv /\ CleanerInv
  /\ SetupInv /\ LinkInv /\ DataInv /\ CopyInv /\ LeftoversAreRecorded
=============================================================================
