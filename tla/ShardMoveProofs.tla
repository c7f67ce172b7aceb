--------------------------- MODULE ShardMoveProofs ---------------------------
(***************************************************************************)
(* ShardMove keeps its inductive invariant, so that no move leaves a       *)
(* committed write behind or an object unrecorded, for any number of       *)
(* workers, shards, writes, moves and faults.                              *)
(***************************************************************************)
EXTENDS ShardMoveOthers

USE DEF IInv, data, metadata, cleanup
\* The provers of the leaves that name none: Zenon, then Z3.
USE ZenonT(30), Z3T(30)

\* The record of what a move is about to create.
LEMMA InsertRecordPreserves ==
  ASSUME IInv, TypeOK', InsertCleanupRecordOutsideTransaction
  PROVE  IInv'
<1>1. /\ UNCHANGED <<metadata, objects, rows, wal, opLock, cleaner, write, faults>>
      /\ At("setup") /\ NextStep /\ ThisStep.do = "record"
      /\ records' = records \cup {StepRecord(ThisStep)}
  BY DEF InsertCleanupRecordOutsideTransaction
<1>2. /\ Current \in Ops /\ Current \in 1..Current /\ {Source, Target} \subseteq Nodes
      /\ Source = placement[Coordinator] /\ Target # Source
      /\ move.step \in 1..Len(Steps)
      /\ move'.pc \in {"setup", "copy"} /\ move'.logical = move.logical
      /\ Registered /\ Registered' /\ ~At("idle") /\ ~At("idle")' /\ ~At("finalize")'
      /\ Current' = Current /\ Source' = Source /\ Target' = Target
      /\ \A o : Known(o)' = Known(o)
  BY <1>1, NextStepIs
<1>3. /\ replication'[Current].linked = replication[Current].linked
      /\ replication'[Current].start = replication[Current].start
      /\ replication'[Current].applied = replication[Current].applied
      /\ replication'[Current].enabled = replication[Current].enabled
      /\ \A o \in Ops : o # Current => replication'[o] = replication[o]
  BY <1>2 DEF InsertCleanupRecordOutsideTransaction, TypeOK, ReplicationStates
<1>4. PICK r : r = StepRecord(ThisStep)
  OBVIOUS
<1>5. /\ r.op = Current
      /\ IF r.object.type = "shard" THEN r.policy = "on_failure" /\ r.object.node = Target
         ELSE r.policy = "always" /\ r.object.name = Current
  <2> DEFINE step == ThisStep
  <2>1. /\ StepObject(step).type = step.type
        /\ step.type = "shard" => StepObject(step) = Table(step.name, Target)
        /\ step.type # "shard" => StepObject(step).name = Current
    BY <1>2, StepTypes DEF ThisStep
  <2> HIDE DEF step
  <2>2. r = StepRecord(step)
    BY <1>4 DEF step
  <2> QED
    BY SMTT(30), Z3T(30), <2>1, <2>2 DEF StepRecord, Record, Table, Object
<1>6. records' = records \cup {r}
  BY <1>1, <1>4
<1>7. MoveInv'
  BY <1>1, <1>2 DEF MoveInv
<1>8. RouterInv'
  BY <1>1, <1>2 DEF RouterInv, RouterOK
<1>9. WriteInv'
  BY <1>1 DEF WriteInv
<1>10. RecordInv'
  <2>1. Known(r.op)
    BY <1>2, <1>5 DEF Known
  <2>2. RecordOK(r)'
    BY <1>1, <1>2, <1>5, <2>1 DEF RecordOK, Target
  <2> QED
    BY <1>1, <1>2, <1>6, <2>2 DEF RecordInv, RecordOK
<1>11. OpLockInv'
  BY <1>1, <1>2 DEF OpLockInv
<1>12. CleanerInv'
  BY <1>1, <1>2, <1>6 DEF CleanerInv, CleanerOK
<1>13. SetupInv'
  BY <1>1, <1>3, SetupAdvances
<1>14. LinkInv'
  <2>1. 1..Current \subseteq Ops /\ Known(Current)
    BY <1>2, OpsFacts DEF Known
  <2> QED
    BY <1>1, <1>2, <1>3, <2>1 DEF LinkInv
<1>15. DataInv'
  BY <1>1 DEF DataInv, Committed
<1>16. CopyInv'
  BY <1>1, <1>2, <1>3 DEF CopyInv, At
<1>17. LeftoversAreRecorded'
  BY <1>1 DEF LeftoversAreRecorded, InUse, Recorded
<1> QED
  BY <1>7, <1>8, <1>9, <1>10, <1>11, <1>12, <1>13, <1>14, <1>15, <1>16, <1>17

\* What a move creates has its record, and no cleaner has just dropped it.
LEMMA CreateObjectPreserves ==
  ASSUME IInv, TypeOK', CreateObject
  PROVE  IInv'
<1>1. /\ UNCHANGED <<metadata, rows, wal, cleanup, cleaner, write, faults>>
      /\ At("setup") /\ NextStep /\ ThisStep.do = "create"
      /\ objects' = objects \cup {StepObject(ThisStep)}
  BY DEF CreateObject
<1>2. /\ Current \in Ops /\ Current \in 1..Current /\ {Source, Target} \subseteq Nodes
      /\ Source = placement[Coordinator] /\ Target # Source
      /\ move.step \in 1..Len(Steps)
      /\ move'.pc \in {"setup", "copy"} /\ move'.logical = move.logical
      /\ Registered /\ Registered' /\ ~At("idle") /\ ~At("idle")' /\ ~At("finalize")'
      /\ Current' = Current /\ Source' = Source /\ Target' = Target
      /\ \A o : Known(o)' = Known(o)
  BY <1>1, NextStepIs
<1>3. PICK step : step = ThisStep
  OBVIOUS
<1>4. /\ step.type = "slot" =>
           /\ replication'[Current].linked = replication[Current].linked
           /\ replication'[Current].start = Len(wal[Source])
           /\ replication'[Current].applied = Len(wal[Source])
      /\ step.type = "subscription" =>
           /\ replication'[Current].linked = Shards
           /\ replication'[Current].start = replication[Current].start
           /\ replication'[Current].applied = replication[Current].applied
      /\ step.type \notin {"slot", "subscription"} => replication' = replication
      /\ replication'[Current].enabled = replication[Current].enabled
      /\ \A o \in Ops : o # Current => replication'[o] = replication[o]
  <2>1. replication \in [Ops -> ReplicationStates]
    BY DEF TypeOK
  <2>2. CASE step.type = "slot"
    <3>1. replication' = [replication EXCEPT ![Current] =
                            [@ EXCEPT !.start = Len(wal[Source]), !.applied = Len(wal[Source])]]
      BY <1>3, <2>2 DEF CreateObject
    <3> QED
      BY <1>2, <2>1, <2>2, <3>1 DEF ReplicationStates
  <2>3. CASE step.type = "subscription"
    <3>1. replication' = [replication EXCEPT ![Current].linked = Shards]
      BY <1>3, <2>3 DEF CreateObject
    <3> QED
      BY <1>2, <2>1, <2>3, <3>1 DEF ReplicationStates
  <2>4. CASE step.type \notin {"slot", "subscription"}
    BY <1>3, <2>4 DEF CreateObject
  <2> QED
    BY <2>2, <2>3, <2>4
<1>5. /\ StepObject(step).type = step.type
      /\ step.type = "shard" => StepObject(step) = Table(step.name, Target)
      /\ step.type # "shard" => StepObject(step).name = Current
  BY <1>2, <1>3, StepTypes DEF ThisStep
<1>6. /\ step.type \in {"shard", "publication", "slot"} =>
           move.step - 1 \in 1..move.step - 1 /\ Steps[move.step - 1] = Step("record", step.type, step.name)
      /\ step.type # "shard" =>
           \A s \in Shards : \E j \in 1..move.step - 1 : Steps[j] = Step("create", "shard", s)
  <2>1. move.logical \in BOOLEAN
    BY DEF TypeOK, MoveStates
  <2>2. PICK i : i = move.step
    OBVIOUS
  <2>3. i \in 1..Len(Steps) /\ step = Steps[i] /\ step.do = "create" /\ Len(Steps) \in Nat
    BY <1>1, <1>2, <1>3, <2>1, <2>2, StepsAre DEF ThisStep
  <2>4. /\ step.type \in {"shard", "publication", "slot"} =>
             i > 1 /\ Steps[i - 1] = Step("record", step.type, step.name)
        /\ step.type # "shard" =>
             \A s \in Shards : \E j \in 1..i - 1 : Steps[j] = Step("create", "shard", s)
    BY <1>2, <2>1, <2>3, StepsAre
  <2> QED
    BY SMTT(30), Z3T(30), <2>2, <2>3, <2>4
<1>7. \A j \in 1..move.step - 1 : Done(Steps[j])
  BY <1>1 DEF SetupInv
<1>8. objects' = objects \cup {StepObject(step)}
  BY <1>1, <1>3
<1>9. MoveInv'
  BY <1>1, <1>2 DEF MoveInv
<1>10. RouterInv'
  BY <1>1, <1>2 DEF RouterInv, RouterOK
<1>11. WriteInv'
  BY <1>1 DEF WriteInv
<1>12. RecordInv'
  BY <1>1, <1>2 DEF RecordInv, RecordOK
<1>13. OpLockInv'
  BY <1>1, <1>2 DEF OpLockInv
<1>14. CleanerInv'
  <2>1. ASSUME NEW c \in Cleaners, NEW r \in cleaner[c].deleted PROVE r.object # StepObject(step)
    <3>1. r \in records /\ opLock[r.op] = c
      BY DEF CleanerInv, CleanerOK
    <3>2. r.op # Current
      BY <1>2, <3>1 DEF OpLockInv, Cleaners
    <3>3. r.object.type # "shard" /\ r.object.name = r.op
      BY <1>2, <3>1, <3>2 DEF RecordInv, RecordOK
    <3> QED
      BY <1>5, <3>2, <3>3
  <2> QED
    BY SMTT(30), Z3T(30), <1>1, <1>2, <1>8, <2>1 DEF CleanerInv, CleanerOK
<1>15. SetupInv'
  <2>1. /\ ThisStep.do # "record"
        /\ replication'[Current].linked \in {replication[Current].linked, Shards}
    BY <1>1, <1>3, <1>4
  <2> QED
    BY <1>1, <1>3, <1>4, <2>1, SetupAdvances
<1>16. LinkInv'
  <2>1. 1..Current \subseteq Ops /\ Known(Current)
    BY <1>2, OpsFacts DEF Known
  <2>2. ASSUME step.type = "subscription", NEW s \in Shards PROVE Table(s, ops[Current].target) \in objects
    <3>1. PICK j \in 1..move.step - 1 : Steps[j] = Step("create", "shard", s)
      BY <1>6, <2>2
    <3>2. Done(Step("create", "shard", s))
      BY <1>7, <3>1
    <3> QED
      BY <3>2 DEF Done, Step, StepObject, Target
  <2>3. ASSUME NEW o \in 1..Current, NEW s \in replication'[o].linked
        PROVE  Table(s, ops[o].target) \in objects
    BY <1>2, <1>4, <2>1, <2>2, <2>3 DEF LinkInv
  <2>4. \A o \in Ops : ~Known(o) => replication'[o] = NoReplication
    BY <1>4, <2>1 DEF LinkInv
  <2> QED
    BY <1>1, <1>2, <1>8, <2>3, <2>4 DEF LinkInv
<1>17. DataInv'
  BY <1>1 DEF DataInv, Committed
<1>18. CopyInv'
  <2>1. Len(wal[Source]) \in Nat
    BY <1>2, LenProperties DEF TypeOK
  <2> QED
    <3>1. /\ replication[Current].applied <= Len(wal[Source])
          /\ ~replication[Current].enabled /\ replication[Current].applied = replication[Current].start
      BY <1>1, <1>2 DEF CopyInv, At
    <3> QED
      BY SMTT(30), Z3T(30), <1>1, <1>2, <1>4, <2>1, <3>1, BeforeCopy
<1>19. LeftoversAreRecorded'
  <2>1. ASSUME step.type \in {"shard", "publication", "slot"} PROVE Recorded(StepObject(step))
    <3>1. Done(Step("record", step.type, step.name))
      BY <1>6, <1>7, <2>1
    <3> QED
      BY <3>1 DEF Done, Step, StepRecord, Record, StepObject, Recorded
  <2> QED
    BY <1>1, <1>5, <1>8, <2>1 DEF LeftoversAreRecorded, InUse, Recorded
<1> QED
  BY <1>9, <1>10, <1>11, <1>12, <1>13, <1>14, <1>15, <1>16, <1>17, <1>18, <1>19

\* The copy brings what had committed, but for what is in the log after the slot.
LEMMA CopyPreserves ==
  ASSUME IInv, TypeOK', CopyShardsToNode
  PROVE  IInv'
<1>1. UNCHANGED <<metadata, objects, wal, replication, cleanup, cleaner, write, faults>> /\ At("copy")
  BY DEF CopyShardsToNode
<1>2. move'.pc = (IF move.logical THEN "enable" ELSE "finalize") /\ move'.logical = move.logical
  BY <1>1 DEF CopyShardsToNode, TypeOK, MoveStates, At
<1>3. move.logical \in BOOLEAN /\ (move.pc \in {"enable", "position", "wait"} => move.logical)
  BY DEF TypeOK, MoveStates, MoveInv
<1>4. /\ Registered' /\ Registered /\ ~At("idle")' /\ ~At("idle")
      /\ ~At("setup") /\ ~At("setup")' /\ ~At("finalize")
  BY <1>1, <1>2, <1>3 DEF Registered, At
<1>5. /\ Current' = Current /\ Source' = Source /\ Target' = Target
      /\ \A o : Known(o)' = Known(o)
  BY <1>1, <1>4 DEF Known, Current, Source, Target
<1>6. /\ Current \in Ops /\ Current \in 1..Current /\ {Source, Target} \subseteq Nodes
      /\ Source = placement[Coordinator] /\ Target # Source
  BY <1>4, CurrentIs
<1>7. \A s \in Shards : \A n \in Nodes : \A v :
        v \in rows'[<<s, n>>] <=> IF n = Target THEN v \in SnapshotRows(s) ELSE v \in rows[<<s, n>>]
  BY DEF CopyShardsToNode, TypeOK
<1>8. \A s \in Shards : \A v : v \in rows'[<<s, Target>>] <=> v \in SnapshotRows(s)
  BY <1>6, <1>7
<1>9. MoveInv'
  BY <1>1, <1>2, <1>3, <1>4, <1>5 DEF MoveInv, At
<1>10. RouterInv'
  BY <1>1, <1>4, <1>5 DEF RouterInv, RouterOK
<1>11. WriteInv'
  BY <1>1 DEF WriteInv
<1>12. RecordInv'
  BY <1>1, <1>4, <1>5 DEF RecordInv, RecordOK
<1>13. OpLockInv'
  BY <1>1, <1>4, <1>5 DEF OpLockInv
<1>14. CleanerInv'
  BY <1>1, <1>5 DEF CleanerInv, CleanerOK
<1>15. SetupInv'
  BY <1>1, <1>2, <1>4, <1>5 DEF SetupInv
<1>16. LinkInv'
  <2>1. \A s \in Shards : Table(s, Target) \in objects
    BY <1>4 DEF SetupInv
  <2>2. ASSUME NEW s \in Shards, NEW n \in Nodes, rows'[<<s, n>>] # {} PROVE Table(s, n) \in objects
    BY <1>7, <2>1, <2>2 DEF LinkInv
  <2> QED
    BY <1>1, <1>5, <2>2 DEF LinkInv
<1>17. DataInv'
  <2>1. \A s \in Shards : \A v : v \in rows'[<<s, Source>>] <=> v \in rows[<<s, Source>>]
    BY <1>6, <1>7
  <2> QED
    BY <1>1, <1>6, <2>1 DEF DataInv, Committed
<1>18. CopyInv'
  <2> DEFINE repl == replication[Current]
  <2>1. repl.applied <= Len(wal[Source]) /\ repl.applied = repl.start
    BY <1>1, <1>4 DEF CopyInv, At
  <2>2. \A s \in Shards : Committed(s)' = Committed(s)
    BY <1>1 DEF Committed
  <2>3. \A s \in Shards : Committed(s) \subseteq rows[<<s, Source>>]
    BY <1>6 DEF DataInv
  <2>4. CASE move.logical
    <3>1. \A s \in Shards : \A v : v \in rows[<<s, Source>>] =>
            v \in SnapshotRows(s) \/ v \in LogAfter(repl.start)
      BY <2>4 DEF SnapshotRows, LogAfter
    <3>2. LogAfter(repl.start)' = LogAfter(repl.start) /\ replication'[Current'] = repl
      BY <1>1, <1>5 DEF LogAfter
    <3>3. \A s \in Shards : Committed(s)' \subseteq rows'[<<s, Target>>] \cup LogAfter(repl.start)
      <4>1. ASSUME NEW s \in Shards, NEW v \in Committed(s)
            PROVE  v \in rows'[<<s, Target>>] \/ v \in LogAfter(repl.start)
        <5>1. v \in rows[<<s, Source>>]
          BY <2>3
        <5> QED
          BY <1>8, <3>1, <5>1
      <4> QED
        BY <2>2, <4>1
    <3>4. move'.pc = "enable"
      BY <1>2, <2>4
    <3>5. ~replication'[Current'].enabled
      BY <1>1, <1>5 DEF CopyInv, At
    <3> QED
      BY <1>1, <1>5, <2>1, <3>2, <3>3, <3>4, <3>5 DEF CopyInv, At
  <2>5. CASE ~move.logical
    <3>1. \A s \in Shards : SnapshotRows(s) = rows[<<s, Source>>]
      BY <2>5 DEF SnapshotRows
    <3>2. \A s \in Shards : Committed(s)' \subseteq rows'[<<s, Target>>]
      <4>1. ASSUME NEW s \in Shards, NEW v \in Committed(s) PROVE v \in rows'[<<s, Target>>]
        <5>1. v \in rows[<<s, Source>>]
          BY <2>3
        <5> QED
          BY <1>8, <3>1, <5>1
      <4> QED
        BY <2>2, <4>1
    <3> QED
      BY <1>2, <1>5, <2>5, <3>2 DEF CopyInv, At
  <2> QED
    BY <1>3, <2>4, <2>5
<1>19. LeftoversAreRecorded'
  BY <1>1 DEF LeftoversAreRecorded, InUse, Recorded
<1> QED
  BY <1>9, <1>10, <1>11, <1>12, <1>13, <1>14, <1>15, <1>16, <1>17, <1>18, <1>19

\* A subscription that is enabled starts where its slot does.
LEMMA EnablePreserves ==
  ASSUME IInv, TypeOK', EnableSubscriptions
  PROVE  IInv'
<1>1. UNCHANGED <<metadata, objects, rows, wal, cleanup, cleaner, write, faults>> /\ At("enable")
  BY DEF EnableSubscriptions
<1>2. move'.pc = "position" /\ move'.logical = move.logical
  BY <1>1 DEF EnableSubscriptions, TypeOK, MoveStates, At
<1>3. move.logical \in BOOLEAN /\ (move.pc \in {"enable", "position", "wait"} => move.logical)
  BY DEF TypeOK, MoveStates, MoveInv
<1>4. /\ Registered' /\ Registered /\ ~At("idle")' /\ ~At("idle")
      /\ ~At("setup") /\ ~At("setup")' /\ ~At("finalize")
  BY <1>1, <1>2, <1>3 DEF Registered, At
<1>5. /\ Current' = Current /\ Source' = Source /\ Target' = Target
      /\ \A o : Known(o)' = Known(o)
  BY <1>1, <1>4 DEF Known, Current, Source, Target
<1>6. /\ Current \in Ops /\ Current \in 1..Current /\ {Source, Target} \subseteq Nodes
      /\ Source = placement[Coordinator] /\ Target # Source
  BY <1>4, CurrentIs
<1>7. /\ replication'[Current].linked = replication[Current].linked
      /\ replication'[Current].applied = replication[Current].applied
      /\ \A o \in Ops : o # Current => replication'[o] = replication[o]
  BY SMTT(30), Z3T(30), <1>6 DEF EnableSubscriptions, TypeOK, ReplicationStates
<1>8. MoveInv'
  BY <1>1, <1>2, <1>3, <1>4, <1>5 DEF MoveInv, At
<1>9. RouterInv'
  BY <1>1, <1>4, <1>5 DEF RouterInv, RouterOK
<1>10. WriteInv'
  BY <1>1 DEF WriteInv
<1>11. RecordInv'
  BY <1>1, <1>4, <1>5 DEF RecordInv, RecordOK
<1>12. OpLockInv'
  BY <1>1, <1>4, <1>5 DEF OpLockInv
<1>13. CleanerInv'
  BY <1>1, <1>5 DEF CleanerInv, CleanerOK
<1>14. SetupInv'
  BY <1>1, <1>2, <1>4, <1>5, <1>7 DEF SetupInv
<1>15. LinkInv'
  <2>1. 1..Current \subseteq Ops /\ Known(Current)
    BY <1>4, <1>6, OpsFacts DEF Known
  <2> QED
    BY <1>1, <1>5, <1>7, <2>1 DEF LinkInv
<1>16. DataInv'
  BY <1>1 DEF DataInv, Committed
<1>17. CopyInv'
  <2>1. /\ \A s \in Shards : Committed(s)' = Committed(s)
        /\ \A i : LogAfter(i)' = LogAfter(i)
    BY <1>1, <1>5 DEF Committed, LogAfter
  <2> QED
    BY <1>1, <1>2, <1>4, <1>5, <1>7, <2>1 DEF CopyInv, At
<1>18. LeftoversAreRecorded'
  BY <1>1 DEF LeftoversAreRecorded, InUse, Recorded
<1> QED
  BY <1>8, <1>9, <1>10, <1>11, <1>12, <1>13, <1>14, <1>15, <1>16, <1>17, <1>18

\* The end of the log is the position to wait for.
LEMMA PositionPreserves ==
  ASSUME IInv, TypeOK', GetRemoteLogPosition
  PROVE  IInv'
<1>1. UNCHANGED <<metadata, data, cleanup, cleaner, write, faults>> /\ At("position")
  BY DEF GetRemoteLogPosition
<1>2. move'.pc = "wait" /\ move'.logical = move.logical /\ move'.position = Len(wal[Source])
  BY <1>1 DEF GetRemoteLogPosition, TypeOK, MoveStates, At
<1>3. move.logical \in BOOLEAN /\ (move.pc \in {"enable", "position", "wait"} => move.logical)
  BY DEF TypeOK, MoveStates, MoveInv
<1>4. /\ Registered' /\ Registered /\ ~At("idle")' /\ ~At("idle")
      /\ ~At("setup") /\ ~At("setup")' /\ ~At("finalize")
  BY <1>1, <1>2, <1>3 DEF Registered, At
<1>5. /\ Current' = Current /\ Source' = Source /\ Target' = Target
      /\ \A o : Known(o)' = Known(o)
  BY <1>1, <1>4 DEF Known, Current, Source, Target
<1>6. /\ Current \in Ops /\ Current \in 1..Current /\ {Source, Target} \subseteq Nodes
      /\ Source = placement[Coordinator] /\ Target # Source
  BY <1>4, CurrentIs
<1>7. Len(wal[Source]) \in Nat
  BY <1>6, LenProperties DEF TypeOK
<1>8. MoveInv'
  BY <1>1, <1>2, <1>3, <1>4, <1>5 DEF MoveInv, At
<1>9. RouterInv'
  BY <1>1, <1>4, <1>5 DEF RouterInv, RouterOK
<1>10. WriteInv'
  BY <1>1 DEF WriteInv
<1>11. RecordInv'
  BY SMTT(30), Z3T(30), <1>1, <1>4, <1>5 DEF RecordInv, RecordOK
<1>12. OpLockInv'
  BY <1>1, <1>4, <1>5 DEF OpLockInv
<1>13. CleanerInv'
  BY <1>1, <1>5 DEF CleanerInv, CleanerOK
<1>14. SetupInv'
  BY <1>1, <1>2, <1>4, <1>5 DEF SetupInv
<1>15. LinkInv'
  BY <1>1, <1>5 DEF LinkInv
<1>16. DataInv'
  BY <1>1 DEF DataInv, Committed
<1>17. CopyInv'
  <2>1. /\ \A s \in Shards : Committed(s)' = Committed(s)
        /\ \A i : LogAfter(i)' = LogAfter(i)
    BY <1>1, <1>5 DEF Committed, LogAfter
  <2>2. LogAfter(Len(wal[Source])) = {}
    BY SMTT(30), Z3T(30), <1>7 DEF LogAfter
  <2> QED
    BY <1>1, <1>2, <1>4, <1>5, <2>1, <2>2 DEF CopyInv, At
<1>18. LeftoversAreRecorded'
  BY <1>1 DEF LeftoversAreRecorded, InUse, Recorded
<1> QED
  BY <1>8, <1>9, <1>10, <1>11, <1>12, <1>13, <1>14, <1>15, <1>16, <1>17, <1>18

\* Once writes were blocked and the log was waited for, nothing is missing.
LEMMA WaitPreserves ==
  ASSUME IInv, TypeOK', WaitForAllSubscriptionsToCatchUp
  PROVE  IInv'
<1>1. /\ UNCHANGED <<metadata, data, cleanup, cleaner, write, faults>>
      /\ At("wait") /\ replication[Current].applied >= move.position
  BY DEF WaitForAllSubscriptionsToCatchUp
<1>2. move'.pc = (IF move.locked = Routers THEN "finalize" ELSE "block") /\ move'.logical = move.logical
  BY <1>1 DEF WaitForAllSubscriptionsToCatchUp, TypeOK, MoveStates, At
<1>3. move.logical \in BOOLEAN /\ (move.pc \in {"enable", "position", "wait"} => move.logical)
  BY DEF TypeOK, MoveStates, MoveInv
<1>4. /\ Registered' /\ Registered /\ ~At("idle")' /\ ~At("idle")
      /\ ~At("setup") /\ ~At("setup")' /\ ~At("finalize")
  BY <1>1, <1>2, <1>3 DEF Registered, At
<1>5. /\ Current' = Current /\ Source' = Source /\ Target' = Target
      /\ \A o : Known(o)' = Known(o)
  BY <1>1, <1>4 DEF Known, Current, Source, Target
<1>6. /\ Current \in Ops /\ Current \in 1..Current /\ {Source, Target} \subseteq Nodes
      /\ Source = placement[Coordinator] /\ Target # Source
  BY <1>4, CurrentIs
<1>7. Len(wal[Source]) \in Nat /\ replication[Current].applied \in Nat /\ move.position \in Nat
  BY <1>6, LenProperties DEF TypeOK, ReplicationStates, MoveStates
<1>8. MoveInv'
  BY <1>1, <1>2, <1>3, <1>4, <1>5 DEF MoveInv, At
<1>9. RouterInv'
  BY <1>1, <1>4, <1>5 DEF RouterInv, RouterOK
<1>10. WriteInv'
  BY <1>1 DEF WriteInv
<1>11. RecordInv'
  BY <1>1, <1>4, <1>5 DEF RecordInv, RecordOK
<1>12. OpLockInv'
  BY <1>1, <1>4, <1>5 DEF OpLockInv
<1>13. CleanerInv'
  BY <1>1, <1>5 DEF CleanerInv, CleanerOK
<1>14. SetupInv'
  BY <1>1, <1>2, <1>3, <1>4, <1>5 DEF SetupInv
<1>15. LinkInv'
  BY <1>1, <1>5 DEF LinkInv
<1>16. DataInv'
  BY <1>1 DEF DataInv, Committed
<1>17. CopyInv'
  <2> DEFINE i == replication[Current].applied
  <2>1. /\ \A s \in Shards : Committed(s)' = Committed(s)
        /\ LogAfter(i)' = LogAfter(i)
        /\ Blocked' = Blocked
    BY <1>1, <1>5 DEF Committed, LogAfter, Blocked
  <2>2. \A s \in Shards : Committed(s) \subseteq rows[<<s, Target>>] \cup LogAfter(i)
    BY <1>1 DEF CopyInv, At
  <2>3. i <= Len(wal[Source])
    BY <1>1, <1>4 DEF CopyInv
  <2>4. CASE move.locked = Routers
    <3>1. LogAfter(i) \subseteq LogAfter(move.position)
      <4>1. \A j \in i + 1 .. Len(wal[Source]) : j \in move.position + 1 .. Len(wal[Source])
        BY SMTT(30), Z3T(30), <1>1, <1>7
      <4> QED
        BY <4>1 DEF LogAfter
    <3>2. Blocked => \A w \in LogAfter(i) : write[w].pc # "committed"
      BY <1>1, <2>4, <3>1 DEF CopyInv, At
    <3>3. Blocked => \A s \in Shards : Committed(s) \subseteq rows[<<s, Target>>]
      BY <2>2, <3>2 DEF Committed
    <3> QED
      BY <1>1, <1>2, <1>5, <2>1, <2>4, <3>3 DEF CopyInv, At
  <2>5. CASE move.locked # Routers
    BY <1>1, <1>2, <1>5, <2>1, <2>2, <2>3, <2>5 DEF CopyInv, At
  <2> QED
    BY <2>4, <2>5
<1>18. LeftoversAreRecorded'
  BY <1>1 DEF LeftoversAreRecorded, InUse, Recorded
<1> QED
  BY <1>8, <1>9, <1>10, <1>11, <1>12, <1>13, <1>14, <1>15, <1>16, <1>17, <1>18

\* After the copy the new placement is complete if writes are blocked.
LEMMA AfterCopy ==
  ASSUME move'.pc = "finalize",
         Blocked' => \A s \in Shards : Committed(s)' \subseteq rows'[<<s, Target'>>]
  PROVE  CopyInv'
BY DEF CopyInv, Registered, At

\* A move that has copied the shards drops none of them.
LEMMA FinalizePreserves ==
  ASSUME IInv, TypeOK', FinalizeOperationNeedingCleanupOnSuccess
  PROVE  IInv'
<1>1. PICK r \in First(ToFinalize) : FinalizeRecord(r)
  BY DEF FinalizeOperationNeedingCleanupOnSuccess
<1>2. UNCHANGED <<metadata, opLock, cleaner, write>> /\ At("finalize")
  BY SMTT(30), Z3T(30), <1>1 DEF FinalizeRecord, FinalizeOperationNeedingCleanupOnSuccess
<1>3. move'.pc = "finalize" /\ move'.logical = move.logical
  BY <1>1, <1>2 DEF FinalizeRecord, TypeOK, MoveStates, At
<1>4. /\ Registered' /\ Registered /\ ~At("idle")' /\ ~At("idle")
      /\ ~At("setup") /\ ~At("setup")' /\ At("finalize")'
  BY <1>2, <1>3 DEF Registered, At
<1>5. /\ Current' = Current /\ Source' = Source /\ Target' = Target
      /\ \A o : Known(o)' = Known(o)
  BY <1>2, <1>4 DEF Known, Current, Source, Target
<1>6. /\ Current \in Ops /\ Current \in 1..Current /\ {Source, Target} \subseteq Nodes
      /\ Source = placement[Coordinator]
  BY <1>4, CurrentIs
<1>7. /\ r \in records /\ r.op = Current /\ r.object \in AllObjects
      /\ r.object.type # "shard" /\ r.object.name = Current
  BY DEF First, ToFinalize, RecordInv, RecordOK, TypeOK, AllRecords
<1>8. \/ Drop(r.object) /\ records' = records \ {r}
      \/ UNCHANGED <<data, records>>
  BY <1>1 DEF FinalizeRecord
<1>9. \A s : \A n : Table(s, n) # r.object
  BY SMTT(30), Z3T(30), <1>7 DEF Table, Object
<1>10. /\ objects \ {r.object} \subseteq objects' /\ objects' \subseteq objects
       /\ records' \subseteq records /\ \A q \in records : q # r => q \in records'
       /\ r \in records' => objects' = objects
       /\ r \notin records' => r.object \notin objects'
       /\ wal' = wal
  BY <1>7, <1>8 DEF Drop
<1>11. /\ \A s \in Shards : \A n \in Nodes : \A v : v \in rows'[<<s, n>>] <=> v \in rows[<<s, n>>]
       /\ \A o \in 1..Current :
            /\ replication'[o].linked \subseteq replication[o].linked
            /\ replication[o] = NoReplication => replication'[o] = NoReplication
       /\ \A o \in Ops \ 1..Current : replication'[o] = replication[o]
  <2>1. CASE Drop(r.object)
    <3>1. \A s \in Shards : \A n \in Nodes : \A v :
            v \in rows'[<<s, n>>] <=> v \in rows[<<s, n>>] /\ Table(s, n) # r.object
      BY <1>7, <2>1, DropEffect
    <3>2. \A o \in 1..Current :
            /\ replication'[o].linked \subseteq replication[o].linked
            /\ replication[o] = NoReplication => replication'[o] = NoReplication
      BY <1>7, <2>1, DropEffect
    <3>3. \A o \in Ops \ 1..Current : replication'[o] = replication[o]
      BY <1>7, <2>1, DropEffect
    <3> QED
      BY <1>9, <3>1, <3>2, <3>3
  <2>2. CASE UNCHANGED data
    BY <2>2
  <2> QED
    BY <1>8, <2>1, <2>2
<1>12. \A s : \A n : Table(s, n) \in objects => Table(s, n) \in objects'
  BY <1>9, <1>10
<1>13. \A s \in Shards : Committed(s)' = Committed(s)
  BY <1>2 DEF Committed
<1>14. MoveInv'
  BY <1>2, <1>3, <1>4, <1>5 DEF MoveInv
<1>15. RouterInv'
  BY <1>2, <1>4, <1>5 DEF RouterInv, RouterOK
<1>16. WriteInv'
  BY <1>2, <1>10 DEF WriteInv
<1>17. RecordInv'
  BY <1>2, <1>4, <1>5, <1>10 DEF RecordInv, RecordOK
<1>18. OpLockInv'
  BY <1>2, <1>4, <1>5 DEF OpLockInv
<1>19. CleanerInv'
  <2>1. ASSUME NEW c \in Cleaners, NEW q \in cleaner[c].current \cup cleaner[c].deleted PROVE q # r
    BY <1>4, <1>7 DEF CleanerInv, CleanerOK, OpLockInv, Cleaners
  <2> QED
    BY <1>2, <1>5, <1>10, <2>1 DEF CleanerInv, CleanerOK
<1>20. SetupInv'
  BY <1>2, <1>4, <1>5, <1>12 DEF SetupInv
<1>21. LinkInv'
  <2>1. ASSUME NEW s \in Shards, NEW n \in Nodes, rows'[<<s, n>>] # {} PROVE Table(s, n) \in objects
    <3>1. PICK v : v \in rows'[<<s, n>>]
      BY <2>1
    <3>2. v \in rows[<<s, n>>]
      BY <1>11, <3>1
    <3> QED
      BY <3>2 DEF LinkInv
  <2>2. \A o \in 1..Current : \A s \in replication'[o].linked : Table(s, ops[o].target) \in objects
    BY <1>11 DEF LinkInv
  <2>3. \A o \in Ops : ~Known(o) => replication'[o] = NoReplication
    BY <1>11 DEF LinkInv
  <2> QED
    BY <1>2, <1>5, <1>12, <2>1, <2>2, <2>3 DEF LinkInv
<1>22. DataInv'
  <2>1. \A s \in Shards : Committed(s) \subseteq rows[<<s, Source>>] /\ Table(s, Source) \in objects
    BY <1>6 DEF DataInv
  <2>2. \A s \in Shards : Committed(s) \subseteq rows'[<<s, Source>>]
    BY <1>6, <1>11, <2>1
  <2> QED
    BY <1>2, <1>6, <1>12, <1>13, <2>1, <2>2 DEF DataInv
<1>23. CopyInv'
  <2>1. Blocked' = Blocked
    BY <1>2, <1>5 DEF Blocked
  <2>2. Blocked => \A s \in Shards : Committed(s) \subseteq rows[<<s, Target>>]
    BY <1>2 DEF CopyInv
  <2>3. Blocked => \A s \in Shards : Committed(s) \subseteq rows'[<<s, Target>>]
    BY <1>6, <1>11, <2>2
  <2> QED
    BY <1>3, <1>5, <1>13, <2>1, <2>3, AfterCopy
<1>24. LeftoversAreRecorded'
  <2>1. ASSUME NEW object \in objects', object.type \in {"shard", "slot", "publication"}, ~InUse(object)
        PROVE  Recorded(object)'
    <3>1. PICK q \in records : q.object = object
      BY <1>10, <2>1 DEF LeftoversAreRecorded, Recorded
    <3>2. q \in records'
      BY <1>10, <3>1
    <3> QED
      BY <3>1, <3>2 DEF Recorded
  <2> QED
    BY <1>2, <2>1 DEF LeftoversAreRecorded, InUse
<1> QED
  BY <1>14, <1>15, <1>16, <1>17, <1>18, <1>19, <1>20, <1>21, <1>22, <1>23, <1>24

\* The commit makes the new placement the one in use, and leaves a record of the old one.
LEMMA CommitPreserves ==
  ASSUME IInv, TypeOK', CommitMove
  PROVE  IInv'
<1>1. /\ UNCHANGED <<data, cleaner, write, faults>> /\ At("finalize")
      /\ \A r \in Routers : exclusive[r] = Current
      /\ At("idle")' /\ move'.pc = "idle" /\ ~Registered'
  BY DEF CommitMove, IdleMove, At, Registered
<1>2. Registered /\ ~At("idle") /\ ~At("setup")
  BY <1>1 DEF Registered, At
<1>3. /\ Current \in Ops /\ Current \in 1..Current /\ {Source, Target} \subseteq Nodes
      /\ Source = placement[Coordinator] /\ Target # Source /\ Current # None
  BY SMTT(30), Z3T(30), <1>2, CurrentIs DEF Ops, None
<1>4. /\ Current' = Current
      /\ \A o \in 1..Current : /\ ops'[o].source = ops[o].source /\ ops'[o].target = ops[o].target
                               /\ ops'[o].outcome = IF o = Current THEN "committed" ELSE ops[o].outcome
  BY <1>3, OutcomeChange DEF CommitMove
<1>5. /\ placement'[Coordinator] = Target
      /\ exclusive'[Coordinator] = None /\ \A r \in Routers : r # Coordinator => exclusive'[r] = Current
  BY <1>1, RouterFacts DEF CommitMove, TypeOK
<1>6. opLock'[Current] = "none" /\ \A o \in Ops : o # Current => opLock'[o] = opLock[o]
  BY SMTT(30), Z3T(30), <1>3 DEF CommitMove, TypeOK
<1>7. /\ \A o : Known(o) => Known(o)'
      /\ Known(Current)'
  BY <1>1, <1>3, <1>4 DEF Known
<1>8. /\ \A r \in records' :
           \/ r \in records /\ ~(r.op = Current /\ r.policy = "on_failure")
           \/ \E s \in Shards : r = Record(Current, Table(s, Source), "deferred")
      /\ \A s \in Shards : Record(Current, Table(s, Source), "deferred") \in records'
      /\ \A r \in records : ~(r.op = Current /\ r.policy = "on_failure") => r \in records'
  BY DEF CommitMove, DeletedRecords, InsertCleanupRecordsForShardPlacementsOnNode
<1>9. Target = ops[Current].target
  BY DEF Target
<1>10. MoveInv'
  BY SMTT(30), Z3T(30), <1>1, <1>3, <1>4 DEF MoveInv
<1>11. RouterInv'
  <2>1. ASSUME NEW r \in Routers PROVE RouterOK(r)'
    BY <1>3, <1>4, <1>5, <1>9 DEF RouterOK
  <2> QED
    BY <1>5, <2>1 DEF RouterInv
<1>12. WriteInv'
  <2>1. \A w \in Writes : write[w].router \in Routers
    BY DEF TypeOK, WriteStates
  <2>2. \A w \in Writes : write[w].pc # "executing"
    BY <1>1, <1>3, <2>1 DEF WriteInv
  <2> QED
    BY <1>1, <2>2 DEF WriteInv
<1>13. RecordInv'
  <2>1. ASSUME NEW r \in records, r \in records', ~(r.op = Current /\ r.policy = "on_failure")
        PROVE  RecordOK(r)'
    <3>1. RecordOK(r) /\ r.object.type # "shard"
      BY <1>2, <2>1 DEF RecordInv, RecordOK
    <3> QED
      BY <1>7, <3>1 DEF RecordOK
  <2>2. ASSUME NEW r \in records' PROVE RecordOK(r)'
    <3>1. CASE r \in records /\ ~(r.op = Current /\ r.policy = "on_failure")
      BY <2>1, <3>1
    <3>2. CASE \E s \in Shards : r = Record(Current, Table(s, Source), "deferred")
      <4>1. r.op = Current /\ r.policy = "deferred" /\ r.object.type = "shard" /\ r.object.node = Source
        BY SMTT(30), Z3T(30), <3>2 DEF Record, Table, Object
      <4> QED
        BY <1>1, <1>3, <1>4, <1>5, <1>7, <4>1 DEF RecordOK
    <3> QED
      BY <1>8, <3>1, <3>2
  <2> QED
    BY <2>2 DEF RecordInv
<1>14. OpLockInv'
  BY <1>1, <1>6, <1>7 DEF OpLockInv, Cleaners
<1>15. CleanerInv'
  <2>1. ASSUME NEW c \in Cleaners, NEW r \in cleaner[c].current \cup cleaner[c].deleted
        PROVE  r \in records' /\ opLock'[r.op] = c
    <3>1. r \in records /\ opLock[r.op] = c /\ r.op \in Ops
      BY SMTT(30), Z3T(30) DEF CleanerInv, CleanerOK, TypeOK, AllRecords
    <3>2. r.op # Current
      BY <1>2, <3>1 DEF OpLockInv, Cleaners
    <3> QED
      BY <1>6, <1>8, <3>1, <3>2
  <2> QED
    BY <1>1, <1>7, <2>1 DEF CleanerInv, CleanerOK
<1>16. SetupInv'
  BY <1>1 DEF SetupInv, At
<1>17. LinkInv'
  BY <1>1, <1>4, <1>7 DEF LinkInv
<1>18. DataInv'
  <2>1. \A s \in Shards : Table(s, Target) \in objects
    BY <1>2 DEF SetupInv
  <2>2. \A s \in Shards : Committed(s) \subseteq rows[<<s, Target>>]
    BY <1>1 DEF CopyInv, Blocked
  <2>3. \A s \in Shards : Committed(s)' = Committed(s)
    BY <1>1 DEF Committed
  <2> QED
    BY <1>1, <1>5, <2>1, <2>2, <2>3 DEF DataInv
<1>19. CopyInv'
  BY <1>1 DEF CopyInv, At
<1>20. LeftoversAreRecorded'
  <2>1. ASSUME NEW object \in objects, object.type \in {"shard", "slot", "publication"}
        PROVE  InUse(object)' \/ Recorded(object)'
    <3>1. CASE InUse(object)
      <4>1. PICK s \in Shards : object = Table(s, Source)
        BY <1>3, <3>1 DEF InUse
      <4>2. Record(Current, Table(s, Source), "deferred").object = object
        BY <4>1 DEF Record
      <4> QED
        BY <1>8, <4>2 DEF Recorded
    <3>2. CASE Recorded(object)
      <4>1. PICK r \in records : r.object = object
        BY <3>2 DEF Recorded
      <4>2. CASE r.op = Current /\ r.policy = "on_failure"
        <5>1. object.type = "shard" /\ object.node = Target
          BY <1>9, <4>1, <4>2 DEF RecordInv, RecordOK
        <5>2. object.name \in Shards /\ object = Table(object.name, Target)
          <6>1. object \in [type : {"shard"}, name : Shards, node : Nodes]
            <7>1. object \in AllObjects
              BY DEF TypeOK
            <7> QED
              BY <5>1, <7>1 DEF AllObjects
          <6> QED
            BY <5>1, <6>1 DEF Table, Object
        <5> QED
          BY <1>5, <5>2 DEF InUse
      <4>3. CASE ~(r.op = Current /\ r.policy = "on_failure")
        BY <1>8, <4>1, <4>3 DEF Recorded
      <4> QED
        BY <4>2, <4>3
    <3> QED
      BY <2>1, <3>1, <3>2 DEF LeftoversAreRecorded
  <2> QED
    BY <1>1, <2>1 DEF LeftoversAreRecorded
<1> QED
  BY <1>10, <1>11, <1>12, <1>13, <1>14, <1>15, <1>16, <1>17, <1>18, <1>19, <1>20

-----------------------------------------------------------------------------
(* The theorems                                                            *)

\* At first there is no move, no record and no row.
LEMMA InitInv == Init => IInv
<1> SUFFICES ASSUME Init PROVE IInv
  OBVIOUS
<1>1. TypeOK
  BY TypeInit
<1>2. ops = <<>> /\ Current = 0 /\ 1..Current = {} /\ move.pc = "idle"
  BY SMTT(30), Z3T(30) DEF Init, Current, IdleMove
<1>3. At("idle") /\ ~Registered /\ \A o : ~Known(o)
  BY <1>2 DEF At, Registered, Known
<1>4. MoveInv
  BY <1>2, <1>3 DEF MoveInv
<1>5. RouterInv
  BY RouterFacts DEF Init, RouterInv, RouterOK
<1>6. WriteInv
  <2>1. \A n \in Nodes : wal[n] = <<>>
    BY DEF Init
  <2>2. \A n \in Nodes : \A i \in 1..Len(wal[n]) : FALSE
    BY SMTT(30), Z3T(30), <2>1, EmptySeq
  <2> QED
    BY <2>2 DEF Init, WriteInv, Ended
<1>7. RecordInv
  BY DEF Init, RecordInv
<1>8. OpLockInv
  BY <1>3 DEF Init, OpLockInv, Cleaners
<1>9. CleanerInv
  BY DEF Init, CleanerInv, CleanerOK, IdleCleaner
<1>10. SetupInv
  BY <1>2, <1>3 DEF SetupInv, At
<1>11. LinkInv
  BY <1>2 DEF Init, LinkInv
<1>12. DataInv
  BY RouterFacts DEF Init, DataInv, Committed, Ended
<1>13. CopyInv
  BY <1>2, <1>3 DEF CopyInv, At
<1>14. LeftoversAreRecorded
  BY RouterFacts DEF Init, LeftoversAreRecorded, InUse
<1> QED
  BY <1>1, <1>4, <1>5, <1>6, <1>7, <1>8, <1>9, <1>10, <1>11, <1>12, <1>13, <1>14

\* Every step of the move, whoever else does something meanwhile.
LEMMA MovePreserves == ASSUME IInv, TypeOK', MoveStep PROVE IInv'
<1>1. ASSUME NEW r \in Routers, BlockWritesToShardList(r) PROVE IInv'
  BY <1>1, BlockPreserves
<1>2. CASE DropOrphanedResourcesInSeparateTransaction
  BY <1>2, CallCleanupPreserves
<1>3. CASE CleanupFailed \/ PrepareMoveFails
  BY <1>3, AbortingSteps, AbortPreserves
<1>4. CASE RegisterOperationNeedingCleanup
  BY <1>4, RegisterPreserves
<1>5. CASE InsertCleanupRecordOutsideTransaction
  BY <1>5, InsertRecordPreserves
<1>6. CASE CreateObject
  BY <1>6, CreateObjectPreserves
<1>7. CASE CopyShardsToNode
  BY <1>7, CopyPreserves
<1>8. CASE EnableSubscriptions
  BY <1>8, EnablePreserves
<1>9. CASE GetRemoteLogPosition
  BY <1>9, PositionPreserves
<1>10. CASE WaitForAllSubscriptionsToCatchUp
  BY <1>10, WaitPreserves
<1>11. CASE FinalizeOperationNeedingCleanupOnSuccess
  BY <1>11, FinalizePreserves
<1>12. CASE CommitMove
  BY <1>12, CommitPreserves
<1> QED
  BY <1>1, <1>2, <1>3, <1>4, <1>5, <1>6, <1>7, <1>8, <1>9, <1>10, <1>11, <1>12 DEF MoveStep

\* Every step of the system.
LEMMA NextPreserves == ASSUME IInv, Next PROVE IInv'
<1>0. TypeOK'
  BY TypeStep
<1>1. ASSUME NEW n \in Nodes, NEW logical \in BOOLEAN, TransferShards(n, logical) PROVE IInv'
  BY <1>0, <1>1, TransferPreserves
<1>2. CASE MoveStep
  BY <1>0, <1>2, MovePreserves
<1>3. CASE MoveFails
  BY <1>0, <1>3, AbortingSteps, AbortPreserves
<1>4. ASSUME NEW n \in MetadataNodes, EndMoveOnWorker(n) \/ WorkerCrash(n) PROVE IInv'
  BY <1>0, <1>4, EndMovePreserves, WorkerCrashPreserves
<1>5. ASSUME NEW o \in DOMAIN ops, ApplyChange(o) PROVE IInv'
  BY <1>0, <1>5, OpsFacts, ApplyPreserves
<1>6. ASSUME NEW c \in Cleaners, CleanerStep(c) PROVE IInv'
  BY <1>0, <1>6, ListPreserves, TryLockPreserves, TryDropPreserves, CommitCleanupPreserves DEF CleanerStep
<1>7. ASSUME NEW c \in Cleaners, CleanupFails(c) PROVE IInv'
  <2>1. CASE c = "call" /\ At("cleaning")
    BY <1>0, <1>7, <2>1, AbortingSteps, AbortPreserves
  <2>2. CASE ~(c = "call" /\ At("cleaning"))
    BY <1>0, <1>7, <2>2, CleanerAbortPreserves
  <2> QED
    BY <2>1, <2>2
<1>8. ASSUME NEW w \in Writes, NEW r \in Routers, CitusBeginModifyScan(w, r) PROVE IInv'
  BY <1>0, <1>8, BeginPreserves
<1>9. ASSUME NEW w \in Writes,
             CommitWrite(w) \/ AbortWrite(w) \/ CommitPreparedLost(w) \/ RecoverWrite(w)
      PROVE  IInv'
  BY <1>0, <1>9, CommitWritePreserves, AbortWritePreserves, CommitPreparedLostPreserves, RecoverWritePreserves
<1>10. CASE CoordinatorCrash
  <2>1. CASE At("idle")
    BY <1>0, <1>10, <2>1, CrashPreserves
  <2>2. CASE ~At("idle")
    BY <1>0, <1>10, <2>2, AbortingSteps, AbortPreserves
  <2> QED
    BY <2>1, <2>2
<1> QED
  BY <1>1, <1>2, <1>3, <1>4, <1>5, <1>6, <1>7, <1>8, <1>9, <1>10 DEF Next

\* IInv depends on nothing but the variables.
LEMMA StutterPreserves == ASSUME IInv, UNCHANGED vars PROVE IInv'
<1>1. TypeOK'
  BY DEF vars, TypeOK
<1>2. MoveInv' /\ RouterInv' /\ WriteInv'
  BY DEF vars, MoveInv, RouterInv, RouterOK, WriteInv, At, Current, Source, Target
<1>3. RecordInv' /\ OpLockInv' /\ CleanerInv'
  BY SMTT(30), Z3T(30) DEF vars, RecordInv, RecordOK, OpLockInv, CleanerInv, CleanerOK, Known, Registered, At, Current
<1>4. SetupInv'
  BY SetupKept DEF vars
<1>5. LinkInv' /\ DataInv'
  BY DEF vars, LinkInv, DataInv, Committed, Known, Registered, At, Current
<1>6. CopyInv'
  BY SMTT(30), Z3T(30) DEF vars, CopyInv, Registered, At, Current, Source, Target, LogAfter, Blocked, Committed
<1>7. LeftoversAreRecorded'
  BY DEF vars, LeftoversAreRecorded, InUse, Recorded
<1> QED
  BY <1>1, <1>2, <1>3, <1>4, <1>5, <1>6, <1>7

\* The inductive invariant: whatever moves, cleaners, writers and restarts do in whatever
\* order, locks, records, logs and placements agree as ShardMoveInv says.
THEOREM Invariance == Spec => []IInv
<1>1. Init => IInv
  BY InitInv
<1>2. IInv /\ [Next]_vars => IInv'
  BY NextPreserves, StutterPreserves
<1> QED
  BY <1>1, <1>2, PTL DEF Spec

\* Every variable keeps its type: a router always has a placement to route to
\* (EndMoveOnWorker), and no record names an object that cannot exist.
THEOREM TypeCorrect == Spec => []TypeOK
<1>1. IInv => TypeOK
  OBVIOUS
<1> QED
  BY <1>1, Invariance, PTL

\* Whenever a router lets writes through, the placements it routes to exist and have every
\* row that any router has committed (BlockWritesToShardList, CitusBeginModifyScan,
\* DropOrphanedResourcesForCleanup), for any number of nodes, shards, writes and moves.
THEOREM NoCommittedWriteIsLost == Spec => []NoWriteLeftBehind
<1>1. IInv => NoWriteLeftBehind
  <2> SUFFICES ASSUME IInv, NEW r \in Routers, exclusive[r] = None, NEW s \in Shards
               PROVE  /\ Table(s, placement[r]) \in objects
                      /\ \A w \in Writes :
                            write[w].pc = "committed" /\ ShardOf[w] = s => w \in rows[<<s, placement[r]>>]
    BY DEF NoWriteLeftBehind, Complete
  <2>1. placement[r] = placement[Coordinator]
    BY DEF RouterInv, RouterOK
  <2>2. Table(s, placement[Coordinator]) \in objects /\ Committed(s) \subseteq rows[<<s, placement[Coordinator]>>]
    BY DEF DataInv
  <2> QED
    BY <2>1, <2>2 DEF Committed
<1> QED
  BY <1>1, Invariance, PTL

\* Whatever crashes when, a shard table, slot or publication that is not the placement in
\* use has a cleanup record (InsertCleanupRecordOutsideTransaction before the creation,
\* InsertCleanupRecordsForShardPlacementsOnNode with the new metadata).
THEOREM NothingIsForgotten == Spec => []LeftoversAreRecorded
<1>1. IInv => LeftoversAreRecorded
  OBVIOUS
<1> QED
  BY <1>1, Invariance, PTL
=============================================================================
