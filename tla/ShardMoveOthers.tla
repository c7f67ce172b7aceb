--------------------------- MODULE ShardMoveOthers ---------------------------
(***************************************************************************)
(* The cleaners, the workers and the first steps of a move keep the        *)
(* inductive invariant of ShardMove, whatever else goes on meanwhile.      *)
(***************************************************************************)
EXTENDS ShardMoveSteps

USE DEF IInv, data, metadata, cleanup
\* The provers of the leaves that name none: Zenon, then Z3.
USE ZenonT(30), Z3T(30)

\* A cleaner lists records of operations that have registered.
LEMMA ListPreserves ==
  ASSUME IInv, TypeOK', NEW c \in Cleaners, ListCleanupRecords(c)
  PROVE  IInv'
<1>1. MoveInv'
  BY DEF ListCleanupRecords, MoveInv, At, Current, Source, Target
<1>2. RouterInv'
  BY DEF ListCleanupRecords, RouterInv, RouterOK, At, Current
<1>3. WriteInv'
  BY DEF ListCleanupRecords, WriteInv
<1>4. RecordInv'
  BY DEF ListCleanupRecords, RecordInv, RecordOK, Known, Registered, At, Current
<1>5. OpLockInv'
  BY DEF ListCleanupRecords, OpLockInv, Known, Registered, At, Current
<1>6. CleanerInv'
  <2>1. cleaner'[c].list = records /\ cleaner'[c].current = {} /\ cleaner'[c].deleted = {}
    BY DEF ListCleanupRecords, TypeOK, IdleCleaner
  <2>2. \A d \in Cleaners : d # c => cleaner'[d] = cleaner[d]
    BY DEF ListCleanupRecords, TypeOK
  <2>3. UNCHANGED <<ops, move, records, opLock, objects>>
    BY DEF ListCleanupRecords
  <2> QED
    BY SMTT(30), Z3T(30), <2>1, <2>2, <2>3 DEF CleanerInv, CleanerOK, RecordInv, RecordOK, Known, Registered, At, Current
<1>7. SetupInv'
  BY SetupKept DEF ListCleanupRecords
<1>8. LinkInv'
  BY DEF ListCleanupRecords, LinkInv, Known, Registered, At, Current
<1>9. DataInv'
  BY DEF ListCleanupRecords, DataInv, Committed
<1>10. CopyInv'
  BY SMTT(30), Z3T(30) DEF ListCleanupRecords, CopyInv, Registered, At, Current, Source, Target, LogAfter, Blocked, Committed
<1>11. LeftoversAreRecorded'
  BY DEF ListCleanupRecords, LeftoversAreRecorded, InUse, Recorded
<1> QED
  BY <1>1, <1>2, <1>3, <1>4, <1>5, <1>6, <1>7, <1>8, <1>9, <1>10, <1>11

\* A cleaner locks an operation only if nobody else has, and trusts only records that are still there.
LEMMA TryLockPreserves ==
  ASSUME IInv, TypeOK', NEW c \in Cleaners, TryLockOperationId(c)
  PROVE  IInv'
<1>1. PICK r \in First(cleaner[c].list) : LockRecord(c, r)
  BY DEF TryLockOperationId
<1>2. r \in cleaner[c].list /\ r \in AllRecords /\ r.op \in Ops /\ Known(r.op)
  BY SMTT(30), Z3T(30) DEF First, TypeOK, CleanerStates, AllRecords, CleanerInv, CleanerOK
<1>3. UNCHANGED <<metadata, data, records, move, write, faults>>
  BY <1>1 DEF LockRecord
<1>4. /\ \A o \in Ops : o # r.op => opLock'[o] = opLock[o]
      /\ opLock'[r.op] = IF opLock[r.op] \in {"none", c} THEN c ELSE opLock[r.op]
  BY <1>1, <1>2 DEF LockRecord, CanLockOperationId, TypeOK
<1>5. /\ cleaner'[c].list \subseteq cleaner[c].list /\ cleaner'[c].deleted = cleaner[c].deleted
      /\ \A q \in cleaner'[c].current : q = r /\ r \in records /\ opLock[r.op] \in {"none", c}
  BY <1>1 DEF LockRecord, CanLockOperationId, CleanupRecordExists, TypeOK
<1>6. \A d \in Cleaners : d # c => cleaner'[d] = cleaner[d]
  BY <1>1 DEF LockRecord, TypeOK
<1>7. c # "move" /\ c # "none"
  BY DEF Cleaners
<1>8. (\A o : Known(o)' = Known(o)) /\ Registered' = Registered /\ Current' = Current
  BY <1>3 DEF Known, Registered, At, Current
<1>9. MoveInv'
  BY <1>3 DEF MoveInv, At, Current, Source, Target
<1>10. RouterInv'
  BY <1>3 DEF RouterInv, RouterOK, At, Current
<1>11. WriteInv'
  BY <1>3 DEF WriteInv
<1>12. RecordInv'
  BY <1>3 DEF RecordInv, RecordOK, Known, Registered, At, Current
<1>13. OpLockInv'
  <2>1. \A o \in Ops : opLock'[o] = opLock[o] \/ (o = r.op /\ opLock[o] = "none" /\ opLock'[o] = c)
    BY <1>2, <1>4
  <2>2. Registered => Current \in Ops
    BY CurrentIs DEF Registered, At
  <2> QED
    BY <1>2, <1>7, <1>8, <2>1, <2>2 DEF OpLockInv
<1>14. CleanerInv'
  <2>2. CleanerOK(c)'
    BY SMTT(30), Z3T(30), <1>2, <1>3, <1>4, <1>5, <1>8 DEF CleanerInv, CleanerOK, TypeOK, CleanerStates, AllRecords
  <2>3. ASSUME NEW d \in Cleaners, d # c PROVE CleanerOK(d)'
    <3>1. \A o \in Ops : opLock[o] = d => opLock'[o] = d
      BY <1>2, <1>4, <1>7, <2>3 DEF Cleaners
    <3> QED
      BY SMTT(30), Z3T(30), <1>3, <1>6, <1>8, <2>3, <3>1 DEF CleanerInv, CleanerOK, TypeOK, CleanerStates, AllRecords
  <2> QED
    BY <2>2, <2>3 DEF CleanerInv
<1>15. SetupInv'
  BY <1>3, SetupKept
<1>16. LinkInv'
  BY <1>3 DEF LinkInv, Known, Registered, At, Current
<1>17. DataInv'
  BY <1>3 DEF DataInv, Committed
<1>18. CopyInv'
  BY SMTT(30), Z3T(30), <1>3 DEF CopyInv, Registered, At, Current, Source, Target, LogAfter, Blocked, Committed
<1>19. LeftoversAreRecorded'
  BY <1>3 DEF LeftoversAreRecorded, InUse, Recorded
<1> QED
  BY <1>9, <1>10, <1>11, <1>12, <1>13, <1>14, <1>15, <1>16, <1>17, <1>18, <1>19

\* A cleaner that commits deletes only records of what it has dropped.
LEMMA CommitCleanupPreserves ==
  ASSUME IInv, TypeOK', NEW c \in Cleaners, CommitCleanup(c)
  PROVE  IInv'
<1>1. UNCHANGED <<metadata, data, move, write, faults>>
  BY DEF CommitCleanup
<1>2. records' = records \ cleaner[c].deleted
  BY DEF CommitCleanup
<1>3. \A o \in Ops : opLock'[o] = IF opLock[o] = c THEN "none" ELSE opLock[o]
  BY DEF CommitCleanup, ReleaseLocks
<1>4. /\ cleaner'[c].list = {} /\ cleaner'[c].current = {} /\ cleaner'[c].deleted = {}
      /\ \A d \in Cleaners : d # c => cleaner'[d] = cleaner[d]
  BY DEF CommitCleanup, IdleCleaner, TypeOK
<1>5. c # "move" /\ c # "none"
  BY DEF Cleaners
<1>6. (\A o : Known(o)' = Known(o)) /\ Registered' = Registered /\ Current' = Current
  BY <1>1 DEF Known, Registered, At, Current
<1>7. \A r \in cleaner[c].deleted : r \in records /\ opLock[r.op] = c /\ r.object \notin objects
  BY DEF CleanerInv, CleanerOK
<1>8. Registered => Current \in Ops /\ opLock[Current] = "move"
  BY CurrentIs DEF Registered, At, OpLockInv
<1>9. MoveInv'
  BY <1>1 DEF MoveInv, At, Current, Source, Target
<1>10. RouterInv'
  BY <1>1 DEF RouterInv, RouterOK, At, Current
<1>11. WriteInv'
  BY <1>1 DEF WriteInv
<1>12. RecordInv'
  BY <1>1, <1>2, <1>6 DEF RecordInv, RecordOK
<1>13. OpLockInv'
  BY <1>3, <1>5, <1>6, <1>8 DEF OpLockInv
<1>14. CleanerInv'
  <2>1. CleanerOK(c)'
    BY <1>4 DEF CleanerOK
  <2>2. ASSUME NEW d \in Cleaners, d # c PROVE CleanerOK(d)'
    BY SMTT(30), Z3T(30), <1>1, <1>2, <1>3, <1>4, <1>6, <1>7, <2>2 DEF CleanerInv, CleanerOK, TypeOK, CleanerStates, AllRecords
  <2> QED
    BY <2>1, <2>2 DEF CleanerInv
<1>15. SetupInv'
  BY <1>1, <1>2, <1>5, <1>7, <1>8, SetupKept
<1>16. LinkInv'
  BY <1>1 DEF LinkInv, Known, Registered, At, Current
<1>17. DataInv'
  BY <1>1 DEF DataInv, Committed
<1>18. CopyInv'
  BY SMTT(30), Z3T(30), <1>1 DEF CopyInv, Registered, At, Current, Source, Target, LogAfter, Blocked, Committed
<1>19. LeftoversAreRecorded'
  BY SMTT(30), Z3T(30), <1>1, <1>2, <1>7 DEF LeftoversAreRecorded, InUse, Recorded
<1> QED
  BY <1>9, <1>10, <1>11, <1>12, <1>13, <1>14, <1>15, <1>16, <1>17, <1>18, <1>19

\* A cleaner drops nothing that is in use or that the move which runs has made.
LEMMA TryDropPreserves ==
  ASSUME IInv, TypeOK', NEW c \in Cleaners, TryDropResourceByCleanupRecordOutsideTransaction(c)
  PROVE  IInv'
<1>1. PICK r \in cleaner[c].current : DropRecord(c, r)
  BY DEF TryDropResourceByCleanupRecordOutsideTransaction
<1>2. /\ r \in records /\ opLock[r.op] = c /\ r \in AllRecords /\ r.op \in Ops /\ r.object \in AllObjects
      /\ RecordOK(r)
  BY SMTT(30), Z3T(30) DEF TypeOK, CleanerStates, AllRecords, CleanerInv, CleanerOK, RecordInv
<1>3. UNCHANGED <<metadata, cleanup, move, write>>
  BY <1>1 DEF DropRecord
<1>4. /\ cleaner'[c].list = cleaner[c].list /\ cleaner'[c].current = {}
      /\ \A q \in cleaner'[c].deleted : q \in cleaner[c].deleted \/ (q = r /\ Drop(r.object))
      /\ \A d \in Cleaners : d # c => cleaner'[d] = cleaner[d]
  BY SMTT(30), Z3T(30), <1>1 DEF DropRecord, TypeOK
<1>5. Drop(r.object) \/ UNCHANGED data
  BY <1>1 DEF DropRecord
<1>6. /\ (\A o : Known(o)' = Known(o)) /\ Registered' = Registered /\ Current' = Current
      /\ Source' = Source /\ Target' = Target
  BY <1>3 DEF Known, Registered, At, Current, Source, Target
<1>7. Registered => Current \in Ops /\ Current \in 1..Current /\ r.op # Current
  BY <1>2, CurrentIs DEF Registered, At, OpLockInv, Cleaners
<1>8. /\ r.object.type = "shard" => ~Registered /\ r.object.node # placement[Coordinator]
      /\ r.object.type # "shard" => r.object.name = r.op
  BY <1>2, <1>7 DEF RecordOK
<1>9. objects' \subseteq objects /\ objects \ objects' \subseteq {r.object} /\ wal' = wal
  BY <1>5 DEF Drop
<1>10. /\ \A s \in Shards : \A n \in Nodes : \A v :
            /\ v \in rows'[<<s, n>>] => v \in rows[<<s, n>>]
            /\ v \in rows[<<s, n>>] /\ Table(s, n) # r.object => v \in rows'[<<s, n>>]
            /\ v \in rows'[<<s, n>>] => Table(s, n) # r.object \/ objects' = objects
       /\ \A o \in 1..Current :
            /\ replication'[o].linked \subseteq replication[o].linked
            /\ replication[o] = NoReplication => replication'[o] = NoReplication
            /\ \A s \in replication'[o].linked : Table(s, ops[o].target) # r.object \/ objects' = objects
            /\ r.object.type # "shard" /\ r.object.name # o => replication'[o] = replication[o]
       /\ \A o \in Ops \ 1..Current : replication'[o] = replication[o]
  <2>1. CASE Drop(r.object)
    <3>1. \A s \in Shards : \A n \in Nodes : \A v :
            v \in rows'[<<s, n>>] <=> v \in rows[<<s, n>>] /\ Table(s, n) # r.object
      BY <1>2, <2>1, DropEffect
    <3>2. \A o \in 1..Current :
            /\ replication'[o].linked \subseteq replication[o].linked
            /\ replication[o] = NoReplication => replication'[o] = NoReplication
            /\ r.object.type = "shard" => r.object.name \notin replication'[o].linked
                                          \/ r.object.node \notin {ops[o].source, ops[o].target}
            /\ r.object.type # "shard" /\ r.object.name # o => replication'[o] = replication[o]
      BY <1>2, <2>1, DropEffect
    <3>3. \A o \in Ops \ 1..Current : replication'[o] = replication[o]
      BY <1>2, <2>1, DropEffect
    <3>4. \A o \in 1..Current : \A s \in replication'[o].linked : Table(s, ops[o].target) # r.object
      <4>1. ASSUME NEW o \in 1..Current, NEW s, Table(s, ops[o].target) = r.object
            PROVE  s \notin replication'[o].linked
        <5>1. r.object.type = "shard" /\ r.object.name = s /\ r.object.node = ops[o].target
          BY SMTT(30), Z3T(30), <4>1 DEF Table, Object
        <5> QED
          BY <3>2, <5>1
      <4> QED
        BY <4>1
    <3> QED
      BY <3>1, <3>2, <3>3, <3>4
  <2>2. CASE UNCHANGED data
    BY <2>2
  <2> QED
    BY <1>5, <2>1, <2>2
<1>11. MoveInv'
  BY <1>3 DEF MoveInv, At, Current, Source, Target
<1>12. RouterInv'
  BY <1>3 DEF RouterInv, RouterOK, At, Current
<1>13. WriteInv'
  BY <1>3, <1>9 DEF WriteInv
<1>14. RecordInv'
  BY <1>3 DEF RecordInv, RecordOK, Known, Registered, At, Current
<1>15. OpLockInv'
  BY <1>3 DEF OpLockInv, Known, Registered, At, Current
<1>16. CleanerInv'
  <2>1. Drop(r.object) => r.object \notin objects'
    BY DEF Drop
  <2>2. CleanerOK(c)'
    BY SMTT(30), Z3T(30), <1>2, <1>3, <1>4, <1>6, <1>9, <2>1 DEF CleanerInv, CleanerOK
  <2>3. ASSUME NEW d \in Cleaners, d # c PROVE CleanerOK(d)'
    BY SMTT(30), Z3T(30), <1>3, <1>4, <1>6, <1>9, <2>3 DEF CleanerInv, CleanerOK
  <2> QED
    BY <2>2, <2>3 DEF CleanerInv
<1>17. SetupInv'
  BY SMTT(30), Z3T(30), <1>3, <1>7, <1>8, <1>9, <1>10, SetupKept
<1>18. LinkInv'
  <2>1. \A s \in Shards, n \in Nodes : rows'[<<s, n>>] # {} => Table(s, n) \in objects'
    BY SMTT(30), Z3T(30), <1>9, <1>10 DEF LinkInv
  <2>2. \A o \in 1..Current : \A s \in replication'[o].linked : Table(s, ops[o].target) \in objects'
    BY <1>9, <1>10 DEF LinkInv
  <2>3. \A o \in Ops : ~Known(o) => replication'[o] = NoReplication
    BY <1>10 DEF LinkInv
  <2> QED
    BY <1>3, <1>6, <2>1, <2>2, <2>3 DEF LinkInv
<1>19. DataInv'
  <2>1. placement[Coordinator] \in Nodes
    BY RouterFacts DEF TypeOK
  <2>2. \A s \in Shards : Table(s, placement[Coordinator]) # r.object
    BY SMTT(30), Z3T(30), <1>8 DEF Table, Object
  <2>3. \A s \in Shards : Committed(s)' = Committed(s)
    BY <1>3 DEF Committed
  <2> QED
    BY SMTT(30), Z3T(30), <1>3, <1>9, <1>10, <2>1, <2>2, <2>3 DEF DataInv
<1>20. CopyInv'
  <2>1. CASE ~Registered
    BY <1>6, <2>1, <1>3 DEF CopyInv, Registered, At
  <2>2. CASE Registered
    <3>1. replication'[Current] = replication[Current]
      BY <1>7, <1>8, <1>10, <2>2
    <3>2. Target \in Nodes /\ \A s \in Shards : Table(s, Target) # r.object
      BY SMTT(30), Z3T(30), <1>8, <2>2, CurrentIs DEF Table, Object, Registered, At
    <3>3. \A s \in Shards : \A v \in rows[<<s, Target>>] : v \in rows'[<<s, Target>>]
      BY <1>10, <3>2
    <3>4. \A s \in Shards : Committed(s)' = Committed(s)
      BY <1>3 DEF Committed
    <3>5. \A i : LogAfter(i)' = LogAfter(i)
      BY <1>6, <1>9 DEF LogAfter
    <3>6. Blocked' = Blocked /\ \A pc : At(pc)' = At(pc)
      BY <1>3, <1>6 DEF Blocked, At
    <3> QED
      BY <1>3, <1>6, <1>9, <3>1, <3>3, <3>4, <3>5, <3>6 DEF CopyInv
  <2> QED
    BY <2>1, <2>2
<1>21. LeftoversAreRecorded'
  BY <1>3, <1>9 DEF LeftoversAreRecorded, InUse, Recorded
<1> QED
  BY <1>11, <1>12, <1>13, <1>14, <1>15, <1>16, <1>17, <1>18, <1>19, <1>20, <1>21

\* A cleaner whose transaction fails keeps the records of what it has dropped.
LEMMA CleanerAbortPreserves ==
  ASSUME IInv, TypeOK', NEW c \in Cleaners, CleanupFails(c), ~(c = "call" /\ At("cleaning"))
  PROVE  IInv'
<1>1. UNCHANGED <<metadata, data, records, move, write>>
  BY DEF CleanupFails
<1>2. \A o \in Ops : opLock'[o] = IF opLock[o] = c THEN "none" ELSE opLock[o]
  BY DEF CleanupFails, ReleaseLocks
<1>3. /\ cleaner'[c].list = {} /\ cleaner'[c].current = {} /\ cleaner'[c].deleted = {}
      /\ \A d \in Cleaners : d # c => cleaner'[d] = cleaner[d]
  BY DEF CleanupFails, IdleCleaner, TypeOK
<1>4. c # "move" /\ c # "none"
  BY DEF Cleaners
<1>5. (\A o : Known(o)' = Known(o)) /\ Registered' = Registered /\ Current' = Current
  BY <1>1 DEF Known, Registered, At, Current
<1>6. Registered => Current \in Ops /\ opLock[Current] = "move"
  BY CurrentIs DEF Registered, At, OpLockInv
<1>7. MoveInv'
  BY <1>1 DEF MoveInv, At, Current, Source, Target
<1>8. RouterInv'
  BY <1>1 DEF RouterInv, RouterOK, At, Current
<1>9. WriteInv'
  BY <1>1 DEF WriteInv
<1>10. RecordInv'
  BY <1>1 DEF RecordInv, RecordOK, Known, Registered, At, Current
<1>11. OpLockInv'
  BY <1>2, <1>4, <1>5, <1>6 DEF OpLockInv
<1>12. CleanerInv'
  <2>1. CleanerOK(c)'
    BY <1>3 DEF CleanerOK
  <2>2. ASSUME NEW d \in Cleaners, d # c PROVE CleanerOK(d)'
    BY SMTT(30), Z3T(30), <1>1, <1>2, <1>3, <1>5, <2>2 DEF CleanerInv, CleanerOK, TypeOK, CleanerStates, AllRecords
  <2> QED
    BY <2>1, <2>2 DEF CleanerInv
<1>13. SetupInv'
  BY SMTT(30), Z3T(30), <1>1, SetupKept
<1>14. LinkInv'
  BY <1>1 DEF LinkInv, Known, Registered, At, Current
<1>15. DataInv'
  BY <1>1 DEF DataInv, Committed
<1>16. CopyInv'
  BY SMTT(30), Z3T(30), <1>1 DEF CopyInv, Registered, At, Current, Source, Target, LogAfter, Blocked, Committed
<1>17. LeftoversAreRecorded'
  BY <1>1 DEF LeftoversAreRecorded, InUse, Recorded
<1> QED
  BY <1>7, <1>8, <1>9, <1>10, <1>11, <1>12, <1>13, <1>14, <1>15, <1>16, <1>17

\* A worker whose part of a move ends has the placement that the coordinator has.
LEMMA EndMovePreserves ==
  ASSUME IInv, TypeOK', NEW n \in MetadataNodes, EndMoveOnWorker(n)
  PROVE  IInv'
<1>1. UNCHANGED <<ops, data, cleanup, move, cleaner, write, faults>> /\ n \in Routers /\ n # Coordinator
  BY RouterFacts DEF EndMoveOnWorker
<1>2. /\ exclusive[n] # None /\ ops[exclusive[n]].outcome # "running"
      /\ exclusive'[n] = None
      /\ \A r \in Routers : r # n => exclusive'[r] = exclusive[r] /\ placement'[r] = placement[r]
  BY <1>1 DEF EndMoveOnWorker, TypeOK
<1>3. placement'[n] = placement[Coordinator] /\ placement'[Coordinator] = placement[Coordinator]
  BY <1>1, <1>2, RouterFacts DEF EndMoveOnWorker, RouterInv, RouterOK, TypeOK
<1>4. MoveInv'
  BY <1>1, <1>3 DEF MoveInv, At, Current, Source, Target
<1>5. RouterInv'
  <2>1. ASSUME NEW r \in Routers PROVE RouterOK(r)'
    BY <1>1, <1>2, <1>3 DEF RouterInv, RouterOK, Current
  <2> QED
    BY <1>1, <1>2, <2>1, RouterFacts DEF RouterInv, Current, At
<1>6. WriteInv'
  <2>1. \A w \in Writes : write[w].router \in Routers
    BY DEF TypeOK, WriteStates
  <2>2. \A w \in Writes : write[w].pc = "executing" => write[w].router # n
    BY <1>2 DEF WriteInv
  <2> QED
    BY SMTT(30), Z3T(30), <1>1, <1>2, <2>1, <2>2 DEF WriteInv
<1>7. RecordInv'
  BY SMTT(30), Z3T(30), <1>1, <1>3 DEF RecordInv, RecordOK, Known, Registered, At, Current
<1>8. OpLockInv'
  BY <1>1, <1>3 DEF OpLockInv, Known, Registered, At, Current
<1>9. CleanerInv'
  BY SMTT(30), Z3T(30), <1>1, <1>3 DEF CleanerInv, CleanerOK, Known, Registered, At, Current
<1>10. SetupInv'
  BY <1>1, SetupKept
<1>11. LinkInv'
  BY <1>1, <1>3 DEF LinkInv, Known, Registered, At, Current
<1>12. DataInv'
  BY <1>1, <1>3 DEF DataInv, Committed
<1>13. CopyInv'
  <2>1. Blocked' => Blocked \/ At("idle")
    BY SMTT(30), Z3T(30), <1>1, <1>2, CurrentIs DEF Blocked, Current, Ops, None
  <2> QED
    BY SMTT(30), Z3T(30), <1>1, <2>1 DEF CopyInv, Registered, At, Current, Source, Target, LogAfter, Committed
<1>14. LeftoversAreRecorded'
  BY <1>1, <1>3 DEF LeftoversAreRecorded, InUse, Recorded
<1> QED
  BY <1>4, <1>5, <1>6, <1>7, <1>8, <1>9, <1>10, <1>11, <1>12, <1>13, <1>14

\* A worker that restarts loses the locks of the move that runs, and its writes with them.
LEMMA WorkerCrashPreserves ==
  ASSUME IInv, TypeOK', NEW n \in MetadataNodes, WorkerCrash(n)
  PROVE  IInv'
<1>1. UNCHANGED <<placement, ops, data, cleanup, move, cleaner>> /\ n \in Routers /\ n # Coordinator
  BY RouterFacts DEF WorkerCrash
<1>2. /\ \A r \in Routers : r # n => exclusive'[r] = exclusive[r]
      /\ exclusive'[n] = exclusive[n] \/ (exclusive'[n] = None /\ ops[exclusive[n]].outcome = "running")
  BY <1>1 DEF WorkerCrash, TypeOK
<1>3. \A w \in Writes : write'[w] = write[w] \/ (write[w].pc = "executing" /\ write'[w].pc = "aborted")
  BY DEF WorkerCrash, AbortWritesOf, HoldsShareLock, Ended
<1>4. \A s \in Shards : Committed(s)' = Committed(s)
  BY <1>3 DEF Committed
<1>5. MoveInv'
  BY <1>1 DEF MoveInv, At, Current, Source, Target
<1>6. RouterInv'
  <2>1. ASSUME NEW r \in Routers PROVE RouterOK(r)'
    BY SMTT(30), Z3T(30), <1>1, <1>2 DEF RouterInv, RouterOK, Current
  <2> QED
    BY <1>1, <1>2, <2>1, RouterFacts DEF RouterInv, Current, At
<1>7. WriteInv'
  <2>1. \A w \in Writes : write'[w].pc = "executing" => write'[w] = write[w] /\ write[w].router # n
    BY <1>3 DEF WorkerCrash, AbortWritesOf, HoldsShareLock, Ended
  <2>2. \A m \in Nodes : \A i \in 1..Len(wal[m]) : wal[m][i] \in Writes
    BY ElementOfSeq DEF TypeOK
  <2>3. \A w \in Writes : write'[w].pc = "executing" =>
          exclusive'[write'[w].router] = None /\ write'[w].node = placement'[write'[w].router]
    <3>1. \A w \in Writes : write[w].router \in Routers
      BY DEF TypeOK, WriteStates
    <3> QED
      BY SMTT(30), Z3T(30), <1>1, <1>2, <2>1, <3>1 DEF WriteInv
  <2>4. \A m \in Nodes : \A i \in 1..Len(wal[m]) : write'[wal[m][i]].pc \in {"committed", "recovered"}
    BY <1>3, <2>2 DEF WriteInv
  <2> QED
    BY <1>1, <2>3, <2>4 DEF WriteInv
<1>8. RecordInv'
  BY SMTT(30), Z3T(30), <1>1 DEF RecordInv, RecordOK, Known, Registered, At, Current
<1>9. OpLockInv'
  BY <1>1 DEF OpLockInv, Known, Registered, At, Current
<1>10. CleanerInv'
  BY <1>1 DEF CleanerInv, CleanerOK, Known, Registered, At, Current
<1>11. SetupInv'
  BY <1>1, SetupKept
<1>12. LinkInv'
  BY <1>1 DEF LinkInv, Known, Registered, At, Current
<1>13. DataInv'
  BY <1>1, <1>4 DEF DataInv
<1>14. CopyInv'
  <2>0. \A pc : At(pc)' = At(pc)
    BY <1>1 DEF At
  <2>1. Blocked' /\ ~At("idle") => Blocked
    <3> HAVE Blocked' /\ ~At("idle")
    <3>1. Current # None /\ Current' = Current
      BY SMTT(30), Z3T(30), <1>1, CurrentIs DEF Current, Ops, None
    <3>2. \A r \in Routers : exclusive'[r] = Current
      BY <3>1 DEF Blocked
    <3>3. \A r \in Routers : exclusive[r] = Current
      BY <1>1, <1>2, <3>1, <3>2
    <3> QED
      BY <3>3 DEF Blocked
  <2>2. ~At("idle") => \A i \in Nat : LogAfter(i)' = LogAfter(i) /\ \A w \in LogAfter(i) : write'[w] = write[w]
    <3> SUFFICES ASSUME ~At("idle"), NEW i \in Nat
                 PROVE  LogAfter(i)' = LogAfter(i) /\ \A w \in LogAfter(i) : write'[w] = write[w]
      OBVIOUS
    <3>1. LogAfter(i)' = LogAfter(i)
      BY <1>1 DEF LogAfter, Source, Current
    <3>2. LogAfter(i) \subseteq {w \in Writes : write[w].pc \in {"committed", "recovered"}}
      BY LogTyped
    <3> QED
      BY <1>3, <3>1, <3>2
  <2>3. ~At("idle") => replication[Current].applied \in Nat /\ move.position \in Nat
    BY CurrentIs DEF TypeOK, ReplicationStates, MoveStates
  <2>4. Registered' = Registered /\ Current' = Current /\ Source' = Source /\ Target' = Target
    BY <1>1 DEF Registered, At, Current, Source, Target
  <2> QED
    BY SMTT(30), Z3T(30), <1>1, <1>4, <2>0, <2>1, <2>2, <2>3, <2>4 DEF CopyInv, At, Registered
<1>15. LeftoversAreRecorded'
  BY <1>1 DEF LeftoversAreRecorded, InUse, Recorded
<1> QED
  BY <1>5, <1>6, <1>7, <1>8, <1>9, <1>10, <1>11, <1>12, <1>13, <1>14, <1>15

\* What all the ways in which a move ends without a commit have in common.
MoveAborts ==
  /\ ~At("idle") /\ move' = IdleMove /\ ops' = [ops EXCEPT ![Current].outcome = "aborted"]
  /\ exclusive' = [exclusive EXCEPT ![Coordinator] = None]
  /\ UNCHANGED <<placement, data, records>>
  /\ \A o \in Ops : opLock'[o] # "move" /\ opLock'[o] \in {opLock[o], "none"}
  /\ \A c \in Cleaners : \/ cleaner'[c] = IdleCleaner
                         \/ cleaner'[c] = cleaner[c] /\ \A o \in Ops : opLock[o] = c => opLock'[o] = c
  /\ \A w \in Writes : \/ write'[w] = write[w]
                       \/ write[w].pc = "executing" /\ write'[w].pc = "aborted"

\* A cleanup that fails inside the move, and a crash during one, abort the move.
LEMMA AbortingSteps ==
  ASSUME IInv,
         \/ CleanupFailed \/ PrepareMoveFails \/ MoveFails
         \/ CoordinatorCrash /\ ~At("idle")
         \/ \E c \in Cleaners : CleanupFails(c) /\ c = "call" /\ At("cleaning")
  PROVE  MoveAborts
<1>0. TypeOK /\ OpLockInv
  BY DEF IInv
<1>1. CASE CleanupFailed
  BY <1>0, <1>1 DEF CleanupFailed, Abort, MoveAborts, At, Cleaners
<1>2. CASE PrepareMoveFails
  BY <1>0, <1>2 DEF PrepareMoveFails, Abort, MoveAborts, At, Cleaners
<1>3. CASE MoveFails
  BY <1>0, <1>3 DEF MoveFails, Abort, MoveAborts, At, Cleaners
<1>4. CASE CoordinatorCrash /\ ~At("idle")
  <2>1. \A w \in Writes : \/ write'[w] = write[w]
                          \/ write[w].pc = "executing" /\ write'[w].pc = "aborted"
    BY <1>4 DEF CoordinatorCrash, AbortWritesOf, HoldsShareLock, Ended
  <2> QED
    BY <1>0, <1>4, <2>1 DEF CoordinatorCrash, MoveAborts, Cleaners
<1>5. CASE \E c \in Cleaners : CleanupFails(c) /\ c = "call" /\ At("cleaning")
  <2>1. CleanupFails("call") /\ At("cleaning")
    BY <1>5
  <2>2. \A o \in Ops : opLock[o] # "move"
    BY <1>0, <2>1 DEF OpLockInv, Registered, At
  <2>3. \A o \in Ops : opLock'[o] = IF opLock[o] = "call" THEN "none" ELSE opLock[o]
    BY <2>1 DEF CleanupFails, ReleaseLocks
  <2>4. /\ move' = IdleMove /\ ops' = [ops EXCEPT ![Current].outcome = "aborted"]
        /\ exclusive' = [exclusive EXCEPT ![Coordinator] = None]
        /\ UNCHANGED <<placement, data, records, write>>
    BY <2>1 DEF CleanupFails
  <2>5. cleaner'["call"] = IdleCleaner /\ cleaner'["daemon"] = cleaner["daemon"]
    BY <1>0, <2>1 DEF CleanupFails, TypeOK, Cleaners
  <2> QED
    BY <2>1, <2>2, <2>3, <2>4, <2>5 DEF MoveAborts, At, Cleaners
<1> QED
  BY <1>1, <1>2, <1>3, <1>4, <1>5

\* A move that aborts leaves its tables and other objects to their records.
LEMMA AbortPreserves ==
  ASSUME IInv, TypeOK', MoveAborts
  PROVE  IInv'
<1>1. UNCHANGED <<placement, data, records>> /\ At("idle")' /\ ~Registered' /\ ~At("idle")
  BY DEF MoveAborts, At, Registered, IdleMove
<1>2. /\ Current \in Ops /\ Current' = Current
      /\ \A o \in 1..Current : /\ ops'[o].source = ops[o].source /\ ops'[o].target = ops[o].target
                               /\ ops'[o].outcome = IF o = Current THEN "aborted" ELSE ops[o].outcome
  BY <1>1, CurrentIs, OutcomeChange DEF MoveAborts
<1>3. exclusive'[Coordinator] = None /\ \A r \in Routers : r # Coordinator => exclusive'[r] = exclusive[r]
  BY SMTT(30), Z3T(30), RouterFacts DEF MoveAborts, TypeOK
<1>4. \A o : Known(o) => Known(o)'
  BY <1>1, <1>2 DEF Known
<1>5. \A s \in Shards : Committed(s)' = Committed(s)
  BY SMTT(30), Z3T(30) DEF MoveAborts, Committed
<1>6. move'.pc = "idle"
  BY DEF MoveAborts, IdleMove
<1>7. MoveInv'
  BY <1>1, <1>2, <1>6 DEF MoveInv
<1>8. RouterInv'
  <2>1. ASSUME NEW r \in Routers PROVE RouterOK(r)'
    BY SMTT(30), Z3T(30), <1>1, <1>2, <1>3 DEF RouterInv, RouterOK, MoveInv
  <2> QED
    BY <1>3, <2>1 DEF RouterInv
<1>9. WriteInv'
  <2>1. \A m \in Nodes : \A i \in 1..Len(wal[m]) : wal[m][i] \in Writes
    BY ElementOfSeq DEF TypeOK
  <2>2. \A w \in Writes : \/ write'[w] = write[w]
                          \/ write[w].pc = "executing" /\ write'[w].pc = "aborted"
    BY DEF MoveAborts
  <2>3. \A w \in Writes : write'[w].pc = "executing" =>
          exclusive'[write'[w].router] = None /\ write'[w].node = placement'[write'[w].router]
    <3> SUFFICES ASSUME NEW w \in Writes, write'[w].pc = "executing"
                 PROVE  exclusive'[write'[w].router] = None /\ write'[w].node = placement'[write'[w].router]
      OBVIOUS
    <3>1. write'[w] = write[w]
      BY SMTT(30), Z3T(30), <2>2
    <3>2. write[w].router \in Routers
      BY DEF TypeOK, WriteStates
    <3> QED
      BY SMTT(30), Z3T(30), <1>1, <1>3, <3>1, <3>2 DEF WriteInv
  <2>4. \A m \in Nodes : \A i \in 1..Len(wal[m]) : write'[wal[m][i]].pc \in {"committed", "recovered"}
    BY <2>1, <2>2 DEF WriteInv
  <2> QED
    BY <1>1, <2>3, <2>4 DEF WriteInv
<1>10. RecordInv'
  <2>1. ASSUME NEW r \in records PROVE RecordOK(r)'
    <3>1. RecordOK(r)
      BY DEF RecordInv
    <3>2. Known(r.op)' /\ ops'[r.op].target = ops[r.op].target
      BY <1>2, <1>4, <3>1 DEF RecordOK, Known
    <3> QED
      BY <1>1, <1>2, <1>4, <3>1, <3>2 DEF RecordOK
  <2> QED
    BY <1>1, <2>1 DEF RecordInv
<1>11. OpLockInv'
  BY <1>1, <1>4 DEF OpLockInv, MoveAborts, Cleaners
<1>12. CleanerInv'
  <2>1. ASSUME NEW c \in Cleaners PROVE CleanerOK(c)'
    <3>1. CASE cleaner'[c] = IdleCleaner
      BY SMTT(30), Z3T(30), <3>1 DEF CleanerOK, IdleCleaner
    <3>2. CASE cleaner'[c] = cleaner[c] /\ \A o \in Ops : opLock[o] = c => opLock'[o] = c
      BY SMTT(30), Z3T(30), <1>1, <1>4, <3>2 DEF CleanerInv, CleanerOK, TypeOK, CleanerStates, AllRecords
    <3> QED
      BY <3>1, <3>2 DEF MoveAborts
  <2> QED
    BY <2>1 DEF CleanerInv
<1>13. SetupInv'
  BY <1>1 DEF SetupInv, At
<1>14. LinkInv'
  BY <1>1, <1>2, <1>4 DEF LinkInv
<1>15. DataInv'
  BY <1>1, <1>5 DEF DataInv
<1>16. CopyInv'
  BY <1>1, <1>6 DEF CopyInv, At
<1>17. LeftoversAreRecorded'
  BY <1>1 DEF LeftoversAreRecorded, InUse, Recorded
<1> QED
  BY <1>7, <1>8, <1>9, <1>10, <1>11, <1>12, <1>13, <1>14, <1>15, <1>16, <1>17

\* A coordinator that restarts while no move runs loses its cleaners and writes.
LEMMA CrashPreserves ==
  ASSUME IInv, TypeOK', CoordinatorCrash, At("idle")
  PROVE  IInv'
<1>1. UNCHANGED <<placement, ops, data, records>> /\ move'.pc = "idle"
  BY DEF CoordinatorCrash, IdleMove
<1>2. /\ \A r \in Routers : exclusive'[r] = exclusive[r]
      /\ \A o \in Ops : opLock'[o] = "none"
      /\ \A c \in Cleaners : cleaner'[c] = IdleCleaner
  BY RouterFacts DEF CoordinatorCrash, RouterInv, TypeOK
<1>3. \A w \in Writes : \/ write'[w] = write[w]
                        \/ write[w].pc = "executing" /\ write'[w].pc = "aborted"
  BY DEF CoordinatorCrash, AbortWritesOf, HoldsShareLock, Ended
<1>4. /\ (\A o : Known(o)' = Known(o)) /\ ~Registered' /\ ~Registered /\ Current' = Current /\ At("idle")'
  BY <1>1 DEF Known, Registered, At, Current
<1>5. \A s \in Shards : Committed(s)' = Committed(s)
  BY <1>3 DEF Committed
<1>6. MoveInv'
  BY <1>1, <1>4 DEF MoveInv
<1>7. RouterInv'
  BY SMTT(30), Z3T(30), <1>1, <1>2, <1>4, RouterFacts DEF RouterInv, RouterOK
<1>8. WriteInv'
  <2>1. \A m \in Nodes : \A i \in 1..Len(wal[m]) : wal[m][i] \in Writes
    BY ElementOfSeq DEF TypeOK
  <2>2. \A w \in Writes : write'[w].pc = "executing" =>
          exclusive'[write'[w].router] = None /\ write'[w].node = placement'[write'[w].router]
    <3> SUFFICES ASSUME NEW w \in Writes, write'[w].pc = "executing"
                 PROVE  exclusive'[write'[w].router] = None /\ write'[w].node = placement'[write'[w].router]
      OBVIOUS
    <3>1. write'[w] = write[w]
      BY <1>3
    <3>2. write[w].router \in Routers
      BY SMTT(30), Z3T(30) DEF TypeOK, WriteStates
    <3> QED
      BY <1>1, <1>2, <3>1, <3>2 DEF WriteInv
  <2>3. \A m \in Nodes : \A i \in 1..Len(wal[m]) : write'[wal[m][i]].pc \in {"committed", "recovered"}
    BY <1>3, <2>1 DEF WriteInv
  <2> QED
    BY <1>1, <2>2, <2>3 DEF WriteInv
<1>9. RecordInv'
  BY <1>1, <1>4 DEF RecordInv, RecordOK
<1>10. OpLockInv'
  BY <1>2, <1>4 DEF OpLockInv, Cleaners
<1>11. CleanerInv'
  BY SMTT(30), Z3T(30), <1>2 DEF CleanerInv, CleanerOK, IdleCleaner
<1>12. SetupInv'
  BY <1>1, <1>4 DEF SetupInv, At
<1>13. LinkInv'
  BY <1>1, <1>4 DEF LinkInv
<1>14. DataInv'
  BY <1>1, <1>5 DEF DataInv
<1>15. CopyInv'
  BY <1>1, <1>4 DEF CopyInv, At
<1>16. LeftoversAreRecorded'
  BY <1>1 DEF LeftoversAreRecorded, InUse, Recorded
<1> QED
  BY <1>6, <1>7, <1>8, <1>9, <1>10, <1>11, <1>12, <1>13, <1>14, <1>15, <1>16

\* An apply worker adds a change to a table that exists, and for the move that runs to the one it is for.
LEMMA ApplyPreserves ==
  ASSUME IInv, TypeOK', NEW o \in DOMAIN ops, ApplyChange(o)
  PROVE  IInv'
<1>1. UNCHANGED <<metadata, objects, wal, cleanup, move, cleaner, write, faults>>
  BY DEF ApplyChange
<1>2. /\ replication[o].enabled /\ replication[o].applied < Len(wal[ops[o].source])
      /\ replication' = [replication EXCEPT ![o].applied = replication[o].applied + 1]
  BY DEF ApplyChange
<1>3. PICK w : w = wal[ops[o].source][replication[o].applied + 1]
  OBVIOUS
<1>4. rows' = IF ShardOf[w] \in replication[o].linked
              THEN [rows EXCEPT ![<<ShardOf[w], ops[o].target>>] = rows[<<ShardOf[w], ops[o].target>>] \cup {w}]
              ELSE rows
  BY <1>3 DEF ApplyChange
<1>5. /\ o \in Ops /\ o \in 1..Current /\ ops[o].source \in Nodes /\ ops[o].target \in Nodes
      /\ replication[o].applied \in Nat /\ wal[ops[o].source] \in Seq(Writes)
      /\ Len(wal[ops[o].source]) \in Nat
  <2>1. o \in Ops /\ o \in 1..Current /\ ops[o].source \in Nodes /\ ops[o].target \in Nodes
    BY OpsFacts DEF OpRecords
  <2> QED
    BY <2>1, LenProperties DEF TypeOK, ReplicationStates
<1>6. w \in Writes /\ ShardOf[w] \in Shards
  <2>1. replication[o].applied + 1 \in 1..Len(wal[ops[o].source])
    BY SMTT(30), Z3T(30), <1>2, <1>5
  <2>2. w \in Writes
    BY <1>3, <1>5, <2>1, ElementOfSeq
  <2> QED
    BY <2>2, MoveAssumption DEF MoveAssumption
<1>7. \A s \in Shards : \A n \in Nodes : \A v :
        v \in rows'[<<s, n>>] <=> \/ v \in rows[<<s, n>>]
                                  \/ v = w /\ s = ShardOf[w] /\ n = ops[o].target /\ s \in replication[o].linked
  <2> SUFFICES ASSUME NEW s \in Shards, NEW n \in Nodes, NEW v
               PROVE  v \in rows'[<<s, n>>] <=>
                        \/ v \in rows[<<s, n>>]
                        \/ v = w /\ s = ShardOf[w] /\ n = ops[o].target /\ s \in replication[o].linked
    OBVIOUS
  <2>1. rows \in [Shards \X Nodes -> SUBSET Writes] /\ <<s, n>> \in Shards \X Nodes
    BY DEF TypeOK
  <2>2. CASE ShardOf[w] \notin replication[o].linked
    BY <1>4, <2>2
  <2>3. CASE ShardOf[w] \in replication[o].linked /\ s = ShardOf[w] /\ n = ops[o].target
    <3>1. rows'[<<s, n>>] = rows[<<s, n>>] \cup {w}
      BY <1>4, <2>1, <2>3
    <3> QED
      BY <2>3, <3>1
  <2>4. CASE ShardOf[w] \in replication[o].linked /\ ~(s = ShardOf[w] /\ n = ops[o].target)
    <3>1. <<s, n>> # <<ShardOf[w], ops[o].target>>
      BY <2>4
    <3>2. rows'[<<s, n>>] = rows[<<s, n>>]
      BY <1>4, <2>1, <2>4, <3>1
    <3> QED
      BY <2>4, <3>2
  <2> QED
    BY <2>2, <2>3, <2>4
<1>8. /\ \A p \in Ops : /\ replication'[p].linked = replication[p].linked
                        /\ p # o => replication'[p] = replication[p]
      /\ replication'[o].applied = replication[o].applied + 1
      /\ replication'[o].enabled = replication[o].enabled
  <2>1. replication \in [Ops -> ReplicationStates]
    BY DEF TypeOK
  <2>2. \A p \in Ops : p # o => replication'[p] = replication[p]
    BY <1>2, <1>5, <2>1
  <2>3. replication'[o] = [replication[o] EXCEPT !.applied = replication[o].applied + 1]
    BY <1>2, <1>5, <2>1
  <2>4. /\ replication'[o].linked = replication[o].linked /\ replication'[o].enabled = replication[o].enabled
        /\ replication'[o].applied = replication[o].applied + 1
    BY <1>5, <2>1, <2>3 DEF ReplicationStates
  <2> QED
    BY <2>2, <2>4
<1>9. /\ (\A p : Known(p)' = Known(p)) /\ Registered' = Registered /\ Current' = Current /\ Source' = Source
      /\ Target' = Target /\ Blocked' = Blocked
      /\ (\A s : Committed(s)' = Committed(s)) /\ (\A i : LogAfter(i)' = LogAfter(i))
  BY <1>1 DEF Known, Registered, At, Current, Source, Target, Blocked, Committed, LogAfter
<1>10. \A s \in Shards : \A n \in Nodes : rows[<<s, n>>] \subseteq rows'[<<s, n>>]
  BY <1>7
<1>11. MoveInv'
  BY <1>1 DEF MoveInv, At, Current, Source, Target
<1>12. RouterInv'
  BY <1>1 DEF RouterInv, RouterOK, At, Current
<1>13. WriteInv'
  BY <1>1 DEF WriteInv
<1>14. RecordInv'
  BY SMTT(30), Z3T(30), <1>1 DEF RecordInv, RecordOK, Known, Registered, At, Current
<1>15. OpLockInv'
  BY <1>1 DEF OpLockInv, Known, Registered, At, Current
<1>16. CleanerInv'
  BY <1>1 DEF CleanerInv, CleanerOK, Known, Registered, At, Current
<1>17. SetupInv'
  <2>1. Registered => Current \in Ops
    BY CurrentIs DEF Registered, At
  <2> QED
    BY <1>1, <1>8, <2>1, SetupKept
<1>18. LinkInv'
  <2>1. \A s \in Shards, n \in Nodes : rows'[<<s, n>>] # {} => Table(s, n) \in objects
    BY <1>5, <1>7 DEF LinkInv
  <2>2. \A p \in 1..Current : replication'[p].linked = replication[p].linked
    BY <1>8, OpsFacts
  <2>3. Known(o)
    BY SMTT(30), Z3T(30), <1>2, <1>5 DEF LinkInv, NoReplication
  <2> QED
    BY <1>1, <1>8, <1>9, <2>1, <2>2, <2>3 DEF LinkInv
<1>19. DataInv'
  <2>1. placement[Coordinator] \in Nodes
    BY RouterFacts DEF TypeOK
  <2> QED
    BY <1>1, <1>9, <1>10, <2>1 DEF DataInv
<1>20. CopyInv'
  <2>1. CASE ~Registered
    BY <1>1, <1>9, <2>1 DEF CopyInv, Registered, At
  <2>2. CASE Registered
    <3>0. Current \in Ops /\ Target \in Nodes /\ ~At("idle")
      BY <2>2, CurrentIs DEF Registered, At
    <3>1. CASE o # Current
      <4>1. replication'[Current] = replication[Current]
        BY <1>8, <3>0, <3>1
      <4> QED
        BY <1>1, <1>9, <1>10, <3>0, <4>1 DEF CopyInv, At
    <3>2. CASE o = Current
      <4> DEFINE applied == replication[Current].applied
      <4>1. /\ applied \in Nat /\ applied < Len(wal[Source]) /\ Len(wal[Source]) \in Nat
            /\ replication'[Current].applied = applied + 1 /\ replication[Current].enabled
            /\ w = wal[Source][applied + 1]
        BY <1>2, <1>3, <1>5, <1>8, <3>2 DEF Source
      <4>2. LogAfter(applied) \subseteq LogAfter(applied + 1) \cup {w}
        <5>1. PICK i \in Nat : i = applied
          BY <4>1
        <5>2. PICK a : a = wal[Source]
          OBVIOUS
        <5>3. LogAfter(i) = {a[j] : j \in i + 1 .. Len(a)} /\ LogAfter(i + 1) = {a[j] : j \in i + 2 .. Len(a)}
          BY SMTT(30), Z3T(30), <5>1, <5>2 DEF LogAfter
        <5> QED
          BY SMTT(30), Z3T(30), <4>1, <5>1, <5>2, <5>3
      <4>3. (At("position") \/ At("wait") \/ (At("block") /\ move.logical)) =>
              \A s \in Shards : Committed(s) \subseteq rows'[<<s, Target>>] \cup LogAfter(applied + 1)
        <5> SUFFICES ASSUME At("position") \/ At("wait") \/ (At("block") /\ move.logical), NEW s \in Shards,
                            NEW v \in Committed(s)
                     PROVE  v \in rows'[<<s, Target>>] \cup LogAfter(applied + 1)
          OBVIOUS
        <5>1. v \in rows[<<s, Target>>] \cup LogAfter(applied)
          BY DEF CopyInv
        <5>2. replication[Current].linked = Shards
          BY <2>2 DEF SetupInv, At, MoveInv
        <5>3. v = w => v \in rows'[<<s, Target>>]
          BY SMTT(30), Z3T(30), <1>7, <3>0, <3>2, <5>2 DEF Committed, Target
        <5> QED
          BY <1>10, <3>0, <4>2, <5>1, <5>3
      <4>4. move.pc \notin {"setup", "copy", "enable"}
        BY <4>1 DEF CopyInv
      <4> QED
        BY SMTT(30), Z3T(30), <1>1, <1>9, <1>10, <3>0, <4>1, <4>3, <4>4 DEF CopyInv, At
    <3> QED
      BY <3>1, <3>2
  <2> QED
    BY <2>1, <2>2
<1>21. LeftoversAreRecorded'
  BY <1>1 DEF LeftoversAreRecorded, InUse, Recorded
<1> QED
  BY <1>11, <1>12, <1>13, <1>14, <1>15, <1>16, <1>17, <1>18, <1>19, <1>20, <1>21

\* A move that begins has not registered yet.
LEMMA TransferPreserves ==
  ASSUME IInv, TypeOK', NEW n \in Nodes, NEW logical \in BOOLEAN, TransferShards(n, logical)
  PROVE  IInv'
<1>1. UNCHANGED <<placement, exclusive, data, cleanup, cleaner, write, faults>> /\ At("idle")
  BY DEF TransferShards
<1>2. /\ Current' = Current + 1 /\ Current \in Nat /\ Current' \in Ops
      /\ \A o \in 1..Current : ops'[o] = ops[o]
      /\ ops'[Current'].outcome = "running" /\ ops'[Current'].source = placement[Coordinator]
      /\ ops'[Current'].target = n /\ n # placement[Coordinator]
  <2> DEFINE e == [source |-> placement[Coordinator], target |-> n, outcome |-> "running"]
  <2>1. e \in OpRecords /\ ops' = Append(ops, e) /\ Current < MaxMoves /\ n # placement[Coordinator]
    BY RouterFacts DEF TransferShards, OpRecords, Current, TypeOK
  <2>2. e.outcome = "running" /\ e.source = placement[Coordinator] /\ e.target = n
    OBVIOUS
  <2> HIDE DEF e
  <2> QED
    BY <2>1, <2>2, MoveAppended, OpsFacts
<1>3. /\ move'.pc = IF logical THEN "cleanup" ELSE "block"
      /\ move'.logical = logical
  BY DEF TransferShards, IdleMove
<1>4. ~Registered' /\ ~Registered /\ ~At("idle")'
  BY <1>1, <1>3 DEF Registered, At
<1>5. \A o : Known(o)' = Known(o)
  BY SMTT(30), Z3T(30), <1>1, <1>2, <1>4 DEF Known
<1>6. move'.pc \in {"cleanup", "block"} /\ ~(move'.pc = "block" /\ move'.logical)
  BY <1>3
<1>7. MoveInv'
  <2>1. Source' = placement'[Coordinator] /\ Target' # Source'
    BY <1>1, <1>2 DEF Source, Target
  <2> QED
    BY SMTT(30), Z3T(30), <1>1, <1>2, <1>4, <1>6, <2>1 DEF MoveInv
<1>8. RouterInv'
  <2>1. ASSUME NEW r \in Routers PROVE RouterOK(r)'
    BY SMTT(30), Z3T(30), <1>1, <1>2 DEF RouterInv, RouterOK
  <2> QED
    BY <1>1, <2>1 DEF RouterInv
<1>9. WriteInv'
  BY <1>1 DEF WriteInv
<1>10. RecordInv'
  <2>1. ASSUME NEW r \in records PROVE RecordOK(r)'
    <3>1. RecordOK(r)
      BY DEF RecordInv
    <3>2. Known(r.op)' /\ ops'[r.op].target = ops[r.op].target
      BY SMTT(30), Z3T(30), <1>2, <1>4, <1>5, <3>1 DEF RecordOK, Known
    <3> QED
      BY <1>1, <1>2, <1>4, <1>5, <3>1, <3>2 DEF RecordOK
  <2> QED
    BY <1>1, <2>1 DEF RecordInv
<1>11. OpLockInv'
  BY <1>1, <1>4, <1>5 DEF OpLockInv
<1>12. CleanerInv'
  BY <1>1, <1>5 DEF CleanerInv, CleanerOK
<1>13. SetupInv'
  BY SMTT(30), Z3T(30), <1>4, <1>6 DEF SetupInv, At
<1>14. LinkInv'
  <2>1. replication[Current'] = NoReplication
    BY SMTT(30), Z3T(30), <1>2 DEF LinkInv, Known
  <2> QED
    BY SMTT(30), Z3T(30), <1>1, <1>2, <1>5, <2>1 DEF LinkInv, NoReplication
<1>15. DataInv'
  BY <1>1 DEF DataInv, Committed
<1>16. CopyInv'
  BY <1>4, <1>6 DEF CopyInv, At
<1>17. LeftoversAreRecorded'
  BY <1>1 DEF LeftoversAreRecorded, InUse, Recorded
<1> QED
  BY <1>7, <1>8, <1>9, <1>10, <1>11, <1>12, <1>13, <1>14, <1>15, <1>16, <1>17

\* A router that is blocked has no write left and metadata that is up to date.
LEMMA BlockPreserves ==
  ASSUME IInv, TypeOK', NEW r \in Routers, BlockWritesToShardList(r)
  PROVE  IInv'
<1>1. UNCHANGED <<placement, ops, data, cleanup, cleaner, write, faults>> /\ At("block")
  BY DEF BlockWritesToShardList
<1>2. /\ exclusive[r] = None /\ exclusive'[r] = Current
      /\ \A q \in Routers : q # r => exclusive'[q] = exclusive[q]
      /\ \A w \in Writes : write[w].pc = "executing" => write[w].router # r
  BY SMTT(30), Z3T(30) DEF BlockWritesToShardList, LockShardDistributionMetadata, TypeOK, HoldsShareLock
<1>3. /\ move'.pc \in {"block", IF move.logical THEN "position" ELSE "cleanup"}
      /\ move'.logical = move.logical
  <2>1. move \in MoveStates
    BY DEF TypeOK
  <2>2. move' = [move EXCEPT !.locked = @ \cup {r},
          !.pc = IF move.locked \cup {r} # Routers THEN @ ELSE IF move.logical THEN "position" ELSE "cleanup"]
    BY DEF BlockWritesToShardList
  <2>3. move.pc = "block"
    BY <1>1 DEF At
  <2> QED
    BY <2>1, <2>2, <2>3 DEF MoveStates
<1>4. /\ Registered' = Registered /\ ~At("idle")' /\ ~At("idle") /\ ~At("setup") /\ ~At("setup")'
      /\ ~At("finalize") /\ ~At("finalize")' /\ ~At("wait")' /\ ~At("enable")'
      /\ (Registered <=> move.logical)
  BY <1>1, <1>3 DEF Registered, At
<1>5. (\A o : Known(o)' = Known(o)) /\ Current' = Current /\ Source' = Source /\ Target' = Target
  BY <1>1, <1>4 DEF Known, Current, Source, Target
<1>6. Current \in Ops /\ Current \in 1..Current /\ ops[Current].outcome = "running"
  BY <1>4, CurrentIs DEF MoveInv
<1>7. MoveInv'
  BY <1>1, <1>3, <1>4, <1>5 DEF MoveInv
<1>8. RouterInv'
  <2>1. ASSUME NEW q \in Routers PROVE RouterOK(q)'
    BY SMTT(30), Z3T(30), <1>1, <1>2, <1>5, <1>6 DEF RouterInv, RouterOK
  <2> QED
    BY <1>2, <1>4, <1>5, <2>1, RouterFacts DEF RouterInv
<1>9. WriteInv'
  BY SMTT(30), Z3T(30), <1>1, <1>2 DEF TypeOK, WriteStates, WriteInv
<1>10. RecordInv'
  BY <1>1, <1>4, <1>5 DEF RecordInv, RecordOK
<1>11. OpLockInv'
  BY <1>1, <1>4, <1>5 DEF OpLockInv
<1>12. CleanerInv'
  BY <1>1, <1>5 DEF CleanerInv, CleanerOK
<1>13. SetupInv'
  BY <1>1, <1>3, <1>4, <1>5 DEF SetupInv
<1>14. LinkInv'
  BY <1>1, <1>5 DEF LinkInv
<1>15. DataInv'
  BY <1>1 DEF DataInv, Committed
<1>16. CopyInv'
  <2>1. /\ \A s \in Shards : Committed(s)' = Committed(s)
        /\ LogAfter(replication[Current].applied)' = LogAfter(replication[Current].applied)
    BY <1>1, <1>5 DEF Committed, LogAfter
  <2>2. Registered => \A s \in Shards :
          Committed(s) \subseteq rows[<<s, Target>>] \cup LogAfter(replication[Current].applied)
    BY <1>1, <1>4 DEF CopyInv
  <2> QED
    BY <1>1, <1>3, <1>4, <1>5, <2>1, <2>2 DEF CopyInv, At
<1>17. LeftoversAreRecorded'
  BY <1>1 DEF LeftoversAreRecorded, InUse, Recorded
<1> QED
  BY <1>7, <1>8, <1>9, <1>10, <1>11, <1>12, <1>13, <1>14, <1>15, <1>16, <1>17

\* The cleanup that a move calls lists records as any cleaner does.
LEMMA CallCleanupPreserves ==
  ASSUME IInv, TypeOK', DropOrphanedResourcesInSeparateTransaction
  PROVE  IInv'
<1>1. UNCHANGED <<metadata, data, cleanup, write, faults>> /\ At("cleanup")
  BY DEF DropOrphanedResourcesInSeparateTransaction
<1>2. move'.pc = "cleaning"
  BY DEF DropOrphanedResourcesInSeparateTransaction, TypeOK, MoveStates
<1>3. /\ cleaner'["call"].list = records /\ cleaner'["call"].current = {} /\ cleaner'["call"].deleted = {}
      /\ cleaner'["daemon"] = cleaner["daemon"]
  BY DEF DropOrphanedResourcesInSeparateTransaction, IdleCleaner, TypeOK, Cleaners
<1>4. ~Registered' /\ ~Registered /\ ~At("idle")' /\ ~At("idle") /\ ~At("setup")'
  BY <1>1, <1>2 DEF Registered, At
<1>5. (\A o : Known(o)' = Known(o)) /\ Current' = Current /\ Source' = Source /\ Target' = Target
  BY <1>1, <1>4 DEF Known, Current, Source, Target
<1>6. MoveInv'
  BY <1>1, <1>2, <1>4, <1>5 DEF MoveInv
<1>7. RouterInv'
  BY <1>1, <1>4, <1>5 DEF RouterInv, RouterOK
<1>8. WriteInv'
  BY <1>1 DEF WriteInv
<1>9. RecordInv'
  BY <1>1, <1>4, <1>5 DEF RecordInv, RecordOK
<1>10. OpLockInv'
  BY <1>1, <1>4, <1>5 DEF OpLockInv
<1>11. CleanerInv'
  BY <1>1, <1>3, <1>5 DEF CleanerInv, CleanerOK, RecordInv, RecordOK, Cleaners
<1>12. SetupInv'
  BY <1>4 DEF SetupInv
<1>13. LinkInv'
  BY <1>1, <1>5 DEF LinkInv
<1>14. DataInv'
  BY <1>1 DEF DataInv, Committed
<1>15. CopyInv'
  BY <1>2, <1>4 DEF CopyInv, At
<1>16. LeftoversAreRecorded'
  BY <1>1 DEF LeftoversAreRecorded, InUse, Recorded
<1> QED
  BY <1>6, <1>7, <1>8, <1>9, <1>10, <1>11, <1>12, <1>13, <1>14, <1>15, <1>16

\* Until the copy there is nothing to say of the rows of the target.
LEMMA BeforeCopy ==
  ASSUME move'.pc \in {"setup", "copy"},
         replication'[Current'].applied <= Len(wal'[Source']),
         ~replication'[Current'].enabled,
         replication'[Current'].applied = replication'[Current'].start
  PROVE  CopyInv'
BY DEF CopyInv, At

\* A move registers once no record of a shard is left.
LEMMA RegisterPreserves ==
  ASSUME IInv, TypeOK', RegisterOperationNeedingCleanup
  PROVE  IInv'
<1>1. UNCHANGED <<metadata, data, records, cleaner, write, faults>> /\ At("cleaning")
  BY DEF RegisterOperationNeedingCleanup
<1>2. move'.pc = "setup" /\ move'.step = 1 /\ move'.logical = move.logical
  BY SMTT(30), Z3T(30) DEF RegisterOperationNeedingCleanup, TypeOK, MoveStates
<1>3. Registered' /\ ~Registered /\ ~At("idle")' /\ ~At("idle") /\ At("setup")'
  BY <1>1, <1>2 DEF Registered, At
<1>4. Current' = Current /\ Source' = Source /\ Target' = Target
  BY <1>1 DEF Current, Source, Target
<1>5. Current \in Ops /\ Current \in 1..Current /\ Source \in Nodes
  BY <1>3, CurrentIs
<1>6. /\ \A o : Known(o) => Known(o)' /\ o # Current
      /\ \A o : Known(o)' => Known(o) \/ o = Current
  BY <1>1, <1>3, <1>4 DEF Known
<1>7. opLock'[Current] = "move" /\ \A o \in Ops : o # Current => opLock'[o] = opLock[o]
  BY <1>5 DEF RegisterOperationNeedingCleanup, TypeOK
<1>8. replication[Current] = NoReplication
  BY <1>3, <1>5 DEF LinkInv, Known
<1>9. MoveInv'
  BY <1>1, <1>2, <1>3, <1>4 DEF MoveInv
<1>10. RouterInv'
  BY <1>1, <1>3, <1>4 DEF RouterInv, RouterOK
<1>11. WriteInv'
  BY <1>1 DEF WriteInv
<1>12. RecordInv'
  BY <1>1, <1>6 DEF RecordInv, RecordOK, RegisterOperationNeedingCleanup, ErrorIfCleanupRecordForShardExists
<1>13. OpLockInv'
  BY <1>3, <1>4, <1>6, <1>7 DEF OpLockInv, Cleaners
<1>14. CleanerInv'
  <2>1. ASSUME NEW r \in records PROVE opLock'[r.op] = opLock[r.op]
    BY <1>6, <1>7 DEF RecordInv, RecordOK, TypeOK, AllRecords
  <2> QED
    BY <1>1, <1>6, <2>1 DEF CleanerInv, CleanerOK
<1>15. SetupInv'
  <2>1. Steps' = Steps /\ Len(Steps) \in Nat \ {0}
    BY <1>2, <1>4, <1>5, StepsUnchanged, StepsAre DEF TypeOK, MoveStates
  <2> QED
    BY SMTT(30), Z3T(30), <1>2, <1>3, <2>1 DEF SetupInv, At
<1>16. LinkInv'
  BY <1>1, <1>4, <1>6 DEF LinkInv
<1>17. DataInv'
  BY <1>1 DEF DataInv, Committed
<1>18. CopyInv'
  <2>1. Len(wal[Source]) \in Nat
    BY <1>5, LenProperties DEF TypeOK
  <2> QED
    BY SMTT(30), Z3T(30), <1>1, <1>2, <1>4, <1>8, <2>1, BeforeCopy DEF NoReplication
<1>19. LeftoversAreRecorded'
  BY <1>1 DEF LeftoversAreRecorded, InUse, Recorded
<1> QED
  BY <1>9, <1>10, <1>11, <1>12, <1>13, <1>14, <1>15, <1>16, <1>17, <1>18, <1>19

\* The next step of the setup, or the copy after the last one.
LEMMA NextStepIs ==
  ASSUME TypeOK, MoveInv, SetupInv, At("setup"), NextStep, UNCHANGED ops
  PROVE  /\ Current \in Ops /\ Current \in 1..Current /\ {Source, Target} \subseteq Nodes
         /\ Source = placement[Coordinator] /\ Target # Source
         /\ move.step \in 1..Len(Steps) /\ Len(Steps) \in Nat
         /\ move'.pc = (IF move.step = Len(Steps) THEN "copy" ELSE "setup")
         /\ move'.step = move.step + 1 /\ move'.logical = move.logical
         /\ Registered /\ Registered' /\ ~At("idle") /\ ~At("idle")' /\ ~At("finalize")'
         /\ Current' = Current /\ Source' = Source /\ Target' = Target /\ Steps' = Steps
         /\ \A o : Known(o)' = Known(o)
<1>1. ~At("idle") /\ Registered
  BY DEF At, Registered
<1>2. /\ Current \in Ops /\ Current \in 1..Current /\ {Source, Target} \subseteq Nodes
      /\ Source = placement[Coordinator] /\ Target # Source
  BY <1>1, CurrentIs
<1>3. move.step \in 1..Len(Steps) /\ Len(Steps) \in Nat
  BY SMTT(30), Z3T(30), <1>2, StepsAre DEF SetupInv, TypeOK, MoveStates
<1>4. /\ move'.pc = (IF move.step = Len(Steps) THEN "copy" ELSE "setup")
      /\ move'.step = move.step + 1 /\ move'.logical = move.logical
  BY DEF NextStep, TypeOK, MoveStates
<1>5. Registered' /\ ~At("idle")' /\ ~At("finalize")'
  BY <1>4 DEF At, Registered
<1>6. Current' = Current /\ Source' = Source /\ Target' = Target
  BY DEF Current, Source, Target
<1>7. Steps' = Steps
  BY <1>4, <1>6, StepsUnchanged
<1>8. \A o : Known(o)' = Known(o)
  BY <1>1, <1>5, <1>6 DEF Known
<1> QED
  BY <1>1, <1>2, <1>3, <1>4, <1>5, <1>6, <1>7, <1>8

\* A step that adds what it is to add keeps what the earlier ones did.
LEMMA SetupAdvances ==
  ASSUME TypeOK, MoveInv, SetupInv, At("setup"), NextStep, UNCHANGED ops,
         records \subseteq records', objects \subseteq objects',
         replication'[Current].linked \in {replication[Current].linked, Shards},
         ThisStep.do = "record" => StepRecord(ThisStep) \in records',
         ThisStep.do # "record" =>
           StepObject(ThisStep) \in objects'
           /\ (ThisStep.type = "subscription" => replication'[Current].linked = Shards)
  PROVE  SetupInv'
<1>1. /\ Current \in Ops /\ move.step \in 1..Len(Steps) /\ Len(Steps) \in Nat
      /\ move'.pc = (IF move.step = Len(Steps) THEN "copy" ELSE "setup")
      /\ move'.step = move.step + 1 /\ move'.logical = move.logical /\ move.logical \in BOOLEAN
      /\ Current' = Current /\ Target' = Target /\ Steps' = Steps
  BY NextStepIs DEF TypeOK, MoveStates
<1>2. \A step : StepRecord(step)' = StepRecord(step) /\ StepObject(step)' = StepObject(step)
  BY DEF StepRecord, StepObject, ObjectOf, Target, Current
<1>3. ASSUME NEW j \in 1..move.step PROVE Done(Steps[j])'
  <2>0. PICK step : step = Steps[j]
    OBVIOUS
  <2>1. CASE j = move.step
    BY <1>1, <1>2, <2>0, <2>1 DEF Done, ThisStep
  <2>2. CASE j # move.step
    <3>1. j \in 1..move.step - 1
      BY SMTT(30), Z3T(30), <1>1, <2>2
    <3>2. Done(step)
      BY <2>0, <3>1 DEF SetupInv
    <3> QED
      BY <1>1, <1>2, <2>0, <3>2 DEF Done
  <2> QED
    BY <2>1, <2>2
<1>4. CASE move.step # Len(Steps)
  BY SMTT(30), Z3T(30), <1>1, <1>3, <1>4 DEF SetupInv, At
<1>5. CASE move.step = Len(Steps)
  <2>1. ASSUME NEW s \in Shards PROVE Table(s, Target') \in objects'
    <3>1. PICK j \in 1..Len(Steps) : Steps[j] = Step("create", "shard", s)
      BY <1>1, StepsAre
    <3>2. Done(Step("create", "shard", s))'
      BY <1>1, <1>3, <1>5, <3>1
    <3> QED
      BY <3>2 DEF Done, Step, StepObject
  <2>2. ASSUME move.logical PROVE replication'[Current'].linked = Shards
    <3>1. PICK j \in 1..Len(Steps) : Steps[j] = Step("create", "subscription", Current)
      BY <1>1, <2>2, StepsAre
    <3>2. Done(Step("create", "subscription", Current))'
      BY <1>1, <1>3, <1>5, <3>1
    <3> QED
      BY <3>2 DEF Done, Step
  <2> QED
    BY <1>1, <1>5, <2>1, <2>2 DEF SetupInv, At
<1> QED
  BY <1>4, <1>5
=============================================================================
