--------------------------- MODULE ShardMoveSteps ----------------------------
(***************************************************************************)
(* What the steps of ShardMove do: the list of moves, the setup of a move, *)
(* drops and writes; that every variable keeps its type; and that writes,  *)
(* which run whatever the move does, keep the inductive invariant.         *)
(***************************************************************************)
EXTENDS ShardMoveInv, SequenceTheorems, TLAPS

USE DEF data, metadata, cleanup
\* The provers of the leaves that name none: Zenon, then Z3.
USE ZenonT(30), Z3T(30)

\* The initial state is well typed.
LEMMA TypeInit == Init => TypeOK
BY SMTT(30), Z3T(30), MoveAssumption
   DEF MoveAssumption, Init, TypeOK, Routers, Ops, None, AllObjects, AllRecords, Table, Object,
       NoReplication, IdleMove, IdleCleaner, Ended, Cleaners,
       ReplicationStates, OpRecords, MoveStates, CleanerStates, WriteStates

-----------------------------------------------------------------------------
(* The steps of the setup                                                  *)

\* Every shard is in the list.
LEMMA ShardsAre ==
  LET n == Len(ShardList)
  IN n \in Nat \ {0} /\ ShardList \in [1..n -> Shards] /\ \A s \in Shards : \E i \in 1..n : ShardList[i] = s
<1>1. ShardList \in Seq(Shards) /\ ShardList # <<>>
  BY MoveAssumption DEF MoveAssumption
<1>2. Len(ShardList) \in Nat \ {0} /\ ShardList \in [1..Len(ShardList) -> Shards]
      /\ DOMAIN ShardList = 1..Len(ShardList)
  BY <1>1, EmptySeq, LenProperties
<1> QED
  BY <1>2 DEF Shards

\* The steps that create the objects of logical replication.
LogicalSteps == CreatePublications(Current) \o CreateReplicationSlots(Current) \o CreateSubscriptions(Current)

StepRecords == [do : {"record", "create"}, type : {"shard", "publication", "slot", "user", "subscription"},
                name : Shards \cup Ops]

\* The steps of a logical transfer that follow the creation of the tables.
LEMMA LogicalStepsAre ==
  ASSUME Current \in Ops
  PROVE  /\ LogicalSteps \in Seq(StepRecords) /\ Len(LogicalSteps) = 8
         /\ LogicalSteps[1] = Step("record", "publication", Current)
         /\ LogicalSteps[2] = Step("create", "publication", Current)
         /\ LogicalSteps[3] = Step("record", "slot", Current)
         /\ LogicalSteps[4] = Step("create", "slot", Current)
         /\ LogicalSteps[5] = Step("create", "user", Current)
         /\ LogicalSteps[6] = Step("record", "user", Current)
         /\ LogicalSteps[7] = Step("create", "subscription", Current)
         /\ LogicalSteps[8] = Step("record", "subscription", Current)
<1> DEFINE a == CreatePublications(Current)
           b == CreateReplicationSlots(Current)
           c == CreateSubscriptions(Current)
<1>1. a \in Seq(StepRecords) /\ Len(a) = 2
      /\ a[1] = Step("record", "publication", Current) /\ a[2] = Step("create", "publication", Current)
  BY SMTT(30), Z3T(30) DEF CreatePublications, Step, StepRecords
<1>2. b \in Seq(StepRecords) /\ Len(b) = 2
      /\ b[1] = Step("record", "slot", Current) /\ b[2] = Step("create", "slot", Current)
  BY SMTT(30), Z3T(30) DEF CreateReplicationSlots, Step, StepRecords
<1>3. c \in Seq(StepRecords) /\ Len(c) = 4
      /\ c[1] = Step("create", "user", Current) /\ c[2] = Step("record", "user", Current)
      /\ c[3] = Step("create", "subscription", Current) /\ c[4] = Step("record", "subscription", Current)
  BY SMTT(30), Z3T(30) DEF CreateSubscriptions, Step, StepRecords
<1> HIDE DEF a, b, c
<1>4. a \o b \in Seq(StepRecords) /\ Len(a \o b) = 4
      /\ (a \o b)[1] = a[1] /\ (a \o b)[2] = a[2] /\ (a \o b)[3] = b[1] /\ (a \o b)[4] = b[2]
  <2>1. a \o b \in Seq(StepRecords) /\ Len(a \o b) = Len(a) + Len(b)
        /\ \A i \in 1 .. Len(a) + Len(b) : (a \o b)[i] = IF i <= Len(a) THEN a[i] ELSE b[i - Len(a)]
    BY <1>1, <1>2, ConcatProperties
  <2> DEFINE e == a \o b
  <2> HIDE DEF e
  <2>2. e \in Seq(StepRecords) /\ Len(e) = 4
        /\ e[1] = a[1] /\ e[2] = a[2] /\ e[3] = b[1] /\ e[4] = b[2]
    BY SMTT(30), Z3T(30), <1>1, <1>2, <2>1 DEF e
  <2> QED
    BY <2>2 DEF e
<1> DEFINE d == (a \o b) \o c
<1>5. d \in Seq(StepRecords) /\ Len(d) = 8
      /\ d[1] = a[1] /\ d[2] = a[2] /\ d[3] = b[1] /\ d[4] = b[2]
      /\ d[5] = c[1] /\ d[6] = c[2] /\ d[7] = c[3] /\ d[8] = c[4]
  <2> DEFINE e == a \o b
  <2> HIDE DEF e
  <2>1. e \in Seq(StepRecords) /\ Len(e) = 4
        /\ e[1] = a[1] /\ e[2] = a[2] /\ e[3] = b[1] /\ e[4] = b[2]
    BY <1>4 DEF e
  <2>2. e \o c \in Seq(StepRecords) /\ Len(e \o c) = Len(e) + Len(c)
        /\ \A i \in 1 .. Len(e) + Len(c) : (e \o c)[i] = IF i <= Len(e) THEN e[i] ELSE c[i - Len(e)]
    BY <1>3, <2>1, ConcatProperties
  <2>3. d = e \o c
    BY DEF e
  <2> HIDE DEF d
  <2> QED
    BY SMTT(30), Z3T(30), <1>3, <2>1, <2>2, <2>3
<1>6. LogicalSteps = d
  BY DEF LogicalSteps, a, b, c
<1> QED
  BY <1>1, <1>2, <1>3, <1>5, <1>6

\* The tables are recorded and created one after the other, in the order of the list.
LEMMA CreateShardsAre ==
  LET n == Len(ShardList) IN
  /\ CreateShards \in Seq(StepRecords) /\ Len(CreateShards) = 2 * n
  /\ \A i \in 1..2 * n : CreateShards[i].type = "shard" /\ CreateShards[i].name \in Shards
  /\ \A i \in 1..2 * n : CreateShards[i].do = "create" =>
       i > 1 /\ CreateShards[i - 1] = Step("record", "shard", CreateShards[i].name)
  /\ \A s \in Shards : \E i \in 1..2 * n : CreateShards[i] = Step("create", "shard", s)
<1> DEFINE n == Len(ShardList)
           f == ShardList
<1>1. n \in Nat \ {0} /\ f \in [1..n -> Shards] /\ \A s \in Shards : \E i \in 1..n : f[i] = s
  BY ShardsAre
<1> HIDE DEF n, f
<1>2. CreateShards =
        [i \in 1..2 * n |-> Step(IF i % 2 = 1 THEN "record" ELSE "create", "shard", f[(i + 1) \div 2])]
  BY DEF CreateShards, n, f
<1>3. \A i \in 1..2 * n : (i + 1) \div 2 \in 1..n
  BY SMTT(30), Z3T(30), <1>1
<1>4. \A i \in 1..2 * n : i % 2 # 1 => i > 1 /\ (i - 1) % 2 = 1 /\ ((i - 1) + 1) \div 2 = (i + 1) \div 2
  BY SMTT(30), Z3T(30), <1>1
<1>5. \A i \in 1..n : 2 * i \in 1..2 * n /\ (2 * i) % 2 # 1 /\ (2 * i + 1) \div 2 = i
  BY SMTT(30), Z3T(30), <1>1
<1>6. CreateShards \in [1..2 * n -> StepRecords]
  BY <1>1, <1>2, <1>3 DEF Step, StepRecords
<1>7. 2 * n \in Nat
  BY SMTT(30), Z3T(30), <1>1
<1>8. CreateShards \in Seq(StepRecords) /\ Len(CreateShards) = 2 * n
  <2>1. CreateShards \in Seq(StepRecords)
    BY <1>6, <1>7, SeqDef
  <2>2. DOMAIN CreateShards = 1..2 * n /\ DOMAIN CreateShards = 1..Len(CreateShards) /\ Len(CreateShards) \in Nat
    BY <1>6, <2>1, LenProperties
  <2> QED
    BY SMTT(30), Z3T(30), <1>7, <2>1, <2>2
<1>9. \A i \in 1..2 * n : CreateShards[i].type = "shard" /\ CreateShards[i].name \in Shards
  BY <1>1, <1>2, <1>3 DEF Step
<1>10. \A i \in 1..2 * n : CreateShards[i].do = "create" =>
         i > 1 /\ CreateShards[i - 1] = Step("record", "shard", CreateShards[i].name)
  BY SMTT(30), Z3T(30), <1>1, <1>2, <1>4 DEF Step
<1>11. \A s \in Shards : \E i \in 1..2 * n : CreateShards[i] = Step("create", "shard", s)
  <2> TAKE s \in Shards
  <2>1. PICK i \in 1..n : f[i] = s
    BY <1>1
  <2>2. 2 * i \in 1..2 * n /\ (2 * i) % 2 # 1 /\ (2 * i + 1) \div 2 = i
    BY <1>5
  <2>3. CreateShards[2 * i] = Step("create", "shard", s)
    BY <1>2, <2>1, <2>2
  <2> QED
    BY <2>2, <2>3
<1> QED
  BY <1>8, <1>9, <1>10, <1>11 DEF n

\* What the proof needs of the steps: each is of a known kind; a table, a publication and
\* a slot are created right after their record; the tables come before everything else.
LEMMA StepsAre ==
  ASSUME Current \in Ops, move.logical \in BOOLEAN
  PROVE  /\ Len(Steps) \in Nat \ {0}
         /\ \A i \in 1..Len(Steps) :
              /\ Steps[i] \in StepRecords
              /\ Steps[i].type = "shard" => Steps[i].name \in Shards
              /\ Steps[i].do = "create" /\ Steps[i].type \in {"shard", "publication", "slot"} =>
                   i > 1 /\ Steps[i - 1] = Step("record", Steps[i].type, Steps[i].name)
              /\ Steps[i].type # "shard" =>
                   \A s \in Shards : \E j \in 1..i - 1 : Steps[j] = Step("create", "shard", s)
         /\ \A s \in Shards : \E j \in 1..Len(Steps) : Steps[j] = Step("create", "shard", s)
         /\ move.logical => \E j \in 1..Len(Steps) : Steps[j] = Step("create", "subscription", Current)
<1> DEFINE n == Len(ShardList)
           a == CreateShards
           b == IF move.logical THEN LogicalSteps ELSE <<>>
           c == Steps
<1>1. n \in Nat \ {0}
  BY ShardsAre
<1>2. /\ a \in Seq(StepRecords) /\ Len(a) = 2 * n
      /\ \A i \in 1..2 * n : a[i].type = "shard" /\ a[i].name \in Shards
      /\ \A i \in 1..2 * n : a[i].do = "create" => i > 1 /\ a[i - 1] = Step("record", "shard", a[i].name)
      /\ \A s \in Shards : \E i \in 1..2 * n : a[i] = Step("create", "shard", s)
  BY CreateShardsAre
<1>3. b \in Seq(StepRecords)
  BY LogicalStepsAre, EmptySeq
<1>4. c = a \o b
  BY DEF Steps, LogicalSteps
<1>5. \A i \in 1..Len(b) : i \in 1..8 /\ b = LogicalSteps
  <2>1. CASE move.logical
    BY <2>1, LogicalStepsAre
  <2>2. CASE ~move.logical
    <3>1. Len(b) = 0
      BY <2>2, EmptySeq
    <3> QED
      BY SMTT(30), Z3T(30), <3>1
  <2> QED
    BY <2>1, <2>2
<1>6. \A i \in 1..Len(b) : b[i].type # "shard"
  BY SMTT(30), Z3T(30), <1>5, LogicalStepsAre DEF Step
<1>7. \A i \in 1..Len(b) : b[i].do = "create" /\ b[i].type \in {"publication", "slot"} =>
        i > 1 /\ b[i - 1] = Step("record", b[i].type, b[i].name)
  <2> TAKE i \in 1..Len(b)
  <2> HAVE b[i].do = "create" /\ b[i].type \in {"publication", "slot"}
  <2>1. i \in 1..8 /\ b = LogicalSteps
    BY <1>5
  <2>2. i = 2 \/ i = 4
    BY SMTT(30), Z3T(30), <2>1, LogicalStepsAre DEF Step
  <2>3. CASE i = 2
    <3>1. b[i - 1] = LogicalSteps[1]
      BY SMTT(30), Z3T(30), <2>1, <2>3
    <3> QED
      BY SMTT(30), Z3T(30), <2>1, <2>3, <3>1, LogicalStepsAre DEF Step
  <2>4. CASE i = 4
    <3>1. b[i - 1] = LogicalSteps[3]
      BY SMTT(30), Z3T(30), <2>1, <2>4
    <3> QED
      BY SMTT(30), Z3T(30), <2>1, <2>4, <3>1, LogicalStepsAre DEF Step
  <2> QED
    BY <2>2, <2>3, <2>4
<1>8. move.logical => 7 \in 1..Len(b) /\ b[7] = Step("create", "subscription", Current)
  <2> HAVE move.logical
  <2>1. b = LogicalSteps
    OBVIOUS
  <2>2. Len(LogicalSteps) = 8 /\ LogicalSteps[7] = Step("create", "subscription", Current)
    BY LogicalStepsAre
  <2> HIDE DEF b
  <2> QED
    BY SMTT(30), Z3T(30), <2>1, <2>2
<1> HIDE DEF a, b, c, n
<1>9. /\ c \in Seq(StepRecords) /\ Len(c) = Len(a) + Len(b)
      /\ \A i \in 1 .. Len(a) + Len(b) : c[i] = IF i <= Len(a) THEN a[i] ELSE b[i - Len(a)]
  BY <1>2, <1>3, <1>4, ConcatProperties
<1>10. Len(b) \in Nat
  BY <1>3, LenProperties
<1>11. Len(c) \in Nat \ {0} /\ 2 * n \in 1..Len(c)
  BY SMTT(30), Z3T(30), <1>1, <1>2, <1>9, <1>10
<1>12. \A s \in Shards : \E j \in 1..2 * n : c[j] = Step("create", "shard", s)
  BY SMTT(30), Z3T(30), <1>1, <1>2, <1>9, <1>10
<1>13. ASSUME NEW i \in 1..Len(c)
       PROVE  /\ c[i] \in StepRecords
              /\ c[i].type = "shard" => c[i].name \in Shards
              /\ c[i].do = "create" /\ c[i].type \in {"shard", "publication", "slot"} =>
                   i > 1 /\ c[i - 1] = Step("record", c[i].type, c[i].name)
              /\ c[i].type # "shard" => 2 * n < i
  <2>0. c[i] \in StepRecords
    BY <1>9, ElementOfSeq
  <2>1. CASE i <= 2 * n
    BY SMTT(30), Z3T(30), <1>1, <1>2, <1>9, <1>10, <2>0, <2>1
  <2>2. CASE i > 2 * n
    <3>1. i - 2 * n \in 1..Len(b) /\ c[i] = b[i - 2 * n]
      BY SMTT(30), Z3T(30), <1>1, <1>2, <1>9, <1>10, <2>2
    <3>2. i - 2 * n > 1 => c[i - 1] = b[(i - 2 * n) - 1]
      BY SMTT(30), Z3T(30), <1>1, <1>2, <1>9, <1>10, <2>2
    <3> QED
      BY SMTT(30), Z3T(30), <1>1, <1>6, <1>7, <2>0, <2>2, <3>1, <3>2
  <2> QED
    BY SMTT(30), Z3T(30), <1>1, <2>1, <2>2
<1>14. move.logical => \E j \in 1..Len(c) : c[j] = Step("create", "subscription", Current)
  <2> HAVE move.logical
  <2>1. 2 * n + 7 \in 1..Len(c) /\ c[2 * n + 7] = b[7]
    BY SMTT(30), Z3T(30), <1>1, <1>2, <1>8, <1>9, <1>10
  <2> QED
    BY <1>8, <2>1
<1>15. \A i \in 1..Len(c) : c[i].type # "shard" =>
         \A s \in Shards : \E j \in 1..i - 1 : c[j] = Step("create", "shard", s)
  BY SMTT(30), Z3T(30), <1>1, <1>11, <1>12, <1>13
<1>16. \A s \in Shards : \E j \in 1..Len(c) : c[j] = Step("create", "shard", s)
  BY SMTT(30), Z3T(30), <1>1, <1>11, <1>12
<1>17. Len(c) \in Nat \ {0}
  BY <1>11
<1> QED
  BY <1>13, <1>14, <1>15, <1>16, <1>17 DEF c

\* They depend on the move only.
LEMMA StepsUnchanged ==
  ASSUME Current' = Current, move'.logical = move.logical
  PROVE  Steps' = Steps
BY DEF Steps, CreateShards, CreatePublications, CreateReplicationSlots, CreateSubscriptions

-----------------------------------------------------------------------------
(* The list of moves                                                       *)

\* The coordinator and the workers with metadata route queries.
LEMMA RouterFacts == Coordinator \in Routers /\ MetadataNodes \subseteq Routers \ {Coordinator}
BY MoveAssumption DEF MoveAssumption, Routers

\* The operations so far have ids from 1 on.
LEMMA OpsFacts ==
  ASSUME TypeOK
  PROVE  /\ Current \in Nat /\ Current <= MaxMoves /\ 1..Current \subseteq Ops
         /\ DOMAIN ops = 1..Current
         /\ \A o \in 1..Current : ops[o] \in OpRecords
<1>1. ops \in Seq(OpRecords) /\ Len(ops) <= MaxMoves /\ MaxMoves \in Nat
  BY MoveAssumption DEF TypeOK, MoveAssumption
<1>2. Len(ops) \in Nat /\ DOMAIN ops = 1..Len(ops) /\ ops \in [1..Len(ops) -> OpRecords]
  BY <1>1, LenProperties
<1> QED
  BY SMTT(30), Z3T(30), <1>1, <1>2 DEF Current, Ops

\* The end of a move changes its outcome only.
LEMMA OutcomeChange ==
  ASSUME TypeOK, Current \in Ops, NEW x \in {"running", "committed", "aborted"},
         ops' = [ops EXCEPT ![Current].outcome = x]
  PROVE  /\ ops' \in Seq(OpRecords) /\ Current' = Current /\ Len(ops') = Len(ops)
         /\ \A o \in 1..Current : /\ ops'[o].source = ops[o].source /\ ops'[o].target = ops[o].target
                                  /\ ops'[o].outcome = IF o = Current THEN x ELSE ops[o].outcome
<1>1. ops \in Seq(OpRecords) /\ Current \in 1..Len(ops)
  BY SMTT(30), Z3T(30), OpsFacts DEF TypeOK, Current, Ops
<1> DEFINE e == [ops[Current] EXCEPT !.outcome = x]
<1>2. /\ e \in OpRecords /\ e.source = ops[Current].source /\ e.target = ops[Current].target
      /\ e.outcome = x
  <2>1. ops[Current] \in OpRecords
    BY <1>1, ElementOfSeq
  <2> QED
    BY <2>1 DEF OpRecords
<1> HIDE DEF e
<1>3. ops' = [ops EXCEPT ![Current] = e]
  BY DEF e
<1>4. /\ ops' \in Seq(OpRecords) /\ Len(ops') = Len(ops)
      /\ \A j \in 1..Len(ops) : ops'[j] = IF j = Current THEN e ELSE ops[j]
  <2>1. /\ [ops EXCEPT ![Current] = e] \in Seq(OpRecords)
        /\ Len([ops EXCEPT ![Current] = e]) = Len(ops)
        /\ \A j \in 1..Len(ops) : [ops EXCEPT ![Current] = e][j] = IF j = Current THEN e ELSE ops[j]
    BY SMTT(30), Z3T(30), <1>1, <1>2, ExceptSeq
  <2> QED
    BY <1>3, <2>1
<1> QED
  BY SMTT(30), Z3T(30), <1>1, <1>2, <1>4 DEF Current

\* A new move leaves the earlier ones as they were.
LEMMA MoveAppended ==
  ASSUME TypeOK, Current < MaxMoves, NEW e \in OpRecords, ops' = Append(ops, e)
  PROVE  /\ ops' \in Seq(OpRecords) /\ Current' = Current + 1 /\ Current' \in Ops
         /\ \A o \in 1..Current : ops'[o] = ops[o]
         /\ ops'[Current'] = e
<1>1. ops \in Seq(OpRecords) /\ Len(ops) \in Nat /\ MaxMoves \in Nat
  BY OpsFacts, MoveAssumption DEF TypeOK, Current, MoveAssumption
<1>2. /\ ops' \in Seq(OpRecords) /\ Len(ops') = Len(ops) + 1
      /\ \A i \in 1..Len(ops) : ops'[i] = ops[i]
      /\ ops'[Len(ops) + 1] = e
  <2> DEFINE q == Append(ops, e)
  <2>1. /\ q \in Seq(OpRecords) /\ Len(q) = Len(ops) + 1
        /\ \A i \in 1..Len(ops) : q[i] = ops[i]
        /\ q[Len(ops) + 1] = e
    BY SMTT(30), Z3T(30), <1>1, AppendProperties
  <2> QED
    BY <2>1
<1> QED
  BY SMTT(30), Z3T(30), <1>1, <1>2 DEF Current, Ops

\* The move that runs.
LEMMA CurrentIs ==
  ASSUME TypeOK, MoveInv, ~At("idle")
  PROVE  /\ Current \in Ops /\ Current \in 1..Current /\ ops[Current] \in OpRecords
         /\ {Source, Target} \subseteq Nodes /\ Source = placement[Coordinator] /\ Target # Source
BY SMTT(30), Z3T(30), OpsFacts DEF MoveInv, Source, Target, OpRecords, Ops

\* What a move creates are objects there may be.
LEMMA ObjectTypes ==
  ASSUME TypeOK, NEW o \in 1..Current
  PROVE  /\ \A type \in {"subscription", "slot", "publication", "user"} : ObjectOf(o, type) \in AllObjects
         /\ \A s \in Shards : \A n \in Nodes : Table(s, n) \in AllObjects
BY OpsFacts DEF ObjectOf, Object, AllObjects, OpRecords, Table

\* What a step of the setup records or creates.
LEMMA StepTypes ==
  ASSUME TypeOK, MoveInv, ~At("idle"), NEW i \in 1..Len(Steps)
  PROVE  /\ Steps[i] \in StepRecords
         /\ Steps[i].type = "shard" => Steps[i].name \in Shards
         /\ StepObject(Steps[i]) \in AllObjects /\ StepObject(Steps[i]).type = Steps[i].type
         /\ StepRecord(Steps[i]) \in AllRecords
         /\ Steps[i].type = "shard" => StepObject(Steps[i]) = Table(Steps[i].name, Target)
         /\ Steps[i].type # "shard" => StepObject(Steps[i]).name = Current
<1>1. Current \in Ops /\ Current \in 1..Current /\ Target \in Nodes
  BY CurrentIs
<1>2. Steps[i] \in StepRecords /\ (Steps[i].type = "shard" => Steps[i].name \in Shards)
  BY <1>1, StepsAre DEF TypeOK, MoveStates
<1> DEFINE step == Steps[i]
<1> HIDE DEF step
<1>3. step \in StepRecords /\ (step.type = "shard" => step.name \in Shards)
  BY <1>2 DEF step
<1>4. StepObject(step) \in AllObjects /\ StepObject(step).type = step.type
  BY <1>1, <1>3, ObjectTypes DEF StepObject, Table, ObjectOf, Object, StepRecords
<1>5. StepRecord(step) \in AllRecords
  BY <1>1, <1>4 DEF StepRecord, Record, AllRecords
<1>6. step.type # "shard" => StepObject(step).name = Current
  BY DEF StepObject, ObjectOf, Object
<1> QED
  BY <1>3, <1>4, <1>5, <1>6 DEF step, StepObject

-----------------------------------------------------------------------------
(* Drops                                                                   *)

\* What a drop does to the data of a move.
LEMMA DropEffect ==
  ASSUME TypeOK, NEW object \in AllObjects, Drop(object)
  PROVE  /\ objects' \subseteq AllObjects /\ rows' \in [Shards \X Nodes -> SUBSET Writes]
         /\ replication' \in [Ops -> ReplicationStates]
         /\ \A s \in Shards : \A n \in Nodes : \A v :
              v \in rows'[<<s, n>>] <=> v \in rows[<<s, n>>] /\ Table(s, n) # object
         /\ \A o \in 1..Current :
              /\ replication'[o].linked \subseteq replication[o].linked
              /\ object.type = "shard" => object.name \notin replication'[o].linked
                                          \/ object.node \notin {ops[o].source, ops[o].target}
              /\ object.type # "shard" /\ object.name # o => replication'[o] = replication[o]
              /\ replication[o] = NoReplication => replication'[o] = NoReplication
              /\ object.type = "shard" => /\ replication'[o].applied = replication[o].applied
                                          /\ replication'[o].start = replication[o].start
                                          /\ replication'[o].enabled = replication[o].enabled
         /\ \A o \in Ops \ 1..Current : replication'[o] = replication[o]
<1>1. DOMAIN ops = 1..Current /\ 1..Current \subseteq Ops
  BY OpsFacts
<1>2. objects' \subseteq AllObjects
  BY DEF Drop, TypeOK
<1>3. /\ rows' \in [Shards \X Nodes -> SUBSET Writes]
      /\ \A s \in Shards : \A n \in Nodes : \A v :
           v \in rows'[<<s, n>>] <=> v \in rows[<<s, n>>] /\ Table(s, n) # object
  BY DEF Drop, TypeOK
<1>4. \A o \in 1..Current : replication'[o] = ReplicationWithout(object, o)
  BY <1>1 DEF Drop
<1>5. \A o \in Ops \ 1..Current : replication'[o] = replication[o]
  BY <1>1 DEF Drop
<1>6. ASSUME NEW o \in 1..Current
      PROVE  /\ ReplicationWithout(object, o) \in ReplicationStates
             /\ ReplicationWithout(object, o).linked \subseteq replication[o].linked
             /\ object.type = "shard" => object.name \notin ReplicationWithout(object, o).linked
                                         \/ object.node \notin {ops[o].source, ops[o].target}
             /\ object.type # "shard" /\ object.name # o => ReplicationWithout(object, o) = replication[o]
             /\ replication[o] = NoReplication => ReplicationWithout(object, o) = NoReplication
             /\ object.type = "shard" => /\ ReplicationWithout(object, o).applied = replication[o].applied
                                         /\ ReplicationWithout(object, o).start = replication[o].start
                                         /\ ReplicationWithout(object, o).enabled = replication[o].enabled
  <2> DEFINE repl == replication[o]
  <2>1. repl \in ReplicationStates
    <3>1. o \in Ops
      BY <1>1
    <3> QED
      BY <3>1 DEF TypeOK
  <2> HIDE DEF repl
  <2>2. /\ ObjectOf(o, "slot").type = "slot" /\ ObjectOf(o, "slot").name = o
        /\ ObjectOf(o, "subscription").type = "subscription" /\ ObjectOf(o, "subscription").name = o
    BY DEF ObjectOf, Object
  <2>3. ReplicationWithout(object, o) \in ReplicationStates
    BY <2>1 DEF ReplicationWithout, ReplicationStates, repl
  <2>4. ReplicationWithout(object, o).linked \subseteq repl.linked
    BY <2>1 DEF ReplicationWithout, ReplicationStates, repl
  <2>5. object.type = "shard" =>
          /\ object.name \notin ReplicationWithout(object, o).linked
             \/ object.node \notin {ops[o].source, ops[o].target}
          /\ ReplicationWithout(object, o).applied = repl.applied
          /\ ReplicationWithout(object, o).start = repl.start
          /\ ReplicationWithout(object, o).enabled = repl.enabled
    BY <2>1, <2>2 DEF ReplicationWithout, ReplicationStates, repl
  <2>6. object.type # "shard" /\ object.name # o => ReplicationWithout(object, o) = repl
    BY <2>1, <2>2 DEF ReplicationWithout, ReplicationStates, repl
  <2>7. repl = NoReplication => ReplicationWithout(object, o) = NoReplication
    <3> HAVE repl = NoReplication
    <3>1. repl.start = 0 /\ repl.applied = 0 /\ repl.linked = {} /\ ~repl.enabled /\ ~repl.owned
      BY DEF NoReplication
    <3> DEFINE new == ReplicationWithout(object, o)
    <3>2. /\ new.start = 0 /\ new.applied = 0 /\ new.linked = {} /\ ~new.enabled /\ ~new.owned
      <4> HIDE DEF NoReplication
      <4>1. new.start = 0 /\ new.applied = 0
        BY <3>1 DEF ReplicationWithout, repl
      <4>2. new.linked = {}
        BY <2>3, <2>4, <3>1 DEF ReplicationStates
      <4>3. ~new.enabled
        BY <3>1 DEF ReplicationWithout, repl
      <4>4. ~new.owned
        BY <3>1 DEF ReplicationWithout, repl
      <4> QED
        BY <4>1, <4>2, <4>3, <4>4
    <3> QED
      BY <2>3, <3>2 DEF ReplicationStates, NoReplication
  <2> QED
    BY <2>3, <2>4, <2>5, <2>6, <2>7 DEF repl
<1>7. replication' \in [Ops -> ReplicationStates]
  <2>1. ASSUME NEW o \in Ops PROVE replication'[o] \in ReplicationStates
    <3>1. CASE o \in 1..Current
      BY <1>4, <1>6, <3>1
    <3>2. CASE o \notin 1..Current
      BY <1>5, <3>2 DEF TypeOK
    <3> QED
      BY <3>1, <3>2
  <2> QED
    BY <2>1 DEF Drop
<1> QED
  BY SMTT(30), Z3T(30), <1>2, <1>3, <1>4, <1>5, <1>6, <1>7

\* Every step keeps the types of the variables.
LEMMA TypeStep ==
  ASSUME TypeOK, MoveInv, RouterInv, SetupInv, Next
  PROVE  TypeOK'
<1>0. /\ move \in MoveStates /\ cleaner \in [Cleaners -> CleanerStates]
      /\ replication \in [Ops -> ReplicationStates] /\ write \in [Writes -> WriteStates]
      /\ rows \in [Shards \X Nodes -> SUBSET Writes] /\ records \subseteq AllRecords
      /\ opLock \in [Ops -> Cleaners \cup {"none", "move"}] /\ exclusive \in [Routers -> Ops \cup {None}]
  BY DEF TypeOK
<1>1. ASSUME NEW n \in Nodes, NEW logical \in BOOLEAN, TransferShards(n, logical) PROVE TypeOK'
  <2>1. move' \in MoveStates
    BY <1>1, <1>0 DEF TransferShards, MoveStates, IdleMove
  <2>2. ops' \in Seq(OpRecords) /\ Len(ops') <= MaxMoves
    <3>1. Current < MaxMoves /\ placement[Coordinator] \in Nodes
      BY <1>1, RouterFacts DEF TransferShards, Current, TypeOK
    <3> DEFINE e == [source |-> placement[Coordinator], target |-> n, outcome |-> "running"]
    <3>2. e \in OpRecords /\ ops' = Append(ops, e)
      BY <1>1, <3>1 DEF TransferShards, OpRecords
    <3> HIDE DEF e
    <3>3. ops' \in Seq(OpRecords) /\ Current' \in Ops
      BY <3>1, <3>2, MoveAppended
    <3> QED
      BY SMTT(30), Z3T(30), <3>3 DEF Ops, Current
  <2> QED
    BY <1>1, <2>1, <2>2 DEF TransferShards, TypeOK
<1>2. ASSUME NEW r \in Routers, BlockWritesToShardList(r) PROVE TypeOK'
  <2>1. move' \in MoveStates
    BY <1>2, <1>0 DEF BlockWritesToShardList, MoveStates
  <2>2. exclusive' \in [Routers -> Ops \cup {None}]
    BY <1>2, CurrentIs DEF BlockWritesToShardList, LockShardDistributionMetadata, TypeOK, At
  <2> QED
    BY <1>2, <2>1, <2>2 DEF BlockWritesToShardList, TypeOK
<1>3. CASE DropOrphanedResourcesInSeparateTransaction
  <2>1. move' \in MoveStates
    BY <1>3, <1>0 DEF DropOrphanedResourcesInSeparateTransaction, MoveStates
  <2>2. cleaner' \in [Cleaners -> CleanerStates]
    <3>1. [IdleCleaner EXCEPT !.pc = "loop", !.list = records] \in CleanerStates
      BY <1>0 DEF IdleCleaner, CleanerStates
    <3> QED
      BY <1>3, <1>0, <3>1 DEF DropOrphanedResourcesInSeparateTransaction
  <2> QED
    BY <1>3, <2>1, <2>2 DEF DropOrphanedResourcesInSeparateTransaction, TypeOK
<1>4. CASE CleanupFailed
  <2>1. move' \in MoveStates
    BY <1>4, <1>0 DEF CleanupFailed, Abort, MoveStates, IdleMove
  <2>2. ops' \in Seq(OpRecords) /\ Len(ops') <= MaxMoves
    BY <1>4, CurrentIs, OutcomeChange DEF CleanupFailed, Abort, TypeOK, At
  <2>3. exclusive' \in [Routers -> Ops \cup {None}]
    BY <1>4, <1>0 DEF CleanupFailed, Abort
  <2>4. opLock' \in [Ops -> Cleaners \cup {"none", "move"}]
    BY <1>4, <1>0 DEF CleanupFailed, Abort
  <2> QED
    BY <1>4, <2>1, <2>2, <2>3, <2>4 DEF CleanupFailed, TypeOK, Abort
<1>5. CASE RegisterOperationNeedingCleanup
  <2>1. move' \in MoveStates
    BY <1>5, <1>0 DEF RegisterOperationNeedingCleanup, MoveStates
  <2>2. opLock' \in [Ops -> Cleaners \cup {"none", "move"}]
    BY <1>5, <1>0 DEF RegisterOperationNeedingCleanup
  <2> QED
    BY <1>5, <2>1, <2>2 DEF RegisterOperationNeedingCleanup, TypeOK
<1>6. CASE InsertCleanupRecordOutsideTransaction
  <2>0. StepRecord(Steps[move.step]) \in AllRecords
    BY <1>6, StepTypes DEF InsertCleanupRecordOutsideTransaction, At, SetupInv
  <2>1. move' \in MoveStates
    <3>1. move.step + 1 \in Nat
      BY SMTT(30), Z3T(30), <1>0 DEF MoveStates
    <3> QED
      BY <1>6, <1>0, <3>1 DEF InsertCleanupRecordOutsideTransaction, NextStep, MoveStates
  <2>2. records' \subseteq AllRecords
    BY <1>6, <2>0 DEF InsertCleanupRecordOutsideTransaction, TypeOK, ThisStep
  <2>3. replication' \in [Ops -> ReplicationStates]
    <3>1. Current \in Ops
      BY <1>6, CurrentIs DEF InsertCleanupRecordOutsideTransaction, At
    <3> QED
      <4> DEFINE b == replication[Current].owned \/ ThisStep.type = "subscription"
      <4>1. b \in BOOLEAN
        OBVIOUS
      <4>2. replication' = [replication EXCEPT ![Current].owned = b]
        BY <1>6 DEF InsertCleanupRecordOutsideTransaction
      <4> HIDE DEF b
      <4> QED
        BY <1>0, <3>1, <4>1, <4>2 DEF ReplicationStates
  <2> QED
    BY <1>6, <2>1, <2>2, <2>3 DEF InsertCleanupRecordOutsideTransaction, TypeOK
<1>7. CASE CreateObject
  <2>0. StepObject(Steps[move.step]) \in AllObjects
    BY <1>7, StepTypes DEF CreateObject, At, SetupInv
  <2>1. move' \in MoveStates
    <3>1. move.step + 1 \in Nat
      BY SMTT(30), Z3T(30), <1>0 DEF MoveStates
    <3> QED
      BY <1>7, <1>0, <3>1 DEF CreateObject, NextStep, MoveStates
  <2>2. objects' \subseteq AllObjects
    BY <1>7, <2>0 DEF CreateObject, TypeOK, ThisStep
  <2>3. replication' \in [Ops -> ReplicationStates]
    <3>1. Current \in Ops /\ Len(wal[Source]) \in Nat
      BY <1>7, CurrentIs, LenProperties DEF CreateObject, TypeOK, At
    <3>2. CASE ThisStep.type = "slot"
      <4>1. [replication[Current] EXCEPT !.start = Len(wal[Source]), !.applied = Len(wal[Source])]
              \in ReplicationStates
        BY <1>0, <3>1 DEF ReplicationStates
      <4> QED
        BY <1>7, <1>0, <3>2, <4>1 DEF CreateObject
    <3>3. CASE ThisStep.type = "subscription"
      <4>1. [replication[Current] EXCEPT !.linked = Shards] \in ReplicationStates
        BY <1>0, <3>1 DEF ReplicationStates
      <4> QED
        BY <1>7, <1>0, <3>3, <4>1 DEF CreateObject
    <3> QED
      BY <1>7, <1>0, <3>2, <3>3 DEF CreateObject
  <2> QED
    BY <1>7, <2>1, <2>2, <2>3 DEF CreateObject, TypeOK
<1>8. CASE CopyShardsToNode
  <2>1. move' \in MoveStates
    BY <1>8, <1>0 DEF CopyShardsToNode, MoveStates
  <2>2. rows' \in [Shards \X Nodes -> SUBSET Writes]
    <3>1. \A s \in Shards : SnapshotRows(s) \subseteq Writes
      BY <1>8, CurrentIs DEF CopyShardsToNode, SnapshotRows, TypeOK, At
    <3> QED
      BY <1>8, <3>1 DEF CopyShardsToNode, TypeOK
  <2> QED
    BY <1>8, <2>1, <2>2 DEF CopyShardsToNode, TypeOK
<1>9. CASE EnableSubscriptions
  <2>1. move' \in MoveStates
    BY <1>9, <1>0 DEF EnableSubscriptions, MoveStates
  <2>2. replication' \in [Ops -> ReplicationStates]
    BY <1>9, <1>0, CurrentIs DEF EnableSubscriptions, ReplicationStates, At
  <2> QED
    BY <1>9, <2>1, <2>2 DEF EnableSubscriptions, TypeOK
<1>10. CASE GetRemoteLogPosition
  <2>0. Len(wal[Source]) \in Nat
    BY <1>10, CurrentIs, LenProperties DEF GetRemoteLogPosition, TypeOK, At
  <2>1. move' \in MoveStates
    BY <1>10, <1>0, <2>0 DEF GetRemoteLogPosition, MoveStates
  <2> QED
    BY <1>10, <2>1 DEF GetRemoteLogPosition, TypeOK
<1>11. CASE WaitForAllSubscriptionsToCatchUp
  <2>1. move' \in MoveStates
    BY <1>11, <1>0 DEF WaitForAllSubscriptionsToCatchUp, MoveStates
  <2> QED
    BY <1>11, <2>1 DEF WaitForAllSubscriptionsToCatchUp, TypeOK
<1>12. CASE FinalizeOperationNeedingCleanupOnSuccess
  <2>1. PICK r \in First(ToFinalize) : FinalizeRecord(r)
    BY <1>12 DEF FinalizeOperationNeedingCleanupOnSuccess
  <2>2. r \in AllRecords /\ r.object \in AllObjects
    BY DEF First, ToFinalize, TypeOK, AllRecords
  <2>3. move' \in MoveStates
    <3>1. TypeRank[r.object.type] \in Nat
      BY SMTT(30), Z3T(30), <2>2 DEF AllObjects, TypeRank
    <3> QED
      BY <1>0, <2>1, <3>1 DEF MoveStates, FinalizeRecord
  <2>4. CASE Droppable(r.object) /\ Drop(r.object) /\ records' = records \ {r} /\ UNCHANGED faults
    <3>1. /\ objects' \subseteq AllObjects /\ rows' \in [Shards \X Nodes -> SUBSET Writes]
          /\ replication' \in [Ops -> ReplicationStates]
      BY <2>2, <2>4, DropEffect
    <3>2. wal' = wal
      BY <2>4 DEF Drop
    <3> QED
      BY <2>1, <2>3, <2>4, <3>1, <3>2 DEF TypeOK, FinalizeRecord
  <2>5. CASE ~Droppable(r.object) /\ UNCHANGED <<data, records, faults>>
    BY <2>1, <2>3, <2>5 DEF TypeOK, FinalizeRecord
  <2>6. CASE Fault /\ UNCHANGED <<data, records>>
    <3>1. faults' \in 0..MaxFaults
      BY SMTT(30), Z3T(30), <2>6, MoveAssumption DEF Fault, TypeOK, MoveAssumption
    <3> QED
      BY <2>1, <2>3, <2>6, <3>1 DEF TypeOK, FinalizeRecord
  <2> QED
    BY <2>1, <2>4, <2>5, <2>6 DEF FinalizeRecord
<1>13. CASE CommitMove
  <2>1. move' \in MoveStates
    BY <1>13, <1>0 DEF CommitMove, MoveStates, IdleMove
  <2>2. ops' \in Seq(OpRecords) /\ Len(ops') <= MaxMoves
    BY <1>13, CurrentIs, OutcomeChange DEF CommitMove, TypeOK, At
  <2>3. exclusive' \in [Routers -> Ops \cup {None}]
    BY <1>13, <1>0 DEF CommitMove
  <2>4. placement' \in [Routers -> Nodes]
    BY <1>13, CurrentIs, RouterFacts DEF CommitMove, TypeOK, At
  <2>5. opLock' \in [Ops -> Cleaners \cup {"none", "move"}]
    BY <1>13, <1>0 DEF CommitMove
  <2>6. records' \subseteq AllRecords
    BY SMTT(30), Z3T(30), <1>13, CurrentIs, ObjectTypes DEF CommitMove, TypeOK, At,
       InsertCleanupRecordsForShardPlacementsOnNode, AllRecords, Record
  <2> QED
    BY <1>13, <2>1, <2>2, <2>3, <2>4, <2>5, <2>6 DEF CommitMove, TypeOK
<1>14. CASE PrepareMoveFails
  <2>1. move' \in MoveStates
    BY <1>14, <1>0 DEF PrepareMoveFails, Abort, MoveStates, IdleMove
  <2>2. ops' \in Seq(OpRecords) /\ Len(ops') <= MaxMoves
    BY <1>14, CurrentIs, OutcomeChange DEF PrepareMoveFails, Abort, TypeOK, At
  <2>3. exclusive' \in [Routers -> Ops \cup {None}]
    BY <1>14, <1>0 DEF PrepareMoveFails, Abort
  <2>4. opLock' \in [Ops -> Cleaners \cup {"none", "move"}]
    BY <1>14, <1>0 DEF PrepareMoveFails, Abort
  <2> QED
    BY <1>14, <2>1, <2>2, <2>3, <2>4 DEF PrepareMoveFails, TypeOK, Abort
<1>15. CASE MoveFails
  <2>1. move' \in MoveStates
    BY <1>15, <1>0 DEF MoveFails, Abort, MoveStates, IdleMove
  <2>2. ops' \in Seq(OpRecords) /\ Len(ops') <= MaxMoves
    BY <1>15, CurrentIs, OutcomeChange DEF MoveFails, Abort, TypeOK
  <2>3. exclusive' \in [Routers -> Ops \cup {None}]
    BY <1>15, <1>0 DEF MoveFails, Abort
  <2>4. opLock' \in [Ops -> Cleaners \cup {"none", "move"}]
    BY <1>15, <1>0 DEF MoveFails, Abort
  <2>5. faults' \in 0..MaxFaults
    BY SMTT(30), Z3T(30), <1>15, MoveAssumption DEF MoveFails, Fault, TypeOK, MoveAssumption
  <2> QED
    BY <1>15, <2>1, <2>2, <2>3, <2>4, <2>5 DEF MoveFails, TypeOK, Abort
<1>16. ASSUME NEW n \in MetadataNodes, EndMoveOnWorker(n) PROVE TypeOK'
  <2>1. exclusive' \in [Routers -> Ops \cup {None}]
    BY <1>16, <1>0 DEF EndMoveOnWorker
  <2>2. placement' \in [Routers -> Nodes]
    <3>1. exclusive[n] \in Ops
      BY <1>16, RouterFacts DEF EndMoveOnWorker, TypeOK
    <3>2. exclusive[n] \in 1..Current => ops[exclusive[n]].target \in Nodes
      BY OpsFacts DEF OpRecords
    <3> QED
      BY <1>16, <3>1, <3>2, RouterFacts DEF EndMoveOnWorker, TypeOK, RouterInv, RouterOK
  <2> QED
    BY <1>16, <2>1, <2>2 DEF EndMoveOnWorker, TypeOK
<1>17. ASSUME NEW n \in MetadataNodes, WorkerCrash(n) PROVE TypeOK'
  <2>1. exclusive' \in [Routers -> Ops \cup {None}]
    BY <1>17, <1>0 DEF WorkerCrash
  <2>2. faults' \in 0..MaxFaults
    BY SMTT(30), Z3T(30), <1>17, MoveAssumption DEF WorkerCrash, Fault, TypeOK, MoveAssumption
  <2>3. write' \in [Writes -> WriteStates]
    BY <1>17, RouterFacts, MoveAssumption DEF WorkerCrash, AbortWritesOf, Ended, TypeOK, WriteStates,
       MoveAssumption
  <2> QED
    BY <1>17, <2>1, <2>2, <2>3 DEF WorkerCrash, TypeOK
<1>18. ASSUME NEW o \in DOMAIN ops, ApplyChange(o) PROVE TypeOK'
  <2>1. rows' \in [Shards \X Nodes -> SUBSET Writes]
    <3> DEFINE v == wal[ops[o].source][replication[o].applied + 1]
    <3>1. o \in Ops /\ ops[o].source \in Nodes /\ ops[o].target \in Nodes
      BY OpsFacts DEF OpRecords
    <3>2. wal[ops[o].source] \in Seq(Writes) /\ replication[o].applied \in Nat
      BY <3>1 DEF TypeOK, ReplicationStates
    <3>3. v \in Writes
      <4>1. replication[o].applied + 1 \in 1..Len(wal[ops[o].source])
        <5>1. replication[o].applied < Len(wal[ops[o].source])
          BY <1>18 DEF ApplyChange
        <5> QED
          BY SMTT(30), Z3T(30), <3>2, <5>1, LenProperties
      <4> QED
        BY <3>2, <4>1, ElementOfSeq
    <3>4. ShardOf[v] \in Shards
      BY <3>3, MoveAssumption DEF MoveAssumption
    <3> HIDE DEF v
    <3>5. rows' = rows \/ rows' = [rows EXCEPT ![<<ShardOf[v], ops[o].target>>] = @ \cup {v}]
      BY <1>18 DEF ApplyChange, v
    <3>6. rows \in [Shards \X Nodes -> SUBSET Writes] /\ <<ShardOf[v], ops[o].target>> \in Shards \X Nodes
      BY <1>0, <3>1, <3>4
    <3> QED
      BY SMTT(30), Z3T(30), <3>3, <3>5, <3>6
  <2>2. replication' \in [Ops -> ReplicationStates]
    <3>1. o \in Ops /\ replication[o].applied + 1 \in Nat
      BY SMTT(30), Z3T(30), <1>0, OpsFacts DEF ReplicationStates
    <3> QED
      BY <1>18, <1>0, <3>1 DEF ApplyChange, ReplicationStates
  <2>3. UNCHANGED <<metadata, objects, wal, cleanup, move, cleaner, write, faults>>
    BY <1>18 DEF ApplyChange
  <2> QED
    BY <2>1, <2>2, <2>3 DEF TypeOK
<1>19. ASSUME NEW c \in Cleaners, ListCleanupRecords(c) PROVE TypeOK'
  <2>1. cleaner' \in [Cleaners -> CleanerStates]
    <3>1. [IdleCleaner EXCEPT !.pc = "loop", !.list = records] \in CleanerStates
      BY <1>0 DEF IdleCleaner, CleanerStates
    <3> QED
      BY <1>19, <1>0, <3>1 DEF ListCleanupRecords
  <2> QED
    BY <1>19, <2>1 DEF ListCleanupRecords, TypeOK
<1>20. ASSUME NEW c \in Cleaners, TryLockOperationId(c) PROVE TypeOK'
  <2>1. opLock' \in [Ops -> Cleaners \cup {"none", "move"}]
    BY <1>20, <1>0 DEF TryLockOperationId, LockRecord
  <2>2. cleaner' \in [Cleaners -> CleanerStates]
    <3>1. PICK r \in First(cleaner[c].list) : LockRecord(c, r)
      BY <1>20 DEF TryLockOperationId
    <3>2. r \in AllRecords
      BY <1>0 DEF First, CleanerStates
    <3> QED
      BY SMTT(30), Z3T(30), <1>0, <3>1, <3>2 DEF LockRecord, CleanerStates
  <2> QED
    BY <1>20, <2>1, <2>2 DEF TryLockOperationId, TypeOK, LockRecord
<1>21. ASSUME NEW c \in Cleaners, TryDropResourceByCleanupRecordOutsideTransaction(c) PROVE TypeOK'
  <2>1. PICK r \in cleaner[c].current : DropRecord(c, r)
    BY <1>21 DEF TryDropResourceByCleanupRecordOutsideTransaction
  <2>2. r \in AllRecords /\ r.object \in AllObjects
    BY SMTT(30), Z3T(30) DEF TypeOK, CleanerStates, AllRecords
  <2>3. cleaner' \in [Cleaners -> CleanerStates]
    <3>1. cleaner \in [Cleaners -> CleanerStates]
      BY <1>0
    <3> QED
      BY SMTT(30), Z3T(30), <2>1, <2>2, <3>1 DEF DropRecord, CleanerStates
  <2>4. faults' \in 0..MaxFaults
    BY SMTT(30), Z3T(30), <2>1, MoveAssumption DEF DropRecord, Fault, TypeOK, MoveAssumption
  <2>5. CASE Drop(r.object)
    <3>1. /\ objects' \subseteq AllObjects /\ rows' \in [Shards \X Nodes -> SUBSET Writes]
          /\ replication' \in [Ops -> ReplicationStates]
      BY <2>2, <2>5, DropEffect
    <3>2. wal' = wal
      BY <2>5 DEF Drop
    <3> QED
      BY <2>1, <2>3, <2>4, <3>1, <3>2 DEF TypeOK, DropRecord
  <2>6. CASE UNCHANGED data
    BY <2>1, <2>3, <2>4, <2>6 DEF TypeOK, DropRecord
  <2> QED
    BY <2>1, <2>5, <2>6 DEF DropRecord
<1>22. ASSUME NEW c \in Cleaners, CommitCleanup(c) PROVE TypeOK'
  <2>1. records' \subseteq AllRecords
    BY <1>22 DEF CommitCleanup, TypeOK
  <2>2. opLock' \in [Ops -> Cleaners \cup {"none", "move"}]
    BY <1>22 DEF CommitCleanup, TypeOK, ReleaseLocks, Cleaners
  <2>3. cleaner' \in [Cleaners -> CleanerStates]
    BY <1>22, <1>0 DEF CommitCleanup, CleanerStates, IdleCleaner
  <2>4. UNCHANGED <<metadata, data, move, write, faults>>
    BY <1>22 DEF CommitCleanup
  <2> QED
    BY <2>1, <2>2, <2>3, <2>4 DEF TypeOK
<1>23. ASSUME NEW c \in Cleaners, CleanupFails(c) PROVE TypeOK'
  <2>1. cleaner' \in [Cleaners -> CleanerStates]
    BY <1>23, <1>0 DEF CleanupFails, CleanerStates, IdleCleaner
  <2>2. move' \in MoveStates
    <3>1. IdleMove \in MoveStates
      BY DEF IdleMove, MoveStates
    <3> QED
      BY <1>23, <1>0, <3>1 DEF CleanupFails
  <2>3. ops' \in Seq(OpRecords) /\ Len(ops') <= MaxMoves
    BY <1>23, CurrentIs, OutcomeChange DEF CleanupFails, TypeOK, At
  <2>4. exclusive' \in [Routers -> Ops \cup {None}]
    BY <1>23, <1>0 DEF CleanupFails
  <2>5. opLock' \in [Ops -> Cleaners \cup {"none", "move"}]
    BY <1>23 DEF CleanupFails, TypeOK, ReleaseLocks, Cleaners
  <2>6. faults' \in 0..MaxFaults
    BY SMTT(30), Z3T(30), <1>23, MoveAssumption DEF CleanupFails, Fault, TypeOK, MoveAssumption
  <2>7. placement' \in [Routers -> Nodes]
    BY <1>23 DEF CleanupFails, TypeOK
  <2>8. UNCHANGED <<data, records, write>>
    BY <1>23 DEF CleanupFails
  <2> QED
    BY <2>1, <2>2, <2>3, <2>4, <2>5, <2>6, <2>7, <2>8 DEF TypeOK
<1>24. ASSUME NEW w \in Writes, NEW r \in Routers, CitusBeginModifyScan(w, r) PROVE TypeOK'
  <2>1. write' \in [Writes -> WriteStates]
    BY <1>24 DEF CitusBeginModifyScan, TypeOK, WriteStates
  <2> QED
    BY <1>24, <2>1 DEF CitusBeginModifyScan, TypeOK
<1>25. ASSUME NEW w \in Writes, CommitWrite(w) PROVE TypeOK'
  <2>0. write[w].node \in Nodes /\ ShardOf[w] \in Shards
    BY <1>25, MoveAssumption DEF TypeOK, MoveAssumption, WriteStates
  <2>1. write' \in [Writes -> WriteStates]
    BY SMTT(30), Z3T(30), <1>25, RouterFacts, MoveAssumption DEF CommitWrite, Ended, TypeOK, WriteStates, MoveAssumption
  <2>2. rows' \in [Shards \X Nodes -> SUBSET Writes]
    BY <2>0, <1>25 DEF CommitWrite, WriteRow, TypeOK
  <2>3. wal' \in [Nodes -> Seq(Writes)]
    BY SMTT(30), Z3T(30), <2>0, <1>25, AppendProperties DEF CommitWrite, WriteRow, TypeOK
  <2> QED
    BY <1>25, <2>1, <2>2, <2>3 DEF CommitWrite, TypeOK, WriteRow
<1>26. ASSUME NEW w \in Writes, AbortWrite(w) PROVE TypeOK'
  <2>1. write' \in [Writes -> WriteStates]
    BY <1>26, RouterFacts, MoveAssumption DEF AbortWrite, Ended, TypeOK, WriteStates, MoveAssumption
  <2> QED
    BY <1>26, <2>1 DEF AbortWrite, TypeOK
<1>27. ASSUME NEW w \in Writes, CommitPreparedLost(w) PROVE TypeOK'
  <2>1. write' \in [Writes -> WriteStates]
    BY <1>27, <1>0 DEF CommitPreparedLost, WriteStates
  <2>2. faults' \in 0..MaxFaults
    BY SMTT(30), Z3T(30), <1>27, MoveAssumption DEF CommitPreparedLost, Fault, TypeOK, MoveAssumption
  <2> QED
    BY <1>27, <2>1, <2>2 DEF CommitPreparedLost, TypeOK
<1>28. ASSUME NEW w \in Writes, RecoverWrite(w) PROVE TypeOK'
  <2>0. write[w].node \in Nodes /\ ShardOf[w] \in Shards
    BY <1>28, MoveAssumption DEF TypeOK, MoveAssumption, WriteStates
  <2>1. write' \in [Writes -> WriteStates]
    BY <1>28, RouterFacts, MoveAssumption DEF RecoverWrite, Ended, TypeOK, WriteStates, MoveAssumption
  <2>2. rows' \in [Shards \X Nodes -> SUBSET Writes]
    BY <2>0, <1>28 DEF RecoverWrite, WriteRow, TypeOK
  <2>3. wal' \in [Nodes -> Seq(Writes)]
    BY SMTT(30), Z3T(30), <2>0, <1>28, AppendProperties DEF RecoverWrite, WriteRow, TypeOK
  <2> QED
    BY <1>28, <2>1, <2>2, <2>3 DEF RecoverWrite, TypeOK, WriteRow
<1>29. CASE CoordinatorCrash
  <2>1. move' \in MoveStates
    BY <1>29, <1>0 DEF CoordinatorCrash, MoveStates, IdleMove
  <2>2. ops' \in Seq(OpRecords) /\ Len(ops') <= MaxMoves
    BY <1>29, CurrentIs, OutcomeChange DEF CoordinatorCrash, TypeOK
  <2>3. exclusive' \in [Routers -> Ops \cup {None}]
    BY <1>29, <1>0 DEF CoordinatorCrash
  <2>4. opLock' \in [Ops -> Cleaners \cup {"none", "move"}]
    BY <1>29 DEF CoordinatorCrash, TypeOK
  <2>5. cleaner' \in [Cleaners -> CleanerStates]
    BY <1>29, <1>0 DEF CoordinatorCrash, CleanerStates, IdleCleaner
  <2>6. faults' \in 0..MaxFaults
    BY SMTT(30), Z3T(30), <1>29, MoveAssumption DEF CoordinatorCrash, Fault, TypeOK, MoveAssumption
  <2>7. write' \in [Writes -> WriteStates]
    BY <1>29, RouterFacts, MoveAssumption DEF CoordinatorCrash, AbortWritesOf, Ended, TypeOK,
       WriteStates, MoveAssumption
  <2> QED
    BY <1>29, <2>1, <2>2, <2>3, <2>4, <2>5, <2>6, <2>7 DEF CoordinatorCrash, TypeOK
<1> QED
  BY <1>1, <1>2, <1>3, <1>4, <1>5, <1>6, <1>7, <1>8, <1>9, <1>10, <1>11, <1>12, <1>13, <1>14, <1>15,
     <1>16, <1>17, <1>18, <1>19, <1>20, <1>21, <1>22, <1>23, <1>24, <1>25, <1>26, <1>27, <1>28, <1>29 DEF Next, MoveStep, CleanerStep

-----------------------------------------------------------------------------
(* The inductive invariant is preserved                                    *)

\* The setup of the move goes on from where it was, whatever others do elsewhere.
LEMMA SetupKept ==
  ASSUME TypeOK, MoveInv, SetupInv, UNCHANGED <<ops, move>>,
         Registered =>
           /\ \A r \in records : r.op = Current => r \in records'
           /\ \A object \in objects :
                (object.type = "shard" /\ object.node = Target) \/ object.name = Current => object \in objects'
           /\ replication'[Current].linked = replication[Current].linked
  PROVE  SetupInv'
<1>1. /\ Current' = Current /\ Steps' = Steps /\ Target' = Target
      /\ Registered' = Registered /\ At("setup")' = At("setup") /\ At("finalize")' = At("finalize")
  BY StepsUnchanged DEF Current, Target, Registered, At
<1>2. \A step : StepRecord(step)' = StepRecord(step) /\ StepObject(step)' = StepObject(step)
  BY DEF StepRecord, StepObject, ObjectOf, Target, Current
<1>3. CASE Registered
  <2>0. ~At("idle")
    BY <1>3 DEF Registered, At
  <2>1. CASE At("setup")
    <3>1. ASSUME NEW j \in 1..move.step - 1 PROVE Done(Steps[j])'
      <4>0. PICK step : step = Steps[j]
        OBVIOUS
      <4>1. j \in 1..Len(Steps) /\ Done(step) /\ move.step \in 1..Len(Steps)
        BY SMTT(30), Z3T(30), <2>0, <2>1, <4>0, CurrentIs, StepsAre DEF SetupInv, TypeOK, MoveStates
      <4>2. /\ StepObject(step).type = step.type
            /\ step.type = "shard" => StepObject(step) = Table(step.name, Target)
            /\ step.type # "shard" => StepObject(step).name = Current
        BY <2>0, <4>0, <4>1, StepTypes
      <4>3. step.do = "record" => StepRecord(step)' \in records'
        BY <1>2, <1>3, <4>1 DEF Done, StepRecord, Record
      <4>4. step.do # "record" => StepObject(step)' \in objects'
        BY <1>2, <1>3, <4>1, <4>2 DEF Done, Table, Object
      <4>5. step.do # "record" /\ step.type = "subscription" => replication'[Current'].linked = Shards
        BY <1>1, <1>3, <4>1 DEF Done
      <4>6. Steps[j]' = step
        BY <1>1, <4>0
      <4> QED
        BY <4>3, <4>4, <4>5, <4>6 DEF Done
    <3> QED
      BY <1>1, <2>1, <3>1 DEF SetupInv, At
  <2>2. CASE ~At("setup")
    BY <1>1, <1>3, <2>2 DEF SetupInv, Table, Object
  <2> QED
    BY <2>1, <2>2
<1>4. CASE ~Registered
  BY <1>1, <1>4 DEF SetupInv, Registered, At
<1> QED
  BY <1>3, <1>4

\* The row of a write is added to its table and at the end of the log of its worker.
LEMMA WriteRowEffect ==
  ASSUME TypeOK, NEW w \in Writes, WriteRow(w)
  PROVE  /\ write[w].node \in Nodes /\ ShardOf[w] \in Shards /\ Table(ShardOf[w], write[w].node) \in objects
         /\ \A s \in Shards : \A n \in Nodes : \A v :
              v \in rows'[<<s, n>>] <=> v \in rows[<<s, n>>] \/ (v = w /\ s = ShardOf[w] /\ n = write[w].node)
         /\ \A n \in Nodes : /\ Len(wal[n]) \in Nat
                             /\ Len(wal'[n]) = IF n = write[w].node THEN Len(wal[n]) + 1 ELSE Len(wal[n])
                             /\ \A i \in 1..Len(wal[n]) : wal'[n][i] = wal[n][i]
         /\ wal'[write[w].node][Len(wal[write[w].node]) + 1] = w
<1>1. PICK n : n = write[w].node
  OBVIOUS
<1>2. n \in Nodes /\ ShardOf[w] \in Shards
  BY <1>1, MoveAssumption DEF TypeOK, WriteStates, MoveAssumption
<1>3. /\ Table(ShardOf[w], n) \in objects
      /\ rows' = [rows EXCEPT ![<<ShardOf[w], n>>] = rows[<<ShardOf[w], n>>] \cup {w}]
      /\ wal' = [wal EXCEPT ![n] = Append(wal[n], w)]
  BY <1>1 DEF WriteRow
<1>4. ASSUME NEW s \in Shards, NEW m \in Nodes
      PROVE  rows'[<<s, m>>] = IF s = ShardOf[w] /\ m = n THEN rows[<<s, m>>] \cup {w} ELSE rows[<<s, m>>]
  <2>1. rows \in [Shards \X Nodes -> SUBSET Writes] /\ <<s, m>> \in Shards \X Nodes
    BY DEF TypeOK
  <2>2. CASE s = ShardOf[w] /\ m = n
    BY <1>3, <2>1, <2>2
  <2>3. CASE ~(s = ShardOf[w] /\ m = n)
    <3>1. <<s, m>> # <<ShardOf[w], n>>
      BY <2>3
    <3> QED
      BY <1>3, <2>1, <2>3, <3>1
  <2> QED
    BY <2>2, <2>3
<1>5. ASSUME NEW m \in Nodes
      PROVE  /\ Len(wal[m]) \in Nat
             /\ Len(wal'[m]) = IF m = n THEN Len(wal[m]) + 1 ELSE Len(wal[m])
             /\ \A i \in 1..Len(wal[m]) : wal'[m][i] = wal[m][i]
             /\ m = n => wal'[m][Len(wal[m]) + 1] = w
  <2>1. wal[m] \in Seq(Writes) /\ Len(wal[m]) \in Nat
    BY LenProperties DEF TypeOK
  <2>2. wal'[m] = IF m = n THEN Append(wal[m], w) ELSE wal[m]
    BY <1>2, <1>3 DEF TypeOK
  <2>3. /\ Len(Append(wal[m], w)) = Len(wal[m]) + 1
        /\ \A i \in 1..Len(wal[m]) : Append(wal[m], w)[i] = wal[m][i]
        /\ Append(wal[m], w)[Len(wal[m]) + 1] = w
    BY SMTT(30), Z3T(30), <2>1, AppendProperties
  <2> QED
    BY <2>1, <2>2, <2>3
<1>6. Table(ShardOf[w], write[w].node) \in objects /\ wal'[write[w].node][Len(wal[write[w].node]) + 1] = w
  BY <1>1, <1>2, <1>3, <1>5
<1>7. write[w].node \in Nodes /\ ShardOf[w] \in Shards
  BY <1>1, <1>2
<1>8. ASSUME NEW s \in Shards, NEW m \in Nodes, NEW v
      PROVE  v \in rows'[<<s, m>>] <=> v \in rows[<<s, m>>] \/ (v = w /\ s = ShardOf[w] /\ m = write[w].node)
  <2>1. CASE s = ShardOf[w] /\ m = n
    <3>1. rows'[<<s, m>>] = rows[<<s, m>>] \cup {w}
      BY <1>4, <2>1
    <3> QED
      BY <1>1, <2>1, <3>1
  <2>2. CASE ~(s = ShardOf[w] /\ m = n)
    <3>1. rows'[<<s, m>>] = rows[<<s, m>>]
      BY <1>4, <2>2
    <3> QED
      BY <1>1, <2>2, <3>1
  <2> QED
    BY <2>1, <2>2
<1>9. \A m \in Nodes : /\ Len(wal[m]) \in Nat
                       /\ Len(wal'[m]) = IF m = write[w].node THEN Len(wal[m]) + 1 ELSE Len(wal[m])
                       /\ \A i \in 1..Len(wal[m]) : wal'[m][i] = wal[m][i]
  BY <1>1, <1>5
<1> QED
  BY <1>6, <1>7, <1>8, <1>9

\* What is still to be applied grows by a write on the source.
LEMMA LogGrows ==
  ASSUME TypeOK, MoveInv, ~At("idle"), UNCHANGED ops, NEW w \in Writes, WriteRow(w), NEW i \in Nat
  PROVE  /\ LogAfter(i) \subseteq LogAfter(i)' /\ LogAfter(i)' \subseteq LogAfter(i) \cup {w}
         /\ write[w].node = Source /\ i <= Len(wal[Source]) => w \in LogAfter(i)'
         /\ Len(wal[Source]) \in Nat /\ Len(wal'[Source]) \in Nat /\ Len(wal[Source]) <= Len(wal'[Source])
<1>1. Source' = Source /\ Source \in Nodes
  BY CurrentIs DEF Source, Current
<1>2. PICK a : a = wal[Source]
  OBVIOUS
<1>3. PICK b : b = wal'[Source]
  OBVIOUS
<1>4. LogAfter(i) = {a[j] : j \in i + 1 .. Len(a)} /\ LogAfter(i)' = {b[j] : j \in i + 1 .. Len(b)}
  BY <1>1, <1>2, <1>3 DEF LogAfter
<1>5. /\ Len(a) \in Nat /\ \A j \in 1..Len(a) : b[j] = a[j]
      /\ Len(b) = Len(a) \/ (Len(b) = Len(a) + 1 /\ b[Len(a) + 1] = w)
      /\ write[w].node = Source => Len(b) = Len(a) + 1 /\ b[Len(a) + 1] = w
  BY SMTT(30), Z3T(30), <1>1, <1>2, <1>3, WriteRowEffect
<1>6. LogAfter(i) \subseteq LogAfter(i)'
  BY SMTT(30), Z3T(30), <1>4, <1>5
<1>7. LogAfter(i)' \subseteq LogAfter(i) \cup {w}
  BY SMTT(30), Z3T(30), <1>4, <1>5
<1>8. write[w].node = Source /\ i <= Len(a) => w \in LogAfter(i)'
  BY SMTT(30), Z3T(30), <1>4, <1>5
<1> QED
  BY SMTT(30), Z3T(30), <1>2, <1>3, <1>5, <1>6, <1>7, <1>8

\* An entry of the log after a write was there before or is the write.
LEMMA LogPosition ==
  ASSUME TypeOK, NEW w \in Writes, WriteRow(w), NEW n \in Nodes, NEW i \in 1..Len(wal'[n])
  PROVE  \/ i \in 1..Len(wal[n]) /\ wal'[n][i] = wal[n][i] /\ wal[n][i] \in Writes
         \/ wal'[n][i] = w
<1>1. wal[n] \in Seq(Writes)
  BY DEF TypeOK
<1>2. PICK a : a = wal[n]
  OBVIOUS
<1>3. PICK b : b = wal'[n]
  OBVIOUS
<1>4. /\ Len(a) \in Nat /\ \A j \in 1..Len(a) : b[j] = a[j]
      /\ Len(b) = Len(a) \/ (Len(b) = Len(a) + 1 /\ b[Len(a) + 1] = w)
  BY SMTT(30), Z3T(30), <1>2, <1>3, WriteRowEffect
<1>5. i \in 1..Len(a) \/ b[i] = w
  BY SMTT(30), Z3T(30), <1>3, <1>4
<1>6. i \in 1..Len(a) => a[i] \in Writes
  BY <1>1, <1>2, ElementOfSeq
<1> QED
  BY <1>2, <1>3, <1>4, <1>5, <1>6

\* Positions of the log are ordered.
LEMMA PositionsOrdered ==
  ASSUME NEW i \in Nat, NEW j \in Nat, NEW k \in Nat, i <= j, j <= k PROVE i <= k
BY SMTT(30), Z3T(30)

\* No operation has the id that stands for none.
LEMMA NoneIsNoOp == None \notin Ops
BY SMTT(30), Z3T(30) DEF None, Ops

\* What is still to be applied are writes that have committed.
LEMMA LogTyped ==
  ASSUME TypeOK, MoveInv, WriteInv, ~At("idle"), NEW i \in Nat
  PROVE  LogAfter(i) \subseteq {w \in Writes : write[w].pc \in {"committed", "recovered"}}
<1>1. Source \in Nodes
  BY CurrentIs
<1>2. wal[Source] \in Seq(Writes) /\ Len(wal[Source]) \in Nat
  BY <1>1, LenProperties DEF TypeOK
<1>3. \A j \in 1..Len(wal[Source]) : wal[Source][j] \in Writes
  BY <1>2, ElementOfSeq
<1> QED
  BY SMTT(30), Z3T(30), <1>1, <1>2, <1>3 DEF LogAfter, WriteInv

-----------------------------------------------------------------------------
(* Writes                                                                  *)

USE DEF IInv

\* Nothing but a write changes, and it neither commits nor stops being committed.
LEMMA OnlyWritePreserves ==
  ASSUME IInv, TypeOK', WriteInv', UNCHANGED <<metadata, data, cleanup, move, cleaner>>,
         \A v \in Writes : write'[v].pc = "committed" <=> write[v].pc = "committed"
  PROVE  IInv'
<1>1. MoveInv' /\ RouterInv'
  BY DEF MoveInv, RouterInv, RouterOK, At, Current, Source, Target
<1>2. RecordInv' /\ OpLockInv'
  BY DEF RecordInv, RecordOK, OpLockInv, Known, Registered, At, Current
<1>3. CleanerInv'
  BY DEF CleanerInv, CleanerOK, Known, Registered, At, Current
<1>4. SetupInv'
  BY SetupKept
<1>5. LinkInv'
  BY DEF LinkInv, Known, Registered, At, Current
<1>6. LeftoversAreRecorded'
  BY DEF LeftoversAreRecorded, InUse, Recorded
<1>7. \A s \in Shards : Committed(s)' = Committed(s)
  BY DEF Committed
<1>8. DataInv'
  BY <1>7 DEF DataInv
<1>9. CopyInv'
  <2>1. /\ Current' = Current /\ Source' = Source /\ Target' = Target /\ Registered' = Registered
        /\ Blocked' = Blocked
        /\ \A pc \in {"enable", "position", "wait", "block", "finalize"} : At(pc)' = At(pc)
    BY DEF Current, Source, Target, Registered, Blocked, At
  <2>2. \A i \in Nat : LogAfter(i)' = LogAfter(i)
    BY <2>1 DEF LogAfter
  <2>3. CASE At("idle")
    BY <2>3 DEF CopyInv, At, Registered
  <2>4. CASE ~At("idle")
    <3>1. Current \in Ops
      BY <2>4, CurrentIs
    <3>2. replication[Current].applied \in Nat /\ move.position \in Nat
      BY <3>1 DEF TypeOK, ReplicationStates, MoveStates
    <3>3. LogAfter(move.position) \subseteq Writes
      BY <2>4, <3>2, LogTyped
    <3>4. At("wait") /\ move.locked = Routers /\ Blocked =>
            \A v \in LogAfter(move.position) : write'[v].pc # "committed"
      BY <3>3 DEF CopyInv
    <3>5. (At("enable") \/ At("position") \/ At("wait") \/ (At("block") /\ move.logical)) =>
            \A s \in Shards : Committed(s)' \subseteq rows[<<s, Target>>] \cup LogAfter(replication[Current].applied)
      BY <1>7 DEF CopyInv
    <3>6. At("finalize") /\ Blocked => \A s \in Shards : Committed(s)' \subseteq rows[<<s, Target>>]
      BY <1>7 DEF CopyInv
    <3>7. /\ Registered /\ ~At("finalize") => replication[Current].applied <= Len(wal[Source])
          /\ move.pc \in {"setup", "copy", "enable"} =>
               ~replication[Current].enabled /\ replication[Current].applied = replication[Current].start
      BY DEF CopyInv
    <3> QED
      BY <2>1, <2>2, <3>2, <3>4, <3>5, <3>6, <3>7 DEF CopyInv
  <2> QED
    BY <2>3, <2>4
<1> QED
  BY <1>1, <1>2, <1>3, <1>4, <1>5, <1>6, <1>8, <1>9

\* A write begins with a placement that is up to date.
LEMMA BeginPreserves ==
  ASSUME IInv, TypeOK', NEW w \in Writes, NEW r \in Routers, CitusBeginModifyScan(w, r)
  PROVE  IInv'
<1>1. WriteInv'
  BY SMTT(30), Z3T(30) DEF CitusBeginModifyScan, WriteInv
<1>2. \A v \in Writes : write'[v].pc = "committed" <=> write[v].pc = "committed"
  BY DEF CitusBeginModifyScan, TypeOK
<1> QED
  BY <1>1, <1>2, OnlyWritePreserves DEF CitusBeginModifyScan

\* A write that is rolled back leaves nothing.
LEMMA AbortWritePreserves ==
  ASSUME IInv, TypeOK', NEW w \in Writes, AbortWrite(w)
  PROVE  IInv'
<1>1. WriteInv'
  BY SMTT(30), Z3T(30) DEF AbortWrite, Ended, HoldsShareLock, WriteInv
<1>2. \A v \in Writes : write'[v].pc = "committed" <=> write[v].pc = "committed"
  BY DEF AbortWrite, Ended, HoldsShareLock, TypeOK
<1> QED
  BY <1>1, <1>2, OnlyWritePreserves DEF AbortWrite

\* A write that stays prepared is in no table and no log yet.
LEMMA CommitPreparedLostPreserves ==
  ASSUME IInv, TypeOK', NEW w \in Writes, CommitPreparedLost(w)
  PROVE  IInv'
<1>1. WriteInv'
  BY SMTT(30), Z3T(30) DEF CommitPreparedLost, WriteInv
<1>2. \A v \in Writes : write'[v].pc = "committed" <=> write[v].pc = "committed"
  BY DEF CommitPreparedLost, TypeOK, WriteStates
<1> QED
  BY <1>1, <1>2, OnlyWritePreserves DEF CommitPreparedLost

\* A write that commits through its router is on the placement in use and in its log.
LEMMA CommitWritePreserves ==
  ASSUME IInv, TypeOK', NEW w \in Writes, CommitWrite(w)
  PROVE  IInv'
<1>1. /\ UNCHANGED <<placement, exclusive, ops, records, opLock, move, cleaner, faults, objects, replication>>
      /\ write' = [write EXCEPT ![w] = Ended("committed")] /\ WriteRow(w) /\ write[w].pc = "executing"
  BY DEF CommitWrite, WriteRow
<1>2. /\ write[w].node \in Nodes /\ ShardOf[w] \in Shards /\ Table(ShardOf[w], write[w].node) \in objects
      /\ \A s \in Shards : \A n \in Nodes : \A v :
           v \in rows'[<<s, n>>] <=> v \in rows[<<s, n>>] \/ (v = w /\ s = ShardOf[w] /\ n = write[w].node)
  BY <1>1, WriteRowEffect
<1>3. write'[w].pc = "committed" /\ \A v \in Writes : v # w => write'[v] = write[v]
  BY <1>1 DEF TypeOK, Ended
<1>4. \A s \in Shards : \A n \in Nodes : rows[<<s, n>>] \subseteq rows'[<<s, n>>]
  BY <1>2
<1>5. MoveInv'
  BY <1>1 DEF MoveInv, At, Current, Source, Target
<1>6. RouterInv'
  BY <1>1 DEF RouterInv, RouterOK, At, Current
<1>7. WriteInv'
  <2>1. \A v \in Writes : write'[v].pc = "executing" => v # w /\ write'[v] = write[v]
    BY <1>3
  <2>2. ASSUME NEW n \in Nodes, NEW i \in 1..Len(wal'[n])
        PROVE  write'[wal'[n][i]].pc \in {"committed", "recovered"}
    <3>1. CASE i \in 1..Len(wal[n]) /\ wal'[n][i] = wal[n][i] /\ wal[n][i] \in Writes
      BY <1>3, <3>1 DEF WriteInv
    <3>2. CASE wal'[n][i] = w
      BY <1>3, <3>2
    <3>3. \/ i \in 1..Len(wal[n]) /\ wal'[n][i] = wal[n][i] /\ wal[n][i] \in Writes
          \/ wal'[n][i] = w
      BY <1>1, LogPosition
    <3> QED
      BY <3>1, <3>2, <3>3
  <2> QED
    BY <1>1, <2>1, <2>2 DEF WriteInv
<1>8. RecordInv'
  BY <1>1 DEF RecordInv, RecordOK, Known, Registered, At, Current
<1>9. OpLockInv'
  BY <1>1 DEF OpLockInv, Known, Registered, At, Current
<1>10. CleanerInv'
  BY <1>1 DEF CleanerInv, CleanerOK, Known, Registered, At, Current
<1>11. SetupInv'
  BY <1>1, SetupKept
<1>12. LinkInv'
  BY <1>1, <1>2 DEF LinkInv, Known, Registered, At, Current
<1>13. DataInv'
  <2>1. placement[Coordinator] \in Nodes /\ write[w].node = placement[Coordinator]
    BY <1>1, RouterFacts DEF WriteInv, RouterInv, RouterOK, TypeOK, WriteStates
  <2>2. \A s \in Shards : \A v \in Committed(s)' : v \in Committed(s) \/ (v = w /\ s = ShardOf[w])
    BY <1>3 DEF Committed
  <2> QED
    BY <1>1, <1>2, <1>4, <2>1, <2>2 DEF DataInv
<1>14. CopyInv'
  <2>1. CASE At("idle")
    BY <1>1, <2>1 DEF CopyInv, At, Registered
  <2>2. CASE ~At("idle")
    <3>1. Current \in Ops /\ Target \in Nodes /\ Source = placement[Coordinator]
      BY <2>2, CurrentIs
    <3>2. \A i \in Nat : /\ LogAfter(i) \subseteq LogAfter(i)' /\ LogAfter(i)' \subseteq LogAfter(i) \cup {w}
                         /\ write[w].node = Source /\ i <= Len(wal[Source]) => w \in LogAfter(i)'
      BY <1>1, <2>2, LogGrows
    <3>3. replication[Current].applied \in Nat /\ move.position \in Nat
      BY <3>1 DEF TypeOK, ReplicationStates, MoveStates
    <3>4. Len(wal[Source]) \in Nat /\ Len(wal'[Source]) \in Nat /\ Len(wal[Source]) <= Len(wal'[Source])
      BY <1>1, <2>2, <3>3, LogGrows
    <3>5. /\ Current' = Current /\ Source' = Source /\ Target' = Target /\ Registered' = Registered
          /\ Blocked' = Blocked
          /\ \A pc \in {"enable", "position", "wait", "block", "finalize"} : At(pc)' = At(pc)
      BY <1>1 DEF Current, Source, Target, Registered, Blocked, At
    <3> DEFINE applied == replication[Current].applied
               position == move.position
    <3>6. /\ LogAfter(applied) \subseteq LogAfter(applied)'
          /\ LogAfter(position)' \subseteq LogAfter(position) \cup {w}
      BY <1>1, <3>2, <3>3, <3>5
    <3>7. ~Blocked /\ write[w].node = Source
      <4>1. write[w].router \in Routers
        BY DEF TypeOK, WriteStates
      <4>2. exclusive[write[w].router] = None /\ write[w].node = placement[write[w].router]
        BY <1>1 DEF WriteInv
      <4>3. placement[write[w].router] = placement[Coordinator]
        BY <4>1, <4>2 DEF RouterInv, RouterOK
      <4> QED
        BY <3>1, <4>1, <4>2, <4>3, NoneIsNoOp DEF Blocked
    <3>8. ASSUME Registered /\ move.pc \in {"enable", "position", "wait", "block"}, NEW s \in Shards
          PROVE  Committed(s)' \subseteq rows'[<<s, Target>>] \cup LogAfter(applied)'
      <4>1. w \in LogAfter(applied)'
        BY <1>1, <3>2, <3>3, <3>5, <3>7, <3>8 DEF CopyInv, At
      <4>2. Committed(s) \subseteq rows[<<s, Target>>] \cup LogAfter(applied)
        BY <3>8 DEF CopyInv, Registered, At
      <4> QED
        BY <1>3, <1>4, <3>1, <3>6, <4>1, <4>2 DEF Committed
    <3>9. ~(At("finalize") /\ Blocked)
      BY <3>7
    <3>10. At("wait") /\ move.locked = Routers /\ Blocked =>
             \A v \in LogAfter(position)' : write'[v].pc # "committed"
      <4>1. LogAfter(position) \subseteq Writes
        BY <2>2, <3>3, LogTyped
      <4> QED
        BY <1>3, <3>6, <3>7, <4>1 DEF CopyInv
    <3>11. Registered /\ ~At("finalize") => replication[Current].applied <= Len(wal'[Source])
      BY <3>3, <3>4, PositionsOrdered DEF CopyInv
    <3>12. /\ replication'[Current'] = replication[Current] /\ wal'[Source'] = wal'[Source]
           /\ \A s \in Shards : rows'[<<s, Target'>>] = rows'[<<s, Target>>]
           /\ move' = move
      BY <1>1, <3>5
    <3>13. (At("enable") \/ At("position") \/ At("wait") \/ (At("block") /\ move.logical)) =>
             \A s \in Shards : Committed(s)' \subseteq rows'[<<s, Target>>] \cup LogAfter(applied)'
      BY <3>8 DEF At, Registered
    <3>14. move.pc \in {"setup", "copy", "enable"} =>
             ~replication[Current].enabled /\ replication[Current].applied = replication[Current].start
      BY DEF CopyInv
    <3> QED
      BY <3>5, <3>9, <3>10, <3>11, <3>12, <3>13, <3>14 DEF CopyInv
  <2> QED
    BY <2>1, <2>2
<1>15. LeftoversAreRecorded'
  BY <1>1 DEF LeftoversAreRecorded, InUse, Recorded
<1> QED
  BY <1>5, <1>6, <1>7, <1>8, <1>9, <1>10, <1>11, <1>12, <1>13, <1>14, <1>15

\* A recovered write is in a log and in a table that exists.
LEMMA RecoverWritePreserves ==
  ASSUME IInv, TypeOK', NEW w \in Writes, RecoverWrite(w)
  PROVE  IInv'
<1>1. /\ UNCHANGED <<placement, exclusive, ops, records, opLock, move, cleaner, faults, objects, replication>>
      /\ write' = [write EXCEPT ![w] = Ended("recovered")] /\ WriteRow(w) /\ write[w].pc = "prepared"
  BY DEF RecoverWrite, WriteRow
<1>2. /\ write[w].node \in Nodes /\ ShardOf[w] \in Shards /\ Table(ShardOf[w], write[w].node) \in objects
      /\ \A s \in Shards : \A n \in Nodes : \A v :
           v \in rows'[<<s, n>>] <=> v \in rows[<<s, n>>] \/ (v = w /\ s = ShardOf[w] /\ n = write[w].node)
  BY <1>1, WriteRowEffect
<1>3. write'[w].pc = "recovered" /\ \A v \in Writes : v # w => write'[v] = write[v]
  BY <1>1 DEF TypeOK, Ended
<1>4. \A s \in Shards : \A n \in Nodes : rows[<<s, n>>] \subseteq rows'[<<s, n>>]
  BY <1>2
<1>5. MoveInv'
  BY <1>1 DEF MoveInv, At, Current, Source, Target
<1>6. RouterInv'
  BY <1>1 DEF RouterInv, RouterOK, At, Current
<1>7. WriteInv'
  <2>1. \A v \in Writes : write'[v].pc = "executing" => v # w /\ write'[v] = write[v]
    BY <1>3
  <2>2. ASSUME NEW n \in Nodes, NEW i \in 1..Len(wal'[n])
        PROVE  write'[wal'[n][i]].pc \in {"committed", "recovered"}
    <3>1. CASE i \in 1..Len(wal[n]) /\ wal'[n][i] = wal[n][i] /\ wal[n][i] \in Writes
      BY <1>3, <3>1 DEF WriteInv
    <3>2. CASE wal'[n][i] = w
      BY <1>3, <3>2
    <3>3. \/ i \in 1..Len(wal[n]) /\ wal'[n][i] = wal[n][i] /\ wal[n][i] \in Writes
          \/ wal'[n][i] = w
      BY <1>1, LogPosition
    <3> QED
      BY <3>1, <3>2, <3>3
  <2> QED
    BY <1>1, <2>1, <2>2 DEF WriteInv
<1>8. RecordInv'
  BY <1>1 DEF RecordInv, RecordOK, Known, Registered, At, Current
<1>9. OpLockInv'
  BY <1>1 DEF OpLockInv, Known, Registered, At, Current
<1>10. CleanerInv'
  BY <1>1 DEF CleanerInv, CleanerOK, Known, Registered, At, Current
<1>11. SetupInv'
  BY <1>1, SetupKept
<1>12. LinkInv'
  BY <1>1, <1>2 DEF LinkInv, Known, Registered, At, Current
<1>13. DataInv'
  <2>1. placement[Coordinator] \in Nodes
    BY RouterFacts DEF TypeOK
  <2>2. \A s \in Shards : Committed(s)' \subseteq Committed(s)
    BY <1>3 DEF Committed
  <2> QED
    BY <1>1, <1>4, <2>1, <2>2 DEF DataInv
<1>14. CopyInv'
  <2>1. CASE At("idle")
    BY <1>1, <2>1 DEF CopyInv, At, Registered
  <2>2. CASE ~At("idle")
    <3>1. Current \in Ops /\ Target \in Nodes /\ Source = placement[Coordinator]
      BY <2>2, CurrentIs
    <3>2. \A i \in Nat : /\ LogAfter(i) \subseteq LogAfter(i)' /\ LogAfter(i)' \subseteq LogAfter(i) \cup {w}
                         /\ write[w].node = Source /\ i <= Len(wal[Source]) => w \in LogAfter(i)'
      BY <1>1, <2>2, LogGrows
    <3>3. replication[Current].applied \in Nat /\ move.position \in Nat
      BY <3>1 DEF TypeOK, ReplicationStates, MoveStates
    <3>4. Len(wal[Source]) \in Nat /\ Len(wal'[Source]) \in Nat /\ Len(wal[Source]) <= Len(wal'[Source])
      BY <1>1, <2>2, <3>3, LogGrows
    <3>5. /\ Current' = Current /\ Source' = Source /\ Target' = Target /\ Registered' = Registered
          /\ Blocked' = Blocked
          /\ \A pc \in {"enable", "position", "wait", "block", "finalize"} : At(pc)' = At(pc)
      BY <1>1 DEF Current, Source, Target, Registered, Blocked, At
    <3> DEFINE applied == replication[Current].applied
               position == move.position
    <3>6. /\ LogAfter(applied) \subseteq LogAfter(applied)'
          /\ LogAfter(position)' \subseteq LogAfter(position) \cup {w}
      BY <1>1, <3>2, <3>3, <3>5
    <3>7. \A s \in Shards : Committed(s)' \subseteq Committed(s)
      BY <1>3 DEF Committed
    <3>8. ASSUME Registered /\ move.pc \in {"enable", "position", "wait", "block"}, NEW s \in Shards
          PROVE  Committed(s)' \subseteq rows'[<<s, Target>>] \cup LogAfter(applied)'
      <4>1. Committed(s) \subseteq rows[<<s, Target>>] \cup LogAfter(applied)
        BY <3>8 DEF CopyInv, Registered, At
      <4> QED
        BY <1>4, <3>1, <3>6, <3>7, <4>1
    <3>9. At("finalize") /\ Blocked => \A s \in Shards : Committed(s)' \subseteq rows'[<<s, Target>>]
      BY <1>4, <3>1, <3>7 DEF CopyInv
    <3>10. At("wait") /\ move.locked = Routers /\ Blocked =>
             \A v \in LogAfter(position)' : write'[v].pc # "committed"
      <4>1. LogAfter(position) \subseteq Writes
        BY <2>2, <3>3, LogTyped
      <4> QED
        BY <1>3, <3>6, <3>7, <4>1 DEF CopyInv
    <3>11. Registered /\ ~At("finalize") => replication[Current].applied <= Len(wal'[Source])
      BY <3>3, <3>4, PositionsOrdered DEF CopyInv
    <3>12. /\ replication'[Current'] = replication[Current] /\ wal'[Source'] = wal'[Source]
           /\ \A s \in Shards : rows'[<<s, Target'>>] = rows'[<<s, Target>>]
           /\ move' = move
      BY <1>1, <3>5
    <3>13. (At("enable") \/ At("position") \/ At("wait") \/ (At("block") /\ move.logical)) =>
             \A s \in Shards : Committed(s)' \subseteq rows'[<<s, Target>>] \cup LogAfter(applied)'
      BY <3>8 DEF At, Registered
    <3>14. move.pc \in {"setup", "copy", "enable"} =>
             ~replication[Current].enabled /\ replication[Current].applied = replication[Current].start
      BY DEF CopyInv
    <3> QED
      BY <3>5, <3>9, <3>10, <3>11, <3>12, <3>13, <3>14 DEF CopyInv
  <2> QED
    BY <2>1, <2>2
<1>15. LeftoversAreRecorded'
  BY <1>1 DEF LeftoversAreRecorded, InUse, Recorded
<1> QED
  BY <1>5, <1>6, <1>7, <1>8, <1>9, <1>10, <1>11, <1>12, <1>13, <1>14, <1>15
=============================================================================
