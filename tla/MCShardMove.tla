---------------------------- MODULE MCShardMove ----------------------------
EXTENDS ShardMoveInv

CONSTANTS n1, n2, coordinator, s1

MCShardList == <<s1>>
MCShardOf == [w \in Writes |-> s1]
=============================================================================
