SPECIFICATION Spec
CONSTANTS
  n1 = n1
  n2 = n2
  coordinator = coordinator
  s1 = s1
  Nodes = {n1, n2}
  MetadataNodes = {n2}
  Coordinator = coordinator
  FirstNode = n1
  ShardList <- MCShardList
  Writes = {1}
  ShardOf <- MCShardOf
  MaxMoves = 1
  MaxFaults = 1
INVARIANTS NoPreparedWriteLeftBehind
CHECK_DEADLOCK FALSE
