SPECIFICATION FairSpec
CONSTANTS
  TransactionNodes = {1, 2, 3}
  LocalNodes = {1, 2}
  WaitsForLists <- MCWaitsForLists
INVARIANTS SearchIsComplete PathIsCycle StackFits IInv
PROPERTIES SearchEnds
