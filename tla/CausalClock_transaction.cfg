SPECIFICATION Spec
CONSTANTS
  Nodes = {"n1", "n2"}
  Sessions = {"x", "r", "a"}
  NodeOf <- MCNodeOf
  Remotes <- MCRemotes
  Epochs = {1, 2}
  MaxCounter = 1
  MaxLogical = 2
  LogVals = 1
  MaxCrashes = 1
INVARIANTS TypeOK TransactionClockIsKept
PROPERTIES ClockMovesForward
CHECK_DEADLOCK FALSE
