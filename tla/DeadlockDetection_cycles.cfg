SPECIFICATION FairSpec
CONSTANTS
  Nodes = {1, 2}
  Xacts <- OnePerNode
  Locals <- OneLocal
  Initiator <- MCInitiator
  Backend <- MCBackend
  Number <- MCNumber
  Stamp <- MCStamp
  Locks <- TwoLocks
  LockNode <- MCLockNode
  MaxFailures = 1
  None = None
INVARIANTS TypeOK DetectedDeadlockIsReal
PROPERTIES DeadlockIsResolved
CHECK_DEADLOCK FALSE
