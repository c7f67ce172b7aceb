SPECIFICATION Spec
CONSTANTS
  Nodes = {1, 2}
  Xacts <- SameNumber
  Locals = {}
  Initiator <- MCInitiator
  Backend <- MCBackend
  Number <- MCNumber
  Stamp <- MCStamp
  Locks <- TwoLocks
  LockNode <- MCLockNode
  MaxFailures = 0
  None = None
INVARIANTS VictimIsParticipant
CHECK_DEADLOCK FALSE
