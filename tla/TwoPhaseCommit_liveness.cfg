SPECIFICATION FairSpec
CONSTANTS
  Xacts = {t1}
  OuterXacts = {t1}
  Workers = {w1}
  Gids <- MCGids
  XactOf <- MCXactOf
  WorkerOf <- MCWorkerOf
  Statements = {"node", "write"}
  MaxFailures = 2
  None = None
PROPERTIES PreparedIsResolved RecordIsDeleted TransactionEnds
INVARIANTS IInv DecisionIsDurable
