SPECIFICATION Spec
CONSTANTS
  Xacts = {t1, t2}
  OuterXacts = {}
  Workers = {w1}
  Gids <- MCGids
  XactOf <- MCXactOf
  WorkerOf <- MCWorkerOf
  Statements = {"write"}
  MaxFailures = 1
  None = None
SYMMETRY XactSymmetry
INVARIANTS CommitOnlyAfterDecision RecordUntilResolved
PROPERTIES RecoverySparesActive
