SPECIFICATION Spec
CONSTANTS
  Xacts = {t1}
  OuterXacts = {}
  Workers = {w1, w2}
  Gids <- MCGids
  XactOf <- MCXactOf
  WorkerOf <- MCWorkerOf
  Statements = {"read", "write"}
  MaxFailures = 1
  None = None
SYMMETRY NodeSymmetry
INVARIANTS IInv Agreement DecisionIsDurable
PROPERTIES ImplementsAtomicCommit
