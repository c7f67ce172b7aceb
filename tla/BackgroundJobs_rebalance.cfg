SPECIFICATION FairSpec
CONSTANTS
  Plans <- TwoPlans
  MaxBackgroundTaskExecutors = 2
  MaxBackgroundTaskExecutorsPerNode = 1
  MaxWorkerProcesses = 2
  RetryLimit = 1
  MaxFaults = 1
  MaxCancels = 1
INVARIANTS TypeOK MovesRunInOrder CommitsOnce NodeLimitHolds IInv
PROPERTIES FinishedTasksStay CancellingEnds JobSettles
CHECK_DEADLOCK FALSE
