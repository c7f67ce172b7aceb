SPECIFICATION Spec
CONSTANTS
  Plans <- TwoPlans
  MaxBackgroundTaskExecutors = 2
  MaxBackgroundTaskExecutorsPerNode = 1
  MaxWorkerProcesses = 2
  RetryLimit = 1
  MaxFaults = 0
  MaxCancels = 1
INVARIANTS TerminalJobHasTerminalTasks
CHECK_DEADLOCK FALSE
