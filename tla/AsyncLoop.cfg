CONSTANTS
  MaxTasks = 2
  Delays = {0, 1}
  MaxTime = 3
  Jump = 1
SPECIFICATION LoopFairSpec
INVARIANT TasksOnTime
PROPERTY DueRuns
CHECK_DEADLOCK FALSE
