CONSTANTS
  Threads = {t1, t2}
  BatchSize = 1
  QueueCap = 2
  BuffSize = 1
  Scenarios <- MCScenarios
  MaxLoops = 2
  MaxConns = 3
SPECIFICATION FairSpec
CHECK_DEADLOCK FALSE
INVARIANT EventsFollowConnections
PROPERTIES LostOnlyWithConnection LoopGoesOn
