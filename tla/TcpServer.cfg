CONSTANTS
  c1 = c1
  c2 = c2
  Conns = {c1, c2}
  Fds = {5, 6}
  NL = 2
  NW = 2
  HeaderLen = 2
  AckLen = 2
  BuffSize = 5
  QueueCap = 1
  Scenarios <- MCScenarios
SPECIFICATION FairSpec
CHECK_DEADLOCK FALSE
INVARIANTS RegisteredTogether Framing TasksSeeCore
PROPERTIES HandedRuns StopEnds
