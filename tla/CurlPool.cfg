CONSTANTS
  QueueCap = 2
  Limit = 1
  Fds = {3, 4}
  MaxEvents = 3
SPECIFICATION FairSpec
INVARIANT TransfersTracked
PROPERTY EventsServed
CHECK_DEADLOCK FALSE
