CONSTANTS
  NLoops = 1
  Fds = {f1,f2}
  Workers = {w1}
  QueueCap = 1
  BufCap = 2
  MaxConns = 2
  MaxEvents = 2
  MaxRepeats = 1
  NoFd = NoFd
SPECIFICATION Spec
CHECK_DEADLOCK FALSE
INVARIANT QueriesAreSet
