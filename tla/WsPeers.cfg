CONSTANTS
  NLoops = 2
  Fds = {f1,f2}
  Workers = {w1}
  QueueCap = 1
  BufCap = 2
  MaxConns = 3
  MaxEvents = 3
  MaxRepeats = 2
  NoFd = NoFd
SPECIFICATION Spec
CHECK_DEADLOCK FALSE
CONSTRAINT FewAtOnce
SYMMETRY Symmetry
INVARIANTS TypeOK RightPeer HandshakeFirst SubscribersServed
