CONSTANTS
  Libs = {a, b, c}
  NSlots = 2
  Workers = {w1, w2}
  NLoops = 1
  QueueCap = 1
  MaxTime = 2
  MaxReloads = 2
  MaxTasks = 0
  None = None
  NoTask = NoTask
  GlobalNs = GlobalNs
SPECIFICATION Spec
SYMMETRY Symmetry
CHECK_DEADLOCK FALSE
INVARIANTS ExecutesMapped OneSlotPerFile TableCurrent
PROPERTIES SlotStable OnlyChangedClosed
