CONSTANTS
  Libs = {a}
  NSlots = 1
  Workers = {w1}
  NLoops = 2
  QueueCap = 1
  MaxTime = 2
  MaxReloads = 2
  MaxTasks = 2
  None = None
  NoTask = NoTask
  GlobalNs = GlobalNs
SPECIFICATION Spec
CHECK_DEADLOCK FALSE
INVARIANT TasksCarryNamespace
