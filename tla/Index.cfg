CONSTANTS
  k1 = k1
  k2 = k2
  Keys <- TwoKeys
  NShards = 2
  ShardOf <- OneShardEach
  Adders = {a1}
  Expirers = {x1, x2}
  Ttls = {0}
  StopAttempts = 2
  MaxClock = 2
  MaxAdded = 3
  NoEvent = NoEvent
SPECIFICATION IndexFairSpec
CHECK_DEADLOCK FALSE
INVARIANTS IndexTypeOK OneExpirer EachEventLeavesOnce DestroyedIsQuiet
PROPERTIES OnlyDueExpire DueLeaves
