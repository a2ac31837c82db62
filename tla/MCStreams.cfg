CONSTANTS
  Kinds = {"by", "coalesce", "project", "ratio", "moving_event", "fixed_event",
           "stable_event", "moving_time", "fixed_time", "stable", "throttle",
           "stable_metric", "rate", "ddt", "percentiles", "counter",
           "targets"}
  Threads = {t1, t2}
  N = 2
  DT = 2
  Ttl = 1
  LastTime = 4
  MaxCalls = 4
  MaxSteps = 3
  MaxTokens = 5
  MaxChars = 6
SPECIFICATION MCSpec
INVARIANTS Windows HoldBack LatestPerKey Measures  QueriesMean CodecsReadBack
