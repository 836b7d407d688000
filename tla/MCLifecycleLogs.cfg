SPECIFICATION Spec
CONSTANTS
  Callers = {c1, c2}
  MaxInits = 2
INVARIANT LatestDecidesLogs
CHECK_DEADLOCK FALSE
