SPECIFICATION FairSpec
CONSTANTS
  Callers = {c1, c2}
  MaxInits = 2
INVARIANTS
  NothingLeaks
  GlobalsAreLive
  LatestKeepsItsSinks
PROPERTIES
  ShutdownReturns
\* Once every Init has been made and undone nobody has to call again.
CHECK_DEADLOCK FALSE
