SPECIFICATION Spec
CONSTANTS
  t1 = t1
  t2 = t2
  t3 = t3
  root = root
  child = child
  other = other
  third = third
  NoSpan = NoSpan
  Spans <- MCSpans
  TraceOf <- MCTraceOf
  ParentOf <- MCParentOf
  Configs <- MCConfigs
  Linkable = {root}
  Scale = 2
  Limit = 2
  TTL = 1
  MaxTime = 1
CHECK_DEADLOCK FALSE
SYMMETRY Symmetric
INVARIANTS
  FailuresAreKept
  WholeTraces
  KeptForAReason
PROPERTIES
  FailureBringsTheRest
