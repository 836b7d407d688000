SPECIFICATION Spec
CONSTANTS
  Writers = {f1, f2}
  NoWriter = NoWriter
  Loggers = {l1, l2}
  MaxFiles = 2
  MaxNow = 3
  Partitions = {p1, p2}
  Recorders = {r1, r2}
  Nobody = Nobody
  Keys = {k1, k2, k3}
  MaxGeneration = 0
  CorrelationKeys = {o1, o2}
  TTLs = {0, 1}
  MaxParks = 2
  Callers = {c1, c2}
  MessageIDs = {m1, m2, m3}
  NoID = NoID
  PartitionKeys = {k1, k2}
  MaxSeq = 2
  WindowSize = 2
  Durations = {0, 1}
  PerTick = 1
  Interval = 2
  MaxKeys = 2
  MaxCount = 4
  MaxElapsed = 3
  Window = 3
  TargetPart = 50
  CompactAbove = 1
  MaxObserved = 4
  Baselines = {1, 2}
  Lookaheads = {1, 2, 4}
SYMMETRY LogSymmetry
INVARIANTS
  WindowExact
  GapsAccounted
  SpanNamesOwnState
  WindowIsExact
  RatesHold
  LiveFileStays
  RetrievedOnce
CHECK_DEADLOCK FALSE
