SPECIFICATION Spec
CONSTANTS
  NumSubs = 2
  TypeOf <- OneType
  Closers = {c1, c2}
  QueueSize = 1
  BackoffMin = 1
  BackoffMax = 3
  MaxEvents = 1
  MaxTime = 1
INVARIANT SkippedOnlyAfterOwnFailure
