SPECIFICATION FairSpec
CONSTANTS
  NumSubs = 2
  TypeOf <- TwoTypes
  Closers = {c1, c2}
  QueueSize = 2
  BackoffMin = 1
  BackoffMax = 3
  MaxEvents = 3
  MaxTime = 3
INVARIANTS
  ExactlyOnceInOrder
  OrderlyShutdown
  BackoffFollowsFailures
PROPERTIES
  ImplementsDelivery
  ShutdownReturns
