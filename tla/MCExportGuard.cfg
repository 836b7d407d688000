SPECIFICATION FairSpec
CONSTANTS
  Threads = {t1, t2}
  Exporters = {x1, x2}
  FailureThreshold = 2
  SuccessThreshold = 2
  Timeout = 1
  Burst = 1
  Rate = 1
  Token = 2
INVARIANTS
  CountersMatchState
  LazyRefillExact
PROPERTIES
  EarnsItsTransitions
  BreakerRecovers
