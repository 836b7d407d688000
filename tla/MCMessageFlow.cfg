SPECIFICATION FairSpec
CONSTANTS
  Messages = {m1, m2}
  NoMessage = NoMessage
  Workers = {w1, w2}
  MaxRetries = 2
  Capacities = {1, 2}
  BatchLimit = 2
INVARIANTS
  CountsAreExact
  DeadLettersAreTraceable
  BatchAttemptsAll
PROPERTIES
  PoisonReachesDeadQueue
CHECK_DEADLOCK FALSE
