SPECIFICATION FairSpec
CONSTANTS
  NumSteps = 3
  MaxAttempts = 2
  Runners = {r1, r2}
  Rollers = {q1, q2}
  MaxRollbacks = 2
  Overlap = FALSE
INVARIANTS
  ReverseOrder
  RollbackExact
PROPERTIES
  Lifecycle
  FailureIsRolledBack
\* A workflow that has run and been rolled back has nothing more to do.
CHECK_DEADLOCK FALSE
