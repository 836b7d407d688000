SPECIFICATION Spec
CONSTANTS
  NumSteps = 3
  MaxAttempts = 2
  Runners = {r1, r2}
  Rollers = {q1, q2}
  MaxRollbacks = 2
  Overlap = TRUE
INVARIANT NeverForward
CHECK_DEADLOCK FALSE
