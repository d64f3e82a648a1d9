SPECIFICATION Spec
CONSTANTS
  N = 2
  Compensable <- MCCompensable
  MaxAttempts <- MCTwoAttempts
  Workers = {w1}
  Jobs = {j1, j2, j3}
  MaxTries = 1
  Overrides <- MCNoOverrides
  NoJob = NoJob
INVARIANTS RetryBudget
CHECK_DEADLOCK FALSE
