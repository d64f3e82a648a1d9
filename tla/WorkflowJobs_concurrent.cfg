SPECIFICATION FairSpec
CONSTANTS
  N = 3
  Compensable <- MCCompensable
  MaxAttempts <- MCMixedAttempts
  Workers = {w1, w2}
  Jobs = {j1, j2}
  MaxTries = 2
  Overrides <- MCJump
  NoJob = NoJob
INVARIANTS NoStepLost FailedMeansCompensated
PROPERTIES JobsSettle
CHECK_DEADLOCK FALSE
