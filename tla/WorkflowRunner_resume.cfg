SPECIFICATION RunnerFairSpec
CONSTANTS
  N = 3
  Compensable <- MCCompensable
  MaxAttempts <- MCMaxAttempts
  Branches <- MCForward
  MaxTime = 3
  MaxPolls = 1
  MaxCalls = 20
INVARIANTS SessionRetryBudget
PROPERTIES EventuallyTerminal ImplementsSaga
CHECK_DEADLOCK FALSE
