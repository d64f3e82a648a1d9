SPECIFICATION FairCallsSpec
CONSTANTS
  c1 = c1
  c2 = c2
  Calls <- MCCalls
  FailureThreshold = 2
  RecoveryTimeout = 2
  NSteps = 3
  Idempotent = {2}
  Kinds <- MCKinds
  Statuses = {401}
  Exceptions = {"TimeoutException"}
  RetryOn = {"timeout", "connection", "server", "rate_limit"}
  RetryAll = {"read"}
  MaxAttempts = 2
  MaxDeferrals = 2
  FailFast = {"auth", "credential", "config", "validation", "mode"}
  MaxFailurePercent = 50
  CollectErrors = TRUE
INVARIANTS NonIdempotentOnce RolledBack
PROPERTIES CoolsDown Recovers FlowsEnd
