SPECIFICATION FairSpec
CONSTANTS
  Jobs = {j1, j2}
  Correlations = {e1}
  MaxTries = 2
  Errors = {"permanent", "retryable", "unknown"}
  PermanentErrors = {"permanent"}
  RetryableErrors = {"retryable"}
  RetentionDays = 1
  ArchiveDays = 2
  MaxDays = 3
  MaxReplays = 1
  Marks = {"resolved"}
INVARIANTS GivenUpIsReported NothingStranded CleanedIsSettled
PROPERTY JobsEnd
CHECK_DEADLOCK FALSE
