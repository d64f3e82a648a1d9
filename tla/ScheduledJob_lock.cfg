SPECIFICATION SchedulerFairSpec
CONSTANTS
  w1 = w1
  w2 = w2
  w3 = w3
  Workers <- MCThreeWorkers
  LockTTL = 3
  Timeout = 3
  ReleaseDelay = 1
  DriftTolerance = 2
  Skew <- MCSkew
  NoWorker = NoWorker
INVARIANT MutualExclusion
PROPERTIES RunsKeepApart LockNeverStuck
