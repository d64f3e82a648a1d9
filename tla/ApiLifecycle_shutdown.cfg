\* Two requests, one of them a probe, and every resource but the ones that
\* add nothing to the order; a worker with two jobs.
CONSTANTS
  q1 = q1
  q2 = q2
  j1 = j1
  j2 = j2
  Requests <- MCRequests
  Probes <- MCProbes
  Order <- MCOrder
  WorkerJobs <- MCJobs
  WorkerOrder <- MCWorkerOrder
SPECIFICATION ProcessSpec
INVARIANTS HandledHaveResources NothingForgotten ReadyIsHonest HooksKeepHouse
PROPERTY StopsInTheEnd
CHECK_DEADLOCK FALSE
