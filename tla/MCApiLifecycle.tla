--------------------------- MODULE MCApiLifecycle ---------------------------
(* An API process with its probes, or a worker process: they share nothing *)
(* but Redis, so a behaviour is one of either.                             *)
EXTENDS HealthChecks, WorkerProcess

CONSTANTS q1, q2, j1, j2

MCRequests == {q1, q2}
MCProbes == {q1}
MCOrder == <<"database", "cache", "queue", "limiter", "sentry">>
MCJobs == {j1, j2}
MCWorkerOrder == <<"queue", "database", "cache", "limiter", "sentry">>

VARIABLE process

all_vars == <<process, health_vars, worker_vars>>

ProcessInit == process \in {"api", "worker"} /\ HealthInit /\ WorkerInit

ApiStep == process = "api" /\ HealthNext /\ UNCHANGED <<process, worker_vars>>

WorkerStep == process = "worker" /\ WorkerNext /\ UNCHANGED <<process, health_vars>>

(* FairSpec of ApiLifecycle for the API process. *)
ProcessSpec ==
  /\ ProcessInit /\ [][ApiStep \/ WorkerStep]_all_vars
  /\ WF_vars(Startup /\ UNCHANGED <<process, probe_vars, worker_vars>>)
  /\ WF_vars(Shutdown /\ UNCHANGED <<process, probe_vars, worker_vars>>)
=============================================================================
