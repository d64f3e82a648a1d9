--------------------------- MODULE WorkerProcess ---------------------------
(***************************************************************************)
(* One ARQ worker process after another on one queue                       *)
(* (core/worker/functions.py, settings.py): the startup hook opens the     *)
(* resources of the jobs and keeps their closers on a stack in ctx, the    *)
(* shutdown hook unwinds the stack it finds there.  ARQ calls the hooks,   *)
(* picks and cancels the jobs and keeps the heartbeat, which the internal  *)
(* health endpoint reads.                                                  *)
(*                                                                         *)
(* A signal cancels whatever the process awaits.  CancelledError is no     *)
(* Exception, so the handlers of the openings and of startup let it pass.  *)
(***************************************************************************)
EXTENDS Naturals, Sequences

CONSTANTS
  WorkerJobs,  \* jobs a process may run at a time (bounds WORKER_MAX_JOBS)
  WorkerOrder  \* what startup pushes closers for; the queue handle is first

(* Opened with a ping; the others leave nothing behind when they raise.    *)
WorkerPinged == {"cache", "limiter"}

ASSUME WorkerAssumption ==
  /\ WorkerOrder \in Seq({"queue", "database", "sentry"} \cup WorkerPinged)
  /\ Len(WorkerOrder) > 0 /\ WorkerOrder[1] = "queue"
  /\ \A i, j \in 1..Len(WorkerOrder) : WorkerOrder[i] = WorkerOrder[j] => i = j

WorkerResources == {WorkerOrder[i] : i \in 1..Len(WorkerOrder)}

(* queue.pool, cache.client and rate_limiter.client *)
WorkerHandles == WorkerResources \cap ({"queue"} \cup WorkerPinged)

VARIABLES
  worker,     \* "off", "starting", "failed", "polling", "closing", "unwinding" or "exited"
  told,       \* a signal arrived: no more jobs are picked
  in_ctx,     \* ctx holds the stack
  held,       \* closers on the stack: those of WorkerOrder[1..held]
  doing,      \* the resource being opened or closed, in a set
  open,       \* resources that are open; ARQ itself opens and closes the queue's pool
  handles,    \* handles that are not None
  tried,      \* history: resources whose closing was begun
  dropped,    \* history: what a signal left half opened
  job,        \* job |-> "none", "running" or "cancelling"
  heartbeat   \* ARQ's key in Redis: "none", "ours", or "left" by a dead process

stack_of_worker == <<in_ctx, held, doing, open, handles, tried, dropped>>
worker_vars == <<worker, told, stack_of_worker, job, heartbeat>>

WorkerInit ==
  /\ worker = "off"
  /\ told = FALSE
  /\ in_ctx = FALSE
  /\ held = 0
  /\ doing = {}
  /\ open = {}
  /\ handles = {}
  /\ tried = {}
  /\ dropped = {}
  /\ job = [j \in WorkerJobs |-> "none"]
  /\ heartbeat = "none"

InJob == {j \in WorkerJobs : job[j] # "none"}

(*************************** startup ***************************************)

(* A new process is connected to the queue and runs startup up to its      *)
(* first await: the stack goes into ctx, the pool becomes queue.pool.      *)
StartWorker ==
  /\ worker = "off"
  /\ worker' = "starting"
  /\ in_ctx' = TRUE
  /\ held' = 1
  /\ open' = {"queue"}
  /\ handles' = {"queue"}
  /\ UNCHANGED <<told, doing, tried, dropped, job, heartbeat>>

OpeningNext == worker = "starting" /\ doing = {} /\ held < Len(WorkerOrder)

NextToOpen == WorkerOrder[held + 1]

ConnectNext ==
  /\ OpeningNext /\ NextToOpen \in WorkerPinged
  /\ doing' = {NextToOpen}
  /\ open' = open \cup {NextToOpen}
  /\ handles' = handles \cup ({NextToOpen} \cap {"limiter"})
  /\ UNCHANGED <<worker, told, in_ctx, held, tried, dropped, job, heartbeat>>

Opened(r) ==
  /\ held' = held + 1
  /\ doing' = {}
  /\ open' = open \cup {r}
  /\ handles' = handles \cup ({r} \cap WorkerHandles)
  /\ UNCHANGED <<worker, told, in_ctx, tried, dropped, job, heartbeat>>

Open ==
  \/ OpeningNext /\ NextToOpen \notin WorkerPinged /\ Opened(NextToOpen)
  \/ worker = "starting" /\ \E r \in doing : Opened(r)

(* Mutant of OpenFails: startup keeps the exception to itself.             *)
OpenFailsQuietly ==
  /\ worker = "starting"
  /\ OpeningNext \/ doing # {}
  /\ worker' = "polling"
  /\ doing' = {}
  /\ tried' = tried \cup doing
  /\ UNCHANGED <<told, in_ctx, held, open, handles, dropped, job, heartbeat>>

(* An opening raises; what was connected is closed, perhaps in vain, then  *)
(* startup's handler begins to close the stack.                            *)
OpenFails ==
  /\ worker = "starting"
  /\ OpeningNext \/ doing # {}
  /\ worker' = "failed"
  /\ doing' = {}
  /\ tried' = tried \cup doing
  /\ \/ open' = open \ doing /\ handles' = handles \ doing
     \/ UNCHANGED <<open, handles>>
  /\ UNCHANGED <<told, in_ctx, held, dropped, job, heartbeat>>

(* A signal while startup awaits: with no job to wait for ARQ cancels it.  *)
(* The stack stays in ctx, what was being pinged is on no stack.           *)
StartInterrupted ==
  /\ worker = "starting"
  /\ worker' = "closing"
  /\ told' = TRUE
  /\ doing' = {}
  /\ dropped' = doing
  /\ UNCHANGED <<in_ctx, held, open, handles, tried, job, heartbeat>>

StartedUp ==
  /\ worker = "starting" /\ doing = {} /\ held = Len(WorkerOrder)
  /\ worker' = "polling"
  /\ UNCHANGED <<told, stack_of_worker, job, heartbeat>>

(*************************** jobs ******************************************)

JobStarts(j) ==
  /\ worker = "polling" /\ ~told
  /\ job[j] = "none"
  /\ job' = [job EXCEPT ![j] = "running"]
  /\ UNCHANGED <<worker, told, stack_of_worker, heartbeat>>

JobOver(j) ==
  /\ job[j] # "none"
  /\ job' = [job EXCEPT ![j] = "none"]
  /\ UNCHANGED <<worker, told, stack_of_worker, heartbeat>>

(* Written at the first poll, and again every health_check_interval.       *)
HeartBeat ==
  /\ worker = "polling"
  /\ heartbeat' = "ours"
  /\ UNCHANGED <<worker, told, stack_of_worker, job>>

(* The TTL of a key nobody renews is over: one second more than ARQ's      *)
(* interval of an hour, which WorkerSettings does not change.              *)
HeartbeatExpires ==
  /\ heartbeat = "left"
  /\ heartbeat' = "none"
  /\ UNCHANGED <<worker, told, stack_of_worker, job>>

(*************************** shutdown **************************************)

Signalled ==
  /\ worker = "polling" /\ ~told
  /\ told' = TRUE
  /\ UNCHANGED <<worker, stack_of_worker, job, heartbeat>>

(* Its jobs are over, or job_completion_wait is and they are cancelled.    *)
WaitOver ==
  /\ worker = "polling" /\ told
  /\ worker' = "closing"
  /\ job' = [j \in WorkerJobs |-> IF job[j] = "none" THEN "none" ELSE "cancelling"]
  /\ UNCHANGED <<told, stack_of_worker, heartbeat>>

(* Polling raises, Redis being away: the jobs go on, ARQ closes.           *)
PollFails ==
  /\ worker = "polling"
  /\ worker' = "closing"
  /\ UNCHANGED <<told, stack_of_worker, job, heartbeat>>

(* ARQ's close: when all jobs are over it deletes its key and calls the    *)
(* shutdown hook, which unwinds the stack if there is one in ctx.          *)
shutdown ==
  /\ worker = "closing" /\ InJob = {}
  /\ heartbeat' = "none"
  /\ worker' = IF in_ctx THEN "unwinding" ELSE "exited"
  /\ UNCHANGED <<told, stack_of_worker, job>>

Unwinding == worker \in {"failed", "unwinding"}

(* The next closer up to its await; queue.pool is only set to None.        *)
CloseNext ==
  /\ Unwinding /\ doing = {} /\ held > 0
  /\ held' = held - 1
  /\ doing' = {WorkerOrder[held]} \ {"queue"}
  /\ tried' = tried \cup {WorkerOrder[held]}
  /\ handles' = handles \ ({WorkerOrder[held]} \ {"limiter"})
  /\ UNCHANGED <<worker, told, in_ctx, open, dropped, job, heartbeat>>

(* It returns, or raises: then the handle of the limiter stays.            *)
Closed ==
  /\ Unwinding /\ doing # {}
  /\ doing' = {}
  /\ \/ open' = open \ doing /\ handles' = handles \ doing
     \/ UNCHANGED <<open, handles>>
  /\ UNCHANGED <<worker, told, in_ctx, held, tried, dropped, job, heartbeat>>

(* startup raises again and ARQ closes, without a stack; or ARQ closes its *)
(* pool and the process ends.                                              *)
UnwindingEnds ==
  /\ Unwinding /\ doing = {} /\ held = 0
  /\ in_ctx' = FALSE
  /\ worker' = IF worker = "failed" THEN "closing" ELSE "exited"
  /\ UNCHANGED <<told, held, doing, open, handles, tried, dropped, job, heartbeat>>

(* The next process finds nothing but the key.                             *)
Anew(left) ==
  /\ worker' = "off"
  /\ told' = FALSE
  /\ in_ctx' = FALSE
  /\ held' = 0
  /\ doing' = {}
  /\ open' = {}
  /\ handles' = {}
  /\ tried' = {}
  /\ dropped' = {}
  /\ job' = [j \in WorkerJobs |-> "none"]
  /\ heartbeat' = left

Replaced == worker = "exited" /\ Anew(heartbeat)

(* The process is killed, or ARQ cannot delete its key because Redis is    *)
(* away: no hook runs, the operating system closes what is open.           *)
WorkerDies ==
  /\ worker \notin {"off", "exited"}
  /\ Anew(IF heartbeat = "ours" THEN "left" ELSE heartbeat)

WorkerNext ==
  \/ StartWorker \/ ConnectNext \/ Open \/ OpenFails \/ StartInterrupted \/ StartedUp
  \/ \E j \in WorkerJobs : JobStarts(j) \/ JobOver(j)
  \/ HeartBeat \/ HeartbeatExpires
  \/ Signalled \/ WaitOver \/ PollFails \/ shutdown
  \/ CloseNext \/ Closed \/ UnwindingEnds
  \/ Replaced \/ WorkerDies

WorkerSpec == WorkerInit /\ [][WorkerNext]_worker_vars

(*************************** properties ************************************)

WorkerTypeOK ==
  /\ worker \in {"off", "starting", "failed", "polling", "closing", "unwinding", "exited"}
  /\ told \in BOOLEAN
  /\ in_ctx \in BOOLEAN
  /\ held \in 0..Len(WorkerOrder)
  /\ doing \in SUBSET WorkerResources
  /\ open \in SUBSET WorkerResources
  /\ handles \in SUBSET WorkerHandles
  /\ tried \in SUBSET WorkerResources
  /\ dropped \in SUBSET WorkerResources
  /\ job \in [WorkerJobs -> {"none", "running", "cancelling"}]
  /\ heartbeat \in {"none", "ours", "left"}

(* Jobs that run, and cancelled ones that clean up behind the end of the   *)
(* waiting time, have every resource and every handle, however the process *)
(* came to stop.  A process that ends through its hooks, also one whose    *)
(* startup raised or was interrupted, has tried to close what it opened,   *)
(* except what a signal met between connection and ping, and leaves no     *)
(* heartbeat behind.                                                       *)
HooksKeepHouse ==
  /\ InJob # {} => open = WorkerResources /\ handles = WorkerHandles /\ tried = {}
  /\ worker = "exited" => /\ open \subseteq tried \cup dropped
                          /\ heartbeat = "none"

(* The inductive invariant: what the stack holds is open and published,    *)
(* what was taken from it was tried, and jobs meet a full stack.           *)
OnStack == {WorkerOrder[i] : i \in 1..held}

WhileOff == worker = "off" => doing = {} /\ tried = {} /\ dropped = {}

WhileOpening == worker = "starting" =>
  /\ open = OnStack \cup doing
  /\ OnStack \cap WorkerHandles \subseteq handles
  /\ tried = {} /\ dropped = {} /\ in_ctx
  /\ doing # {} => held < Len(WorkerOrder) /\ doing = {NextToOpen}

WhileWorking == worker \in {"polling", "closing"} /\ in_ctx =>
  /\ OnStack \subseteq open /\ open \subseteq OnStack \cup dropped
  /\ tried = {} /\ doing = {}

WithJobs == worker = "polling" \/ InJob # {} =>
  /\ worker \in {"polling", "closing"} /\ in_ctx /\ held = Len(WorkerOrder)
  /\ dropped = {} /\ handles = WorkerHandles

WhileClosing ==
  worker \in {"failed", "unwinding", "exited"} \/ (worker = "closing" /\ ~in_ctx) =>
    /\ open \subseteq OnStack \cup tried \cup dropped
    /\ ~Unwinding => held = 0

WhileGone == worker \in {"unwinding", "exited"} => heartbeat = "none"

WorkerIInv == /\ WorkerTypeOK /\ WhileOff /\ WhileOpening /\ WhileWorking /\ WithJobs
              /\ WhileClosing /\ WhileGone
=============================================================================
