--------------------------- MODULE WorkflowRunner ---------------------------
(***************************************************************************)
(* WorkflowRunner of core/worker/workflow.py driven inside one session:    *)
(* the caller starts an execution and then calls resume on the same        *)
(* in-memory object until it is done.  The awaits inside advance are       *)
(* separate steps: a step's execute, then each compensate in turn.         *)
(* Callers of advance itself, which has no guard on the status, are the    *)
(* step jobs of WorkflowJobs.                                              *)
(***************************************************************************)
EXTENDS WorkflowCore

CONSTANTS
  Branches,   \* step |-> the names it may return in next_step_override
  MaxTime,    \* bound on the clock
  MaxPolls,   \* bound on the WAITING results of each step
  MaxCalls    \* bound on the calls of resume that run a step

ASSUME RunnerAssumption ==
  /\ Branches \in [Steps -> SUBSET (Steps \cup {UnknownStep})]
  /\ MaxTime \in Nat /\ MaxPolls \in Nat /\ MaxCalls \in Nat

(* Definitions without loops.  get_step takes any name; where an override  *)
(* leads back, attempt_count goes on from what an earlier round left, and  *)
(* get_steps_for_compensation misses the steps of that round beyond the    *)
(* one that fails.                                                         *)
BranchesLeadForward == \A s \in Steps : \A t \in Branches[s] : s < t

VARIABLES
  started,    \* start has been called
  execution,  \* the WorkflowExecution object
  suspended,  \* where the driver's coroutine is suspended
  to_undo,    \* compensating steps still to be called
  now,        \* datetime.now(UTC)
  calls,      \* steps run so far, for the bound
  waited,     \* history: WAITING results per step
  failed      \* history: FAILED results per step

runner_vars == <<started, execution, suspended, to_undo, now, calls, waited, failed>>

results == <<waited, failed>>

RunnerInit ==
  /\ started = FALSE
  /\ execution = NewExecution
  /\ suspended = "idle"
  /\ to_undo = {}
  /\ now = 1
  /\ calls = 0
  /\ waited = [s \in Steps |-> 0]
  /\ failed = [s \in Steps |-> 0]

current == execution.current_step

RunnerStart ==
  /\ ~started
  /\ started' = TRUE
  /\ execution' = NewExecution
  /\ UNCHANGED <<suspended, to_undo, now, calls, results>>

(* advance up to the await of the step's execute. *)
Advance ==
  /\ started
  /\ suspended = "idle"
  /\ calls < MaxCalls
  /\ calls' = calls + 1
  /\ execution' = Attempted(execution)
  /\ suspended' = "executing"
  /\ UNCHANGED <<started, to_undo, now, results>>

(* resume raises for a finished execution and returns it untouched while   *)
(* the recorded wait_until lies ahead; otherwise it is advance.            *)
StillWaiting == execution.status = "waiting" /\ now < execution.wait_until[current]

Resume ==
  /\ execution.status \in Live
  /\ ~StillWaiting
  /\ Advance

ExecuteSucceeds(override) ==
  /\ suspended = "executing"
  /\ execution' = OnSucceeded(execution, override)
  /\ suspended' = "idle"
  /\ UNCHANGED <<started, to_undo, now, calls, results>>

ExecuteSkips(override) ==
  /\ suspended = "executing"
  /\ execution' = OnSkipped(execution, override)
  /\ suspended' = "idle"
  /\ UNCHANGED <<started, to_undo, now, calls, results>>

ExecuteWaits(until) ==
  /\ suspended = "executing"
  /\ waited[current] < MaxPolls
  /\ waited' = [waited EXCEPT ![current] = @ + 1]
  /\ execution' = OnWaiting(execution, until)
  /\ suspended' = "idle"
  /\ UNCHANGED <<started, to_undo, now, calls, failed>>

(* The step raised or returned FAILED: handle_step_failure. *)
ExecuteFails ==
  /\ suspended = "executing"
  /\ failed' = [failed EXCEPT ![current] = @ + 1]
  /\ IF Exhausted(execution)
     THEN /\ suspended' = "compensating"
          /\ to_undo' = StepsForCompensation(current)
          /\ UNCHANGED execution
     ELSE /\ execution' = OnRetry(execution, now)
          /\ suspended' = "idle"
          /\ UNCHANGED to_undo
  /\ UNCHANGED <<started, now, calls, waited>>

(* One compensate call returned (ok) or raised (~ok): logged either way.   *)
CompensateReturns(s, ok) ==
  /\ suspended = "compensating"
  /\ IsLast(s, to_undo)
  /\ to_undo' = to_undo \ {s}
  /\ execution' = Compensated(execution, s, ok)
  /\ UNCHANGED <<started, suspended, now, calls, results>>

(* Mutant of GiveUp: FAILED before the compensations are over. *)
GiveUpEarly ==
  /\ suspended = "compensating"
  /\ execution' = OnExhausted(execution)
  /\ suspended' = "idle"
  /\ UNCHANGED <<started, to_undo, now, calls, results>>

GiveUp ==
  /\ suspended = "compensating"
  /\ to_undo = {}
  /\ execution' = OnExhausted(execution)
  /\ suspended' = "idle"
  /\ UNCHANGED <<started, to_undo, now, calls, results>>

Tick ==
  /\ now < MaxTime
  /\ now' = now + 1
  /\ UNCHANGED <<started, execution, suspended, to_undo, calls, results>>

ExecuteReturns ==
  \/ \E override \in Branches[current] \cup {NoOverride} :
       ExecuteSucceeds(override) \/ ExecuteSkips(override)
  \/ \E until \in {NoWait} \cup now .. MaxTime : ExecuteWaits(until)
  \/ ExecuteFails

Compensate ==
  \/ \E s \in Steps, ok \in BOOLEAN : CompensateReturns(s, ok)
  \/ GiveUp

RunnerNext ==
  \/ RunnerStart
  \/ Resume
  \/ ExecuteReturns
  \/ Compensate
  \/ Tick

(* The driver keeps calling while the execution is live, a step's execute  *)
(* and compensate return, and time passes.                                 *)
RunnerFairness ==
  /\ WF_runner_vars(Resume)
  /\ WF_runner_vars(ExecuteReturns)
  /\ WF_runner_vars(Compensate)
  /\ WF_runner_vars(Tick)

RunnerSpec == RunnerInit /\ [][RunnerNext]_runner_vars

RunnerFairSpec == RunnerSpec /\ RunnerFairness

-----------------------------------------------------------------------------
RunnerTypeOK ==
  /\ started \in BOOLEAN
  /\ execution \in Execution
  /\ suspended \in {"idle", "executing", "compensating"}
  /\ to_undo \in SUBSET Compensable
  /\ now \in 1 .. MaxTime + 1
  /\ calls \in 0 .. MaxCalls
  /\ waited \in [Steps -> 0 .. MaxPolls]
  /\ failed \in [Steps -> Nat]

Undone == { execution.compensation_log[i].step : i \in DOMAIN execution.compensation_log }

(* Per step, FAILED results stay within retry_policy.max_attempts, and a   *)
(* workflow is only given up when FAILED and WAITING results of the        *)
(* failing step together used up that budget (handle_step_failure, fed by  *)
(* the attempt_count that execute_step keeps across calls).                *)
SessionRetryBudget ==
  /\ \A s \in Steps : failed[s] <= MaxAttempts[s]
  /\ execution.status = "failed" =>
       failed[current] + waited[current] >= MaxAttempts[current]

(* A started workflow whose driver keeps resuming it ends as SUCCEEDED or  *)
(* FAILED: neither retries, nor waits, nor failing compensations go round  *)
(* forever (advance, handle_step_failure, compensate, resume).             *)
EventuallyTerminal == started ~> execution.status \in Terminal

Phase ==
  CASE execution.status = "succeeded" -> "committed"
    [] execution.status = "failed" -> "aborted"
    [] execution.status \in Live /\ execution.compensation_log # <<>> -> "undoing"
    [] OTHER -> "forward"

(* The runner implements the saga: its status, _completed_steps and        *)
(* _compensation_log, seen as a saga's phase, done and undone.             *)
saga == INSTANCE Saga WITH
          phase <- Phase, done <- execution.completed_steps, undone <- Undone

ImplementsSaga == saga!Spec

-----------------------------------------------------------------------------
(* The inductive invariant.  The history counts what attempt_count counts, *)
(* and no step has used up its attempts before the workflow gives up.      *)
Running(s) == IF suspended = "executing" /\ s = current THEN 1 ELSE 0

AttemptsCounted ==
  /\ \A s \in Steps : failed[s] + waited[s] + Running(s) <= execution.attempt_count[s]
  /\ \A s \in Steps : failed[s] <= MaxAttempts[s]
  /\ suspended # "compensating" /\ execution.status # "failed" =>
       \A s \in Steps : failed[s] < MaxAttempts[s]

(* Where the driver stands and what the execution says fit together.       *)
InStep ==
  /\ ~started => /\ suspended = "idle" /\ execution = NewExecution
                 /\ \A s \in Steps : waited[s] = 0 /\ failed[s] = 0
  /\ suspended # "idle" => execution.status \in Live
  /\ suspended # "compensating" /\ execution.status \in Live => execution.compensation_log = <<>>

(* What is still to be undone and what was undone make up the plan, and    *)
(* nothing left in it is later than what was undone.                       *)
PlanFollowed ==
  suspended = "compensating" =>
    /\ StepsForCompensation(current) = to_undo \cup Undone
    /\ \A s \in to_undo, t \in Undone : s < t

RunnerInv == AttemptsCounted /\ InStep /\ PlanFollowed

(* Where branches lead forward a step starts with no attempts, so that     *)
(* every attempt of the current step failed or waited, and what completed  *)
(* lies behind.                                                            *)
AtTheFront ==
  /\ execution.status \in Live =>
       /\ execution.attempt_count[current] = failed[current] + waited[current] + Running(current)
       /\ \A s \in Steps : current < s => execution.attempt_count[s] = 0 /\ failed[s] = 0 /\ waited[s] = 0
       /\ \A s \in execution.completed_steps : s < current
  /\ suspended = "compensating" => failed[current] + waited[current] >= MaxAttempts[current]
  /\ execution.status = "failed" => failed[current] + waited[current] >= MaxAttempts[current]
=============================================================================
