---------------------------- MODULE WorkflowJobs ----------------------------
(***************************************************************************)
(* One workflow execution driven by WorkflowStepJob deliveries: the        *)
(* workflow_execution row, the ARQ queue, and workers that each load the   *)
(* row into a session of their own, advance it by one step and commit.     *)
(*                                                                         *)
(* The row and a session's object have the shape of WorkflowCore's         *)
(* Execution.  A flush writes a column only when the value the session     *)
(* holds is not the value it loaded, so two sessions merge column by       *)
(* column.  Everything below execution_context is mutated in place in a    *)
(* plain JSON column, which the session does not see as a change: these    *)
(* fields of the row keep what start inserted.                             *)
(***************************************************************************)
EXTENDS WorkflowCore

CONSTANTS
  Workers,    \* worker slots
  Jobs,       \* the WorkflowStepJob deliveries the application enqueues
  MaxTries,   \* the job retry policy's max_tries
  Overrides   \* step |-> the names it may return in next_step_override

ASSUME JobsAssumption ==
  /\ MaxTries \in Nat \ {0}
  /\ Overrides \in [Steps -> SUBSET (Steps \cup {UnknownStep})]

CONSTANT NoJob
ASSUME NoJobAssumption == NoJob \notin Jobs

VARIABLES
  insertion,  \* of the row: "none", "flushed", "committed" or "lost"
  row,        \* the committed workflow_execution row
  job_state,  \* job |-> "unsent", "queued", "running", "done" or "dead"
  job_try,    \* job |-> attempts begun
  pc,         \* worker |-> where its job is suspended
  job,        \* worker |-> the job it runs
  loaded,     \* worker |-> the row as session.get returned it
  exec,       \* worker |-> the session's WorkflowExecution object
  plan,       \* worker |-> compensating steps still to be called
  result,     \* worker |-> the StepResult's status
  passed,     \* history: steps that succeeded, were skipped or jumped over
  gave_up,    \* history: steps that failed with their attempts exhausted
  undid,      \* history: steps whose compensate was called
  failures    \* history: committed FAILED results per step

vars == <<insertion, row, job_state, job_try, pc, job, loaded, exec, plan,
          result, passed, gave_up, undid, failures>>

queue   == <<job_state, job_try>>
session == <<pc, job, loaded, exec, plan, result>>
history == <<passed, gave_up, undid, failures>>

Init ==
  /\ insertion = "none"
  /\ row = NewExecution
  /\ job_state = [j \in Jobs |-> "unsent"]
  /\ job_try = [j \in Jobs |-> 0]
  /\ pc = [w \in Workers |-> "idle"]
  /\ job = [w \in Workers |-> NoJob]
  /\ loaded = [w \in Workers |-> NewExecution]
  /\ exec = [w \in Workers |-> NewExecution]
  /\ plan = [w \in Workers |-> {}]
  /\ result = [w \in Workers |-> "none"]
  /\ passed = {}
  /\ gave_up = {}
  /\ undid = {}
  /\ failures = [s \in Steps |-> 0]

-----------------------------------------------------------------------------
(* WorkflowRunner.start flushes the row; its caller owns the transaction.  *)

Start ==
  /\ insertion = "none"
  /\ insertion' = "flushed"
  /\ row' = NewExecution
  /\ UNCHANGED <<queue, session, history>>

EndStart ==
  /\ insertion = "flushed"
  /\ insertion' \in {"committed", "lost"}
  /\ UNCHANGED <<row, queue, session, history>>

(* enqueue_step: possible as soon as the flush has produced the id.        *)
Enqueue(j) ==
  /\ insertion # "none"
  /\ job_state[j] = "unsent"
  /\ job_state' = [job_state EXCEPT ![j] = "queued"]
  /\ UNCHANGED <<insertion, row, job_try, session, history>>

-----------------------------------------------------------------------------
(* WorkflowStepJob.run *)

(* session.get, then advance up to the await of the step's execute.        *)
LoadAndAdvance(w, j) ==
  /\ pc[w] = "idle"
  /\ job_state[j] = "queued" /\ job_try[j] < MaxTries
  /\ insertion = "committed"
  /\ job_state' = [job_state EXCEPT ![j] = "running"]
  /\ job_try' = [job_try EXCEPT ![j] = @ + 1]
  /\ pc' = [pc EXCEPT ![w] = "executing"]
  /\ job' = [job EXCEPT ![w] = j]
  /\ loaded' = [loaded EXCEPT ![w] = row]
  /\ exec' = [exec EXCEPT ![w] = Attempted(row)]
  /\ UNCHANGED <<insertion, row, plan, result, history>>

(* Mutant of NotFound: looks for the row again within the same attempt. *)
NotFoundWaits(j) ==
  /\ job_state[j] = "queued" /\ job_try[j] < MaxTries
  /\ insertion # "committed"
  /\ UNCHANGED vars

(* The row is not visible: ValueError, raised again as RetryableJobError.  *)
NotFound(j) ==
  /\ job_state[j] = "queued" /\ job_try[j] < MaxTries
  /\ insertion # "committed"
  /\ job_try' = [job_try EXCEPT ![j] = @ + 1]
  /\ UNCHANGED <<insertion, row, job_state, session, history>>

(* ARQ drops a job it would have to start once more than max_tries.        *)
Drop(j) ==
  /\ job_state[j] = "queued" /\ job_try[j] = MaxTries
  /\ job_state' = [job_state EXCEPT ![j] = "dead"]
  /\ UNCHANGED <<insertion, row, job_try, session, history>>

(* The steps that a result of step s lets the workflow leave behind.       *)
LeftBehind(s, override) ==
  LET next == FollowingStep(s, override) IN
  {s} \cup { t \in Steps : s <= t /\ (next = NoStep \/ t < next) }

StepSucceeds(w, override) ==
  /\ pc[w] = "executing"
  /\ exec' = [exec EXCEPT ![w] = OnSucceeded(@, override)]
  /\ pc' = [pc EXCEPT ![w] = "flushing"]
  /\ result' = [result EXCEPT ![w] = "succeeded"]
  /\ passed' = passed \cup LeftBehind(exec[w].current_step, override)
  /\ UNCHANGED <<insertion, row, queue, job, loaded, plan, gave_up, undid, failures>>

StepSkips(w, override) ==
  /\ pc[w] = "executing"
  /\ exec' = [exec EXCEPT ![w] = OnSkipped(@, override)]
  /\ pc' = [pc EXCEPT ![w] = "flushing"]
  /\ result' = [result EXCEPT ![w] = "skipped"]
  /\ passed' = passed \cup LeftBehind(exec[w].current_step, override)
  /\ UNCHANGED <<insertion, row, queue, job, loaded, plan, gave_up, undid, failures>>

(* No clock here: run calls advance, which never looks at wait_until.      *)
StepWaits(w) ==
  /\ pc[w] = "executing"
  /\ exec' = [exec EXCEPT ![w] = OnWaiting(@, NoWait)]
  /\ pc' = [pc EXCEPT ![w] = "flushing"]
  /\ result' = [result EXCEPT ![w] = "waiting"]
  /\ UNCHANGED <<insertion, row, queue, job, loaded, plan, history>>

StepFails(w) ==
  LET s == exec[w].current_step IN
  /\ pc[w] = "executing"
  /\ result' = [result EXCEPT ![w] = "failed"]
  /\ IF Exhausted(exec[w])
     THEN /\ pc' = [pc EXCEPT ![w] = "compensating"]
          /\ plan' = [plan EXCEPT ![w] = StepsForCompensation(s)]
          /\ gave_up' = gave_up \cup {s}
          /\ UNCHANGED exec
     ELSE /\ pc' = [pc EXCEPT ![w] = "flushing"]
          /\ exec' = [exec EXCEPT ![w] = OnRetry(@, NoWait)]
          /\ UNCHANGED <<plan, gave_up>>
  /\ UNCHANGED <<insertion, row, queue, job, loaded, passed, undid, failures>>

CompensateStep(w, s, ok) ==
  /\ pc[w] = "compensating"
  /\ IsLast(s, plan[w])
  /\ plan' = [plan EXCEPT ![w] = @ \ {s}]
  /\ exec' = [exec EXCEPT ![w] = Compensated(@, s, ok)]
  /\ undid' = undid \cup {s}
  /\ UNCHANGED <<insertion, row, queue, pc, job, loaded, result, passed, gave_up, failures>>

(* Mutant of FailWorkflow: FAILED before the compensations are over. *)
FailWorkflowEarly(w) ==
  /\ pc[w] = "compensating"
  /\ exec' = [exec EXCEPT ![w] = OnExhausted(@)]
  /\ pc' = [pc EXCEPT ![w] = "flushing"]
  /\ UNCHANGED <<insertion, row, queue, job, loaded, plan, result, history>>

FailWorkflow(w) ==
  /\ pc[w] = "compensating"
  /\ plan[w] = {}
  /\ exec' = [exec EXCEPT ![w] = OnExhausted(@)]
  /\ pc' = [pc EXCEPT ![w] = "flushing"]
  /\ UNCHANGED <<insertion, row, queue, job, loaded, plan, result, history>>

(* The UPDATE of a flush: the columns whose value is not the loaded one.   *)
Flushed(r, from, to) ==
  LET col(current, old, new) == IF new = old THEN current ELSE new IN
  [r EXCEPT
     !.status       = col(@, from.status, to.status),
     !.current_step = col(@, from.current_step, to.current_step),
     !.completed_at = col(@, from.completed_at, to.completed_at)]

(* advance's flush and the commit; the row lock is held in between.        *)
Commit(w) ==
  /\ pc[w] = "flushing"
  /\ row' = Flushed(row, loaded[w], exec[w])
  /\ pc' = [pc EXCEPT ![w] = "committed"]
  /\ failures' = IF result[w] = "failed"
                 THEN [failures EXCEPT ![loaded[w].current_step] = @ + 1]
                 ELSE failures
  /\ UNCHANGED <<insertion, queue, job, loaded, exec, plan, result, passed, gave_up, undid>>

(* The session of worker w is closed and its job goes to state s.          *)
Close(w, s) ==
  /\ job_state' = [job_state EXCEPT ![job[w]] = s]
  /\ pc' = [pc EXCEPT ![w] = "idle"]
  /\ job' = [job EXCEPT ![w] = NoJob]
  /\ loaded' = [loaded EXCEPT ![w] = NewExecution]
  /\ exec' = [exec EXCEPT ![w] = NewExecution]
  /\ plan' = [plan EXCEPT ![w] = {}]
  /\ result' = [result EXCEPT ![w] = "none"]
  /\ UNCHANGED <<insertion, row, job_try, history>>

(* ARQ records the result and removes the job. *)
Finish(w) == pc[w] = "committed" /\ Close(w, "done")

(* The worker dies or shuts down, or the session raises and run turns that *)
(* into RetryableJobError: the session is rolled back, the job stays.      *)
Interrupt(w) == pc[w] # "idle" /\ Close(w, "queued")

(* ARQ's job timeout cancels the coroutine and ends the job for good.      *)
TimeOut(w) == pc[w] # "idle" /\ Close(w, "dead")

StepReturns(w) ==
  \/ \E override \in Overrides[exec[w].current_step] \cup {NoOverride} :
       StepSucceeds(w, override) \/ StepSkips(w, override)
  \/ StepWaits(w)
  \/ StepFails(w)

Work(w) ==
  \/ \E j \in Jobs : LoadAndAdvance(w, j)
  \/ StepReturns(w)
  \/ \E s \in Steps, ok \in BOOLEAN : CompensateStep(w, s, ok)
  \/ FailWorkflow(w)
  \/ Commit(w)
  \/ Finish(w)

Next ==
  \/ Start
  \/ EndStart
  \/ \E j \in Jobs : Enqueue(j) \/ NotFound(j) \/ Drop(j)
  \/ \E w \in Workers : Work(w) \/ Interrupt(w) \/ TimeOut(w)

Spec == Init /\ [][Next]_vars

(* ARQ workers poll: a queued job is started or dropped, a started one     *)
(* goes on.  The API's transaction ends one way or the other.              *)
Fairness ==
  /\ WF_vars(EndStart)
  /\ \A w \in Workers : WF_vars(Work(w))
  /\ \A j \in Jobs : WF_vars(NotFound(j)) /\ WF_vars(Drop(j))

FairSpec == Spec /\ Fairness

-----------------------------------------------------------------------------
TypeOK ==
  /\ insertion \in {"none", "flushed", "committed", "lost"}
  /\ row \in Execution
  /\ job_state \in [Jobs -> {"unsent", "queued", "running", "done", "dead"}]
  /\ job_try \in [Jobs -> 0 .. MaxTries]
  /\ pc \in [Workers -> {"idle", "executing", "compensating", "flushing", "committed"}]
  /\ job \in [Workers -> Jobs \cup {NoJob}]
  /\ \A w \in Workers : pc[w] # "idle" => job[w] \in Jobs
  /\ loaded \in [Workers -> Execution]
  /\ exec \in [Workers -> Execution]
  /\ plan \in [Workers -> SUBSET Compensable]
  /\ result \in [Workers -> {"none", "succeeded", "skipped", "waiting", "failed"}]
  /\ passed \in SUBSET Steps
  /\ gave_up \in SUBSET Steps
  /\ undid \in SUBSET Steps
  /\ failures \in [Steps -> Nat]

(* The committed position is never ahead of the work: whatever jobs are    *)
(* lost, repeated or run side by side, each step before current_step - and *)
(* each step at all of a SUCCEEDED workflow - has succeeded, was skipped   *)
(* or was jumped over in some session (advance, WorkflowStepJob.run).      *)
NoStepLost ==
  /\ \A s \in Steps : s < row.current_step => s \in passed
  /\ row.status = "succeeded" => N \in passed

(* FAILED is committed only after some step gave up and every compensation *)
(* up to that step was called, although the calls are awaits at which the  *)
(* worker can die (handle_step_failure, compensate).                       *)
FailedMeansCompensated ==
  row.status = "failed" =>
    \E s \in gave_up : StepsForCompensation(s) \subseteq undid

(* However sessions merge, column by column, a terminal row has its        *)
(* completed_at: the two columns that advance sets together.               *)
TerminalIsStamped == row.status \in Terminal => row.completed_at

(* The inductive invariant behind these three.  What they say of the row   *)
(* holds of every session's copies too; completed_at is only ever set,     *)
(* never cleared, which is what makes merging columns sound; and while     *)
(* compensating, the steps no longer in plan have been compensated.        *)
WorkedThrough(e, left) ==
  /\ \A s \in Steps : s < e.current_step => s \in left
  /\ e.status = "succeeded" => N \in left

GivenUp(e, given, called) ==
  e.status = "failed" =>
    \E s \in given : StepsForCompensation(s) \subseteq called

Stamped(e) == e.status \in Terminal => e.completed_at

Sound(e, left, given, called) ==
  WorkedThrough(e, left) /\ GivenUp(e, given, called) /\ Stamped(e)

KeepsStamp(e, f) == e.completed_at => f.completed_at

SessionInv(w) ==
  /\ Sound(loaded[w], passed, gave_up, undid)
  /\ Sound(exec[w], passed, gave_up, undid)
  /\ KeepsStamp(loaded[w], row)
  /\ KeepsStamp(loaded[w], exec[w])
  /\ pc[w] = "compensating" =>
       /\ exec[w].current_step \in gave_up
       /\ StepsForCompensation(exec[w].current_step) \ plan[w] \subseteq undid
  /\ pc[w] # "idle" => insertion = "committed"

IInv ==
  /\ Sound(row, passed, gave_up, undid)
  /\ insertion = "none" => row = NewExecution
  /\ \A w \in Workers : SessionInv(w)

(* A job sent is eventually done or dropped, and then no worker holds it.  *)
JobsSettle ==
  \A j \in Jobs : job_state[j] = "queued" ~> job_state[j] \in {"done", "dead"}

-----------------------------------------------------------------------------
(* What the documentation says of durable execution. *)

(* StepRetryPolicy: max_attempts bounds the attempts of a step before the  *)
(* step - and with it the workflow - fails.                                *)
RetryBudget == \A s \in Steps : failures[s] <= MaxAttempts[s]
=============================================================================
