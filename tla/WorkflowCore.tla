---------------------------- MODULE WorkflowCore ----------------------------
(***************************************************************************)
(* The part of core/worker/workflow.py that computes: what a              *)
(* WorkflowDefinition answers about its steps, and how WorkflowRunner      *)
(* rewrites a WorkflowExecution for each result a step can return.         *)
(* WorkflowRunner (one session) and WorkflowJobs (queue, sessions and the  *)
(* database row) both take their state changes from here.                  *)
(*                                                                         *)
(* Steps are numbered in definition order; the name of a step is its       *)
(* number.  An execution is a record of the columns and of the parts of    *)
(* execution_context that steer control.  completed_steps and              *)
(* compensation_log are the context's _completed_steps (as a set) and      *)
(* _compensation_log; attempt_count and wait_until come from _step_states. *)
(***************************************************************************)
EXTENDS Naturals, Sequences

CONSTANTS
  N,            \* number of steps of the definition
  Compensable,  \* the steps that implement CompensatingStep
  MaxAttempts   \* step |-> retry_policy.max_attempts

Steps == 1 .. N

ASSUME DefinitionAssumption ==
  /\ N \in Nat \ {0}
  /\ Compensable \subseteq Steps
  /\ MaxAttempts \in [Steps -> Nat \ {0}]

NoStep      == 0       \* get_next_step / get_step returned None
NoOverride  == 0       \* result.next_step_override is None
UnknownStep == N + 1   \* a next_step_override no step is named by
NoWait      == 0       \* wait_until is None

Live     == {"running", "waiting"}
Terminal == {"succeeded", "failed"}
Status   == Live \cup Terminal

LogEntry == [step : Steps, ok : BOOLEAN]

Execution ==
  [ status           : Status,
    current_step     : Steps,
    completed_at     : BOOLEAN,
    attempt_count    : [Steps -> Nat],
    wait_until       : [Steps -> Nat],
    completed_steps  : SUBSET Steps,
    compensation_log : Seq(LogEntry) ]

-----------------------------------------------------------------------------
(* WorkflowDefinition *)

GetStep(name) == IF name \in Steps THEN name ELSE NoStep

GetNextStep(current) == IF current < N THEN current + 1 ELSE NoStep

(* The list the code builds runs from up_to down to the first step; it is  *)
(* kept as a set here and consumed from its last member.                   *)
StepsForCompensation(up_to) == { s \in Compensable : s <= up_to }

IsLast(s, plan) == s \in plan /\ \A t \in plan : t <= s

FollowingStep(current, override) ==
  IF override = NoOverride THEN GetNextStep(current) ELSE GetStep(override)

-----------------------------------------------------------------------------
(* WorkflowRunner *)

NewExecution ==
  [ status           |-> "running",
    current_step     |-> 1,
    completed_at     |-> FALSE,
    attempt_count    |-> [s \in Steps |-> 0],
    wait_until       |-> [s \in Steps |-> NoWait],
    completed_steps  |-> {},
    compensation_log |-> <<>> ]

(* Mutant of Attempted: the attempt is not counted. *)
AttemptedUncounted(e) == e

Attempted(e) == [e EXCEPT !.attempt_count[e.current_step] = @ + 1]

MoveTo(e, next) ==
  IF next = NoStep
  THEN [e EXCEPT !.status = "succeeded", !.completed_at = TRUE]
  ELSE [e EXCEPT !.status = "running", !.current_step = next]

OnSucceeded(e, override) ==
  LET s == e.current_step IN
  MoveTo([e EXCEPT !.wait_until[s] = NoWait,
                   !.completed_steps = @ \cup {s}],
         FollowingStep(s, override))

OnSkipped(e, override) ==
  LET s == e.current_step IN
  MoveTo([e EXCEPT !.wait_until[s] = NoWait], FollowingStep(s, override))

OnWaiting(e, until) ==
  [e EXCEPT !.wait_until[e.current_step] = until, !.status = "waiting"]

(* Mutant of Exhausted: off by one. *)
ExhaustedLate(e) == e.attempt_count[e.current_step] > MaxAttempts[e.current_step]

Exhausted(e) == e.attempt_count[e.current_step] >= MaxAttempts[e.current_step]

(* Mutant of OnRetry: a failed step is passed over. *)
OnRetryMovesOn(e, now) == MoveTo(e, GetNextStep(e.current_step))

(* handle_step_failure computes defer_seconds from the policy's backoff but *)
(* stores the present moment as wait_until.                                 *)
OnRetry(e, now) ==
  [e EXCEPT !.wait_until[e.current_step] = now, !.status = "waiting"]

Compensated(e, s, ok) ==
  [e EXCEPT !.compensation_log = Append(@, [step |-> s, ok |-> ok])]

OnExhausted(e) ==
  [e EXCEPT !.status = "failed", !.completed_at = TRUE]
=============================================================================
