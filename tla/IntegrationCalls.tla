-------------------------- MODULE IntegrationCalls --------------------------
(***************************************************************************)
(* Flows of outbound calls to one provider, and what the application makes *)
(* of their failures: integrations/http_client (client, retry, exceptions) *)
(* under integrations/contracts (errors, resilience), all sharing one      *)
(* CircuitBreaker.  Calls are the flows that run concurrently.             *)
(*                                                                         *)
(* A flow sends the requests of its steps one after the other.  For each   *)
(* request its adapter - which the template leaves to the application -    *)
(* asks the breaker, sends, records the answer, retries as retry.py says,  *)
(* and raises what classify_http_error makes of the last error.  What      *)
(* happens then depends on the kind of the flow:                           *)
(*   saga      with_compensation                                           *)
(*   context   CompensationContext                                         *)
(*   bulk      execute_with_partial_failure, a step for each item          *)
(*   read      with_fallback                                               *)
(*   deferred  should_defer_retry and a queue                              *)
(* The application starts a new flow in place of one that is over.         *)
(***************************************************************************)
EXTENDS CircuitBreaker, FiniteSets

CONSTANTS
  NSteps,         \* the steps of a flow
  Idempotent,     \* those whose method is one of IDEMPOTENT_METHODS
  Kinds,          \* the kinds of flow each task of the application runs
  Statuses,       \* the status codes a request may be answered with, not 2xx
  Exceptions,     \* the httpx exceptions it may end with
  RetryOn,        \* the errors whose retry_on_ flag is set in HttpRetryPolicy
  RetryAll,       \* the kinds of flow whose HttpRetryPolicy opts in to retries
                  \* of every method: idempotent_methods_only is False
  MaxAttempts,    \* HttpRetryPolicy.max_attempts
  MaxDeferrals,   \* max_attempts of should_defer_retry
  FailFast,       \* the errors fail_fast_on_auth, fail_fast_on_config stop at
  MaxFailurePercent,  \* max_failure_ratio
  CollectErrors

Steps == 1 .. NSteps
AllKinds == {"saga", "context", "bulk", "read", "deferred"}

ASSUME CallsAssumption ==
  /\ NSteps \in Nat \ {0}
  /\ Idempotent \subseteq Steps
  /\ Kinds \in [Calls -> SUBSET AllKinds]
  /\ RetryAll \subseteq AllKinds
  /\ MaxAttempts \in Nat \ {0}
  /\ MaxDeferrals \in Nat \ {0}

VARIABLES
  kind,         \* the kind of each flow
  phase,        \* where it is: see Phases
  step,         \* the step it is at
  attempt,      \* the attempts of that step's request before this one
  deferrals,    \* DeferredRetryRequest.attempt
  succeeded,    \* the steps that succeeded
  failed,       \* the items of a bulk flow that failed
  aborted,      \* whether aborted_at is set
  error,        \* the IntegrationError that ended the flow, or "none"
  source,       \* ResultSource of a read
  compensated,  \* what compensating each step came to, "no" before
  effects       \* history: how often the provider performed each step, up to
                \* MaxDeferrals + 1

flowVars == <<kind, phase, step, attempt, deferrals, succeeded, failed, aborted,
              error, source, compensated, effects>>
allVars == <<vars, flowVars>>

(* ready: about to ask the breaker; sent: its request is on the wire;      *)
(* backoff: asleep before a retry; queued: deferred to the job queue.      *)
Over == {"returned", "raised", "left", "cancelled"}
Phases == {"ready", "sent", "backoff", "undoing", "queued"} \cup Over

-----------------------------------------------------------------------------
(* http_client/exceptions.py: the class an answer is raised as. *)
ClassifyStatusCode(status) ==
  CASE status = 400 -> "bad_request"
    [] status = 401 -> "authentication"
    [] status = 403 -> "authorization"
    [] status = 404 -> "not_found"
    [] status = 409 -> "conflict"
    [] status = 429 -> "rate_limit"
    [] status \in 500 .. 599 -> "server"
    [] status \in (400 .. 499) \ {400, 401, 403, 404, 409, 429} -> "non_retryable"
    [] OTHER -> "error"

(* TemplateHttpClient.request: what it raises for an exception of httpx. *)
Wrapped(exception) ==
  CASE exception = "TimeoutException" -> "timeout"
    [] exception = "ConnectError" -> "connection"
    [] exception = "HTTPError" -> "error"

(* The HttpClientErrors a request may end with. *)
Answers == {ClassifyStatusCode(status) : status \in Statuses}
           \cup {Wrapped(exception) : exception \in Exceptions}

(* Those after which the provider may have performed the request. *)
Ambiguous(e) == e \in {"timeout", "server", "error"}

IsRetryable(e) == e \notin {"authentication", "authorization", "not_found",
                            "conflict", "bad_request", "non_retryable"}

(* retry.py *)
IsRetryableError(e) == IsRetryable(e) /\ e \in RetryOn

(* Mutant of ShouldRetryMethod: every method is retried. *)
ShouldRetryAnyMethod(k, s) == k \in AllKinds /\ s \in Steps

ShouldRetryMethod(k, s) == k \in RetryAll \/ s \in Idempotent

(* contracts/errors.py; "exception" is what is none of its classes.        *)
IntegrationErrors ==
  {"auth", "not_found", "rate_limit", "timeout", "connection", "server",
   "validation", "unavailable", "base", "exception"}

ClassifyHttpError(e) ==
  CASE e \in {"authentication", "authorization"} -> "auth"
    [] e \in {"not_found", "rate_limit", "timeout", "connection", "server"} -> e
    [] e = "bad_request" -> "validation"
    [] e = "circuit_open" -> "unavailable"
    [] OTHER -> "base"

IsRetryableIntegrationError(i) ==
  i \notin {"auth", "not_found", "validation", "config"}

-----------------------------------------------------------------------------
NewFlow(f, k) ==
  /\ kind' = [kind EXCEPT ![f] = k]
  /\ phase' = [phase EXCEPT ![f] = "ready"]
  /\ step' = [step EXCEPT ![f] = 1]
  /\ attempt' = [attempt EXCEPT ![f] = 0]
  /\ deferrals' = [deferrals EXCEPT ![f] = 0]
  /\ succeeded' = [succeeded EXCEPT ![f] = {}]
  /\ failed' = [failed EXCEPT ![f] = {}]
  /\ aborted' = [aborted EXCEPT ![f] = FALSE]
  /\ error' = [error EXCEPT ![f] = "none"]
  /\ source' = [source EXCEPT ![f] = "none"]
  /\ compensated' = [compensated EXCEPT ![f] = [s \in Steps |-> "no"]]
  /\ effects' = [effects EXCEPT ![f] = [s \in Steps |-> 0]]

InitCalls ==
  /\ Init
  /\ kind \in {k \in [Calls -> AllKinds] : \A f \in Calls : k[f] \in Kinds[f]}
  /\ phase = [f \in Calls |-> "ready"]
  /\ step = [f \in Calls |-> 1]
  /\ attempt = [f \in Calls |-> 0]
  /\ deferrals = [f \in Calls |-> 0]
  /\ succeeded = [f \in Calls |-> {}]
  /\ failed = [f \in Calls |-> {}]
  /\ aborted = [f \in Calls |-> FALSE]
  /\ error = [f \in Calls |-> "none"]
  /\ source = [f \in Calls |-> "none"]
  /\ compensated = [f \in Calls |-> [s \in Steps |-> "no"]]
  /\ effects = [f \in Calls |-> [s \in Steps |-> 0]]

Restart(f) ==
  /\ phase[f] \in Over
  /\ \E k \in Kinds[f] : NewFlow(f, k)
  /\ UNCHANGED vars

-----------------------------------------------------------------------------
GoTo(f, p) == phase' = [phase EXCEPT ![f] = p]

(* with_fallback and a deferred call wrap a single call. *)
LastStep(f) == IF kind[f] \in {"read", "deferred"} THEN 1 ELSE NSteps

(* On to the next step; after the last one the flow returns.               *)
Advance(f) ==
  IF step[f] = LastStep(f)
  THEN GoTo(f, "returned") /\ UNCHANGED <<step, attempt>>
  ELSE /\ GoTo(f, "ready")
       /\ step' = [step EXCEPT ![f] = @ + 1]
       /\ attempt' = [attempt EXCEPT ![f] = 0]

(* with_compensation: the completed steps are compensated, if there are any. *)
SagaFails(f, i) ==
  /\ kind[f] = "saga"
  /\ GoTo(f, IF step[f] = 1 THEN "returned" ELSE "undoing")
  /\ error' = [error EXCEPT ![f] = i]
  /\ UNCHANGED <<step, attempt, deferrals, failed, aborted, source>>

(* The error leaves the block of the context. *)
ContextFails(f, i) ==
  /\ kind[f] = "context"
  /\ GoTo(f, "raised")
  /\ error' = [error EXCEPT ![f] = i]
  /\ UNCHANGED <<step, attempt, deferrals, failed, aborted, source>>

(* Whether execute_with_partial_failure stops at this item. *)
Abort(f, i) ==
  LET failures == failed[f] \cup {step[f]}
  IN  \/ i \in FailFast
      \/ Cardinality(failures) * 100 > MaxFailurePercent * step[f]
      \/ ~CollectErrors

BulkFails(f, i) ==
  /\ kind[f] = "bulk"
  /\ failed' = [failed EXCEPT ![f] = @ \cup {step[f]}]
  /\ IF Abort(f, i)
     THEN /\ aborted' = [aborted EXCEPT ![f] = TRUE]
          /\ GoTo(f, "returned")
          /\ UNCHANGED <<step, attempt>>
     ELSE Advance(f) /\ UNCHANGED aborted
  /\ UNCHANGED <<deferrals, error, source>>

(* with_fallback: the provider of fallback data has some, or has none or   *)
(* raises and the default is used, or there is no default either.          *)
ReadFails(f, i) ==
  /\ kind[f] = "read"
  /\ \E from \in IF IsRetryableIntegrationError(i)
                 THEN {"fallback", "default", "none"} ELSE {"none"} :
       source' = [source EXCEPT ![f] = from]
  /\ GoTo(f, "returned")
  /\ error' = [error EXCEPT ![f] = i]
  /\ UNCHANGED <<step, attempt, deferrals, failed, aborted>>

ShouldDeferRetry(f, i) ==
  IsRetryableIntegrationError(i) /\ deferrals[f] + 1 < MaxDeferrals

(* The call is enqueued, unless enqueue_retry returns False.               *)
DeferredFails(f, i) ==
  /\ kind[f] = "deferred"
  /\ error' = [error EXCEPT ![f] = i]
  /\ \/ ShouldDeferRetry(f, i) /\ GoTo(f, "queued")
     \/ GoTo(f, "raised")
  /\ UNCHANGED <<step, attempt, deferrals, failed, aborted, source>>

StepFails(f, i) ==
  /\ \/ SagaFails(f, i)
     \/ ContextFails(f, i)
     \/ BulkFails(f, i)
     \/ ReadFails(f, i)
     \/ DeferredFails(f, i)
  /\ UNCHANGED <<kind, succeeded, compensated>>

-----------------------------------------------------------------------------
Performed(f) ==
  effects' = [effects EXCEPT ![f][step[f]] = IF @ <= MaxDeferrals THEN @ + 1 ELSE @]

(* The adapter asks the breaker.  HttpCircuitOpenError is none of the      *)
(* classes the retry policy names: it is not retried.                      *)
Begin(f) ==
  /\ phase[f] = "ready"
  /\ Check(f)
  /\ IF StateNow = "open"
     THEN StepFails(f, ClassifyHttpError("circuit_open")) /\ UNCHANGED effects
     ELSE /\ GoTo(f, "sent")
          /\ UNCHANGED <<kind, step, attempt, deferrals, succeeded, failed, aborted,
                         error, source, compensated, effects>>

Succeed(f) ==
  /\ phase[f] = "sent"
  /\ RecordSuccess(f)
  /\ Performed(f)
  /\ succeeded' = [succeeded EXCEPT ![f] = @ \cup {step[f]}]
  /\ source' = [source EXCEPT ![f] = IF kind[f] = "read" THEN "primary" ELSE @]
  /\ Advance(f)
  /\ error' = [error EXCEPT ![f] = "none"]
  /\ UNCHANGED <<kind, deferrals, failed, aborted, compensated>>

(* The request fails.  What the adapter calls a failure of the provider    *)
(* are the retryable errors.                                               *)
Fail(f, e) ==
  /\ phase[f] = "sent"
  /\ IF IsRetryable(e) THEN RecordFailure(f) ELSE Unrecorded(f)
  /\ UNCHANGED effects \/ (Ambiguous(e) /\ Performed(f))
  /\ IF /\ IsRetryableError(e)
        /\ ShouldRetryMethod(kind[f], step[f])
        /\ attempt[f] + 1 < MaxAttempts
     THEN /\ GoTo(f, "backoff")
          /\ attempt' = [attempt EXCEPT ![f] = @ + 1]
          /\ UNCHANGED <<kind, step, deferrals, succeeded, failed, aborted, error,
                         source, compensated>>
     ELSE StepFails(f, ClassifyHttpError(e))

(* Something else than an HttpClientError is raised: by a request hook, or *)
(* by the adapter over the answer.  Only with_compensation catches it.     *)
Unexpected(f) ==
  /\ phase[f] = "sent"
  /\ Unrecorded(f)
  /\ IF kind[f] = "saga" THEN SagaFails(f, "base")
     ELSE /\ GoTo(f, "raised")
          /\ error' = [error EXCEPT ![f] = "exception"]
          /\ UNCHANGED <<step, attempt, deferrals, failed, aborted, source>>
  /\ UNCHANGED effects \/ Performed(f)
  /\ UNCHANGED <<kind, succeeded, compensated>>

(* After resolve_retry_delay: with full jitter, anything up to the cap. *)
Resume(f) ==
  /\ phase[f] = "backoff"
  /\ GoTo(f, "ready")
  /\ UNCHANGED <<vars, kind, step, attempt, deferrals, succeeded, failed, aborted,
                 error, source, compensated, effects>>

(* Mutant of Dequeue: the attempt is left at its default. *)
DequeueAsFirst(f) ==
  /\ phase[f] = "queued"
  /\ GoTo(f, "ready")
  /\ step' = [step EXCEPT ![f] = 1]
  /\ attempt' = [attempt EXCEPT ![f] = 0]
  /\ succeeded' = [succeeded EXCEPT ![f] = {}]
  /\ UNCHANGED <<vars, kind, deferrals, failed, aborted, error, source, compensated,
                 effects>>

(* A worker takes the DeferredRetryRequest: the call is made anew. *)
Dequeue(f) ==
  /\ phase[f] = "queued"
  /\ GoTo(f, "ready")
  /\ step' = [step EXCEPT ![f] = 1]
  /\ attempt' = [attempt EXCEPT ![f] = 0]
  /\ deferrals' = [deferrals EXCEPT ![f] = @ + 1]
  /\ succeeded' = [succeeded EXCEPT ![f] = {}]
  /\ UNCHANGED <<vars, kind, failed, aborted, error, source, compensated, effects>>

(* Mutant of NextUndone: the oldest step first. *)
OldestUndone(f) ==
  CHOOSE s \in succeeded[f] : compensated[f][s] = "no"
    /\ \A t \in succeeded[f] : t < s => compensated[f][t] # "no"

NextUndone(f) ==
  CHOOSE s \in succeeded[f] : compensated[f][s] = "no"
    /\ \A t \in succeeded[f] : t > s => compensated[f][t] # "no"

(* One compensating action: it cannot compensate, fails, raises, or is     *)
(* executed.  After the last one with_compensation returns its outcome.    *)
Compensate(f) ==
  /\ phase[f] = "undoing"
  /\ LET s == NextUndone(f) IN
     /\ \E r \in {"executed", "failed", "skipped"} :
          compensated' = [compensated EXCEPT ![f][s] = r]
     /\ GoTo(f, IF \A t \in succeeded[f] \ {s} : compensated[f][t] # "no"
                THEN "returned" ELSE "undoing")
  /\ UNCHANGED <<vars, kind, step, attempt, deferrals, succeeded, failed, aborted,
                 error, source, effects>>

(* The caller of a context catches the error and calls compensate_all ... *)
CompensateAll(f) ==
  /\ kind[f] = "context" /\ phase[f] = "raised"
  /\ GoTo(f, IF succeeded[f] = {} THEN "returned" ELSE "undoing")
  /\ UNCHANGED <<vars, kind, step, attempt, deferrals, succeeded, failed, aborted,
                 error, source, compensated, effects>>

(* ... or relies on the context: __aexit__ does nothing. *)
AExit(f) ==
  /\ kind[f] = "context" /\ phase[f] = "raised"
  /\ GoTo(f, "left")
  /\ UNCHANGED <<vars, kind, step, attempt, deferrals, succeeded, failed, aborted,
                 error, source, compensated, effects>>

(* The task is cancelled at an await: CancelledError passes every except.  *)
Cancel(f) ==
  /\ phase[f] \in {"sent", "backoff", "undoing"}
  /\ GoTo(f, "cancelled")
  /\ IF phase[f] = "sent"
     THEN Unrecorded(f) /\ (UNCHANGED effects \/ Performed(f))
     ELSE UNCHANGED <<vars, effects>>
  /\ UNCHANGED <<kind, step, attempt, deferrals, succeeded, failed, aborted, error,
                 source, compensated>>

Answer(f) == Succeed(f) \/ Unexpected(f) \/ \E e \in Answers : Fail(f, e)

NextCalls ==
  \/ \E f \in Calls :
       \/ Restart(f)
       \/ Begin(f)
       \/ Answer(f)
       \/ Resume(f)
       \/ Dequeue(f)
       \/ Compensate(f)
       \/ CompensateAll(f)
       \/ AExit(f)
       \/ Cancel(f)
  \/ (ReadState \/ Reset \/ Tick) /\ UNCHANGED flowVars

CallsSpec == InitCalls /\ [][NextCalls]_allVars

(* Requests have timeouts, sleeps end, the queue is worked off, the event  *)
(* loop runs every task; time passes and the application keeps calling.    *)
FairCallsSpec ==
  /\ CallsSpec
  /\ WF_allVars(Tick /\ UNCHANGED flowVars)
  /\ \A f \in Calls :
       WF_allVars(Restart(f) \/ Begin(f) \/ Answer(f) \/ Resume(f) \/ Dequeue(f)
                  \/ Compensate(f))

-----------------------------------------------------------------------------
FlowsTypeOK ==
  /\ kind \in [Calls -> AllKinds]
  /\ phase \in [Calls -> Phases]
  /\ step \in [Calls -> Steps]
  /\ attempt \in [Calls -> 0 .. MaxAttempts - 1]
  /\ deferrals \in [Calls -> 0 .. MaxDeferrals - 1]
  /\ succeeded \in [Calls -> SUBSET Steps]
  /\ failed \in [Calls -> SUBSET Steps]
  /\ aborted \in [Calls -> BOOLEAN]
  /\ error \in [Calls -> IntegrationErrors \cup {"none"}]
  /\ source \in [Calls -> {"primary", "fallback", "default", "none"}]
  /\ compensated \in [Calls -> [Steps -> {"no", "executed", "failed", "skipped"}]]
  /\ effects \in [Calls -> [Steps -> 0 .. MaxDeferrals + 1]]

(* The steps of a flow whose request is sent once: the method is not       *)
(* idempotent and the policy did not opt in to its retries.                *)
OneShot(f) == IF kind[f] \in RetryAll THEN {} ELSE Steps \ Idempotent

(* However requests time out, are retried and are deferred, the provider   *)
(* performs a step whose method is not idempotent at most once for each    *)
(* time the call is taken from the queue, unless the retry policy opted in *)
(* to retries of every method; then a POST that timed out may be performed *)
(* again, as the documentation of the policy says.                         *)
NonIdempotentOnce ==
  \A f \in Calls : \A s \in OneShot(f) : effects[f][s] <= deferrals[f] + 1

(* with_compensation and compensate_all: what was done is all there when   *)
(* the flow reports success, and otherwise every step but the one that     *)
(* failed was compensated, or its result says why not; on the way no step  *)
(* is compensated before a later one.                                      *)
RolledBack ==
  \A f \in Calls : kind[f] \in {"saga", "context"} =>
    /\ phase[f] = "returned" /\ error[f] = "none" =>
         \A s \in Steps : effects[f][s] > 0 /\ compensated[f][s] = "no"
    /\ phase[f] = "returned" /\ error[f] # "none" =>
         \A s \in Steps \ {step[f]} : effects[f][s] > 0 <=> compensated[f][s] # "no"
    /\ \A s \in Steps, t \in succeeded[f] :
         s < t /\ compensated[f][s] # "no" => compensated[f][t] # "no"

(* Every flow comes to an end, whatever is retried, deferred or refused.   *)
FlowsEnd == \A f \in Calls : phase[f] \notin Over ~> phase[f] \in Over

-----------------------------------------------------------------------------
(* The inductive invariant, a part for each concern of one flow.           *)

(* Where a flow may be: only a single call is deferred, as often as it may *)
(* be, and only a request that may be repeated is waiting to be sent again. *)
OnItsWay(f) ==
  /\ kind[f] \in {"read", "deferred"} => step[f] = 1
  /\ phase[f] = "queued" => kind[f] = "deferred" /\ deferrals[f] + 1 < MaxDeferrals
  /\ phase[f] = "backoff" => step[f] \notin OneShot(f)

(* The request of step s was answered since the call was last dequeued.    *)
Spent(f, s) == s < step[f] \/ (s = step[f] /\ phase[f] \notin {"ready", "sent"})

PerformedOnce(f) ==
  \A s \in OneShot(f) :
    effects[f][s] <= IF Spent(f, s) THEN deferrals[f] + 1 ELSE deferrals[f]

Compensating(f) == kind[f] \in {"saga", "context"}
Complete(f) == phase[f] = "returned" /\ error[f] = "none"

(* An error is set from the failure of a step on.                          *)
ErrorIsKept(f) ==
  Compensating(f) =>
    /\ phase[f] \in {"ready", "sent", "backoff"} => error[f] = "none"
    /\ phase[f] \in {"undoing", "raised", "left"} => error[f] # "none"

(* What succeeded are the steps before the current one, all of them once   *)
(* the flow is complete, and the provider has performed no step after it.  *)
DoneInOrder(f) ==
  Compensating(f) =>
    /\ succeeded[f] = IF Complete(f) THEN Steps ELSE 1 .. step[f] - 1
    /\ \A s \in succeeded[f] : effects[f][s] > 0
    /\ \A s \in Steps : s > step[f] => effects[f][s] = 0

(* Uncompensated are the steps up to some k: all that succeeded until the  *)
(* compensation begins, some while it lasts, none when it has come to its  *)
(* end.                                                                    *)
UndoneDownTo(f) ==
  Compensating(f) =>
    \E k \in 0 .. NSteps :
      /\ \A s \in Steps : compensated[f][s] = "no" <=> s <= k \/ s \notin succeeded[f]
      /\ phase[f] = "undoing" => k \in succeeded[f]
      /\ phase[f] = "returned" /\ error[f] # "none" => k = 0
      /\ phase[f] \notin {"undoing", "returned", "cancelled"} \/ Complete(f) => k = NSteps

FlowInv(f) ==
  /\ OnItsWay(f) /\ PerformedOnce(f) /\ ErrorIsKept(f)
  /\ DoneInOrder(f) /\ UndoneDownTo(f)

FlowsIInv == FlowsTypeOK /\ \A f \in Calls : FlowInv(f)

=============================================================================
