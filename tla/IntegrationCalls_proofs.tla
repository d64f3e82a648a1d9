------------------------ MODULE IntegrationCalls_proofs ------------------------
(***************************************************************************)
(* Theorems about CircuitBreaker for every number of calls, threshold and  *)
(* recovery timeout, and about the flows of IntegrationCalls for every     *)
(* number of steps, any answers and any retry policy.                      *)
(***************************************************************************)
EXTENDS IntegrationCalls, TLAPS

(*************************** the breaker ***********************************)

(* Every variable keeps its type. *)
THEOREM TypeCorrect == Spec => []TypeOK
<1> USE BreakerAssumption
<1>1. Init => TypeOK
  BY DEF Init, TypeOK
<1>2. TypeOK /\ [Next]_vars => TypeOK'
  <2> SUFFICES ASSUME TypeOK, [Next]_vars PROVE TypeOK'
    OBVIOUS
  <2>1. ASSUME NEW c \in Calls, Check(c) PROVE TypeOK'
    BY <2>1 DEF Check, StateNow, TypeOK
  <2>2. ASSUME NEW c \in Calls, RecordSuccess(c) PROVE TypeOK'
    BY <2>2 DEF RecordSuccess, Answered, TypeOK
  <2>3. ASSUME NEW c \in Calls, RecordFailure(c) PROVE TypeOK'
    BY <2>3 DEF RecordFailure, Answered, Counted, TypeOK
  <2>4. ASSUME NEW c \in Calls, Unrecorded(c) PROVE TypeOK'
    BY <2>4 DEF Unrecorded, Answered, TypeOK
  <2>5. CASE ReadState
    BY <2>5 DEF ReadState, StateNow, TypeOK
  <2>6. CASE Reset
    BY <2>6 DEF Reset, TypeOK
  <2>7. CASE Tick
    BY <2>7 DEF Tick, TypeOK
  <2>8. CASE UNCHANGED vars
    BY <2>8 DEF vars, TypeOK
  <2>9. QED
    BY <2>1, <2>2, <2>3, <2>4, <2>5, <2>6, <2>7, <2>8 DEF Next
<1>3. QED
  BY <1>1, <1>2, PTL DEF Spec

(* IInv is inductive. *)
LEMMA IInvInductive ==
  ASSUME TypeOK, IInv, [Next]_vars
  PROVE  IInv'
<1> USE BreakerAssumption DEF IInv, ClosedBelowThreshold, TypeOK
<1>1. ASSUME NEW c \in Calls, Check(c) PROVE IInv'
  BY <1>1 DEF Check, StateNow, Recovered
<1>2. ASSUME NEW c \in Calls, RecordSuccess(c) PROVE IInv'
  BY <1>2 DEF RecordSuccess
<1>3. ASSUME NEW c \in Calls, RecordFailure(c) PROVE IInv'
  BY <1>3 DEF RecordFailure, Counted
<1>4. ASSUME NEW c \in Calls, Unrecorded(c) PROVE IInv'
  BY <1>4 DEF Unrecorded
<1>5. CASE ReadState
  BY <1>5 DEF ReadState, StateNow, Recovered
<1>6. CASE Reset
  BY <1>6 DEF Reset
<1>7. CASE Tick
  BY <1>7 DEF Tick
<1>8. CASE UNCHANGED vars
  BY <1>8 DEF vars
<1>9. QED
  BY <1>1, <1>2, <1>3, <1>4, <1>5, <1>6, <1>7, <1>8 DEF Next

(* IInv holds throughout. *)
THEOREM Invariance == Spec => []IInv
<1>1. Init => IInv
  BY BreakerAssumption DEF Init, IInv, ClosedBelowThreshold
<1>2. TypeOK /\ IInv /\ [Next]_vars => IInv'
  BY IInvInductive
<1>3. QED
  BY <1>1, <1>2, TypeCorrect, PTL DEF Spec

(* The breaker is closed exactly below the threshold. *)
THEOREM ClosedExactlyBelowThreshold == Spec => []ClosedBelowThreshold
<1>1. IInv => ClosedBelowThreshold
  BY DEF IInv
<1>2. QED
  BY <1>1, Invariance, PTL

(* No call is let through while the provider is to be left alone. *)
THEOREM BreakerCoolsDown == Spec => CoolsDown
<1>1. TypeOK /\ IInv /\ [Next]_vars =>
        [\A c \in Calls : c \notin in_flight /\ c \in in_flight'
           => failure_count < FailureThreshold \/ since >= RecoveryTimeout]_vars
  <2> SUFFICES ASSUME TypeOK, IInv, Next,
                      NEW c \in Calls, c \notin in_flight, c \in in_flight'
               PROVE  failure_count < FailureThreshold \/ since >= RecoveryTimeout
    OBVIOUS
  <2>1. \E d \in Calls : Check(d) /\ StateNow # "open"
    BY DEF Next, Check, RecordSuccess, RecordFailure, Unrecorded, Answered,
           ReadState, Reset, Tick
  <2>2. CASE Recovered
    BY <2>2 DEF Recovered
  <2>3. CASE ~Recovered
    BY <2>1, <2>3 DEF StateNow, IInv, ClosedBelowThreshold, TypeOK
  <2>4. QED
    BY <2>2, <2>3
<1>2. QED
  BY <1>1, TypeCorrect, Invariance, PTL DEF Spec, CoolsDown

(*************************** the flows *************************************)

(* Every step of a flow is one of the breaker or leaves it alone.          *)
LEMMA FlowsUseBreaker == CallsSpec => Spec
<1>1. InitCalls => Init
  BY DEF InitCalls
<1>2. [NextCalls]_allVars => [Next]_vars
  <2> SUFFICES ASSUME NextCalls PROVE [Next]_vars
    BY DEF allVars
  <2>1. ASSUME NEW f \in Calls, Restart(f) PROVE UNCHANGED vars
    BY <2>1 DEF Restart
  <2>2. ASSUME NEW f \in Calls, Begin(f) PROVE Next
    BY <2>2 DEF Begin, Next
  <2>3. ASSUME NEW f \in Calls, Answer(f) PROVE Next
    BY <2>3 DEF Answer, Succeed, Unexpected, Fail, Next
  <2>4. ASSUME NEW f \in Calls,
               Resume(f) \/ Dequeue(f) \/ Compensate(f) \/ CompensateAll(f) \/ AExit(f)
        PROVE  UNCHANGED vars
    BY <2>4 DEF Resume, Dequeue, Compensate, CompensateAll, AExit
  <2>5. ASSUME NEW f \in Calls, Cancel(f) PROVE [Next]_vars
    BY <2>5 DEF Cancel, Next
  <2>6. CASE ReadState \/ Reset \/ Tick
    BY <2>6 DEF Next
  <2>7. QED
    BY <2>1, <2>2, <2>3, <2>4, <2>5, <2>6 DEF NextCalls
<1>3. QED
  BY <1>1, <1>2, PTL DEF CallsSpec, Spec

(* The breaker keeps the flows off the provider until it has cooled down.  *)
THEOREM FlowsCoolDown == CallsSpec => CoolsDown
  BY FlowsUseBreaker, BreakerCoolsDown

(* What an HttpClientError becomes is an error of the package.             *)
LEMMA ErrorsHaveNames ==
  ASSUME NEW e
  PROVE  ClassifyHttpError(e) \in IntegrationErrors
BY DEF ClassifyHttpError, IntegrationErrors

(* A request that is sent once is that of a step.                          *)
LEMMA OneShotSteps ==
  ASSUME NEW f
  PROVE  OneShot(f) \subseteq Steps
BY DEF OneShot

(* What one flow consists of stays as it is.                               *)
Same(g) ==
  /\ kind'[g] = kind[g] /\ phase'[g] = phase[g] /\ step'[g] = step[g]
  /\ deferrals'[g] = deferrals[g] /\ succeeded'[g] = succeeded[g] /\ error'[g] = error[g]
  /\ compensated'[g] = compensated[g] /\ effects'[g] = effects[g]

(* A flow that a step leaves alone keeps its invariant.                    *)
LEMMA SameFlow ==
  ASSUME NEW g, FlowInv(g), Same(g)
  PROVE  FlowInv(g)'
<1>1. OnItsWay(g)' /\ PerformedOnce(g)' /\ ErrorIsKept(g)'
  BY DEF FlowInv, Same, OnItsWay, PerformedOnce, OneShot, Spent, ErrorIsKept, Compensating
<1>2. DoneInOrder(g)' /\ UndoneDownTo(g)'
  BY DEF FlowInv, Same, DoneInOrder, UndoneDownTo, Complete, Compensating
<1>3. QED
  BY <1>1, <1>2 DEF FlowInv

(* The invariant holds before the first flow is started.                   *)
LEMMA FlowsStart == InitCalls => FlowsIInv
<1> SUFFICES ASSUME InitCalls PROVE FlowsIInv
  OBVIOUS
<1> USE CallsAssumption
<1>1. FlowsTypeOK
  <2> USE DEF InitCalls
  <2>1. kind \in [Calls -> AllKinds]
    OBVIOUS
  <2>2. phase \in [Calls -> Phases] /\ step \in [Calls -> Steps]
    BY DEF Phases, Steps
  <2>3. attempt \in [Calls -> 0 .. MaxAttempts - 1] /\ deferrals \in [Calls -> 0 .. MaxDeferrals - 1]
    OBVIOUS
  <2>4. succeeded \in [Calls -> SUBSET Steps] /\ failed \in [Calls -> SUBSET Steps]
    OBVIOUS
  <2>5. error \in [Calls -> IntegrationErrors \cup {"none"}]
    OBVIOUS
  <2>6. compensated \in [Calls -> [Steps -> {"no", "executed", "failed", "skipped"}]]
    OBVIOUS
  <2>7. effects \in [Calls -> [Steps -> 0 .. MaxDeferrals + 1]]
    OBVIOUS
  <2>8. aborted \in [Calls -> BOOLEAN] /\ source \in [Calls -> {"primary", "fallback", "default", "none"}]
    OBVIOUS
  <2>9. QED
    BY <2>1, <2>2, <2>3, <2>4, <2>5, <2>6, <2>7, <2>8 DEF FlowsTypeOK
<1>2. ASSUME NEW f \in Calls PROVE FlowInv(f)
  <2> USE DEF InitCalls, Steps
  <2>1. OnItsWay(f) /\ PerformedOnce(f) /\ ErrorIsKept(f)
    BY DEF OnItsWay, PerformedOnce, OneShot, ErrorIsKept, Spent
  <2>2. DoneInOrder(f)
    BY DEF DoneInOrder, Complete
  <2>3. UndoneDownTo(f)
    <3>1. NSteps \in 0 .. NSteps
      OBVIOUS
    <3>2. QED
      BY <3>1 DEF UndoneDownTo, Complete
  <2>4. QED
    BY <2>1, <2>2, <2>3 DEF FlowInv
<1>3. QED
  BY <1>1, <1>2 DEF FlowsIInv

(* The provider has performed the request of the current step, or not.     *)
Grows(f) ==
  \A s \in Steps : /\ effects'[f][s] \in Nat
                   /\ s # step[f] => effects'[f][s] = effects[f][s]
                   /\ effects'[f][s] >= effects[f][s]
                   /\ effects'[f][s] <= effects[f][s] + 1

(* The provider performs the request of the step at hand once more, or     *)
(* does not.                                                               *)
LEMMA PerformedGrows ==
  ASSUME FlowsTypeOK, NEW f \in Calls, UNCHANGED effects \/ Performed(f)
  PROVE  /\ effects' \in [Calls -> [Steps -> 0 .. MaxDeferrals + 1]]
         /\ Grows(f)
         /\ \A g \in Calls \ {f} : effects'[g] = effects[g]
         /\ Performed(f) => effects'[f][step[f]] > 0
<1> USE CallsAssumption DEF FlowsTypeOK
<1>1. CASE UNCHANGED effects /\ ~Performed(f)
  BY <1>1 DEF Grows
<1>2. CASE Performed(f)
  <2> DEFINE n == effects[f][step[f]]
             m == IF n <= MaxDeferrals THEN n + 1 ELSE n
  <2>1. m \in 0 .. MaxDeferrals + 1 /\ m > 0 /\ m >= n /\ m <= n + 1
    OBVIOUS
  <2>2. effects' = [effects EXCEPT ![f] = [effects[f] EXCEPT ![step[f]] = m]]
    BY <1>2 DEF Performed
  <2> HIDE DEF m
  <2>3. QED
    BY <2>1, <2>2 DEF Grows
<1>3. QED
  BY <1>1, <1>2

(* The move to the next step keeps the types.                              *)
LEMMA AdvanceTypes ==
  ASSUME FlowsTypeOK, NEW f \in Calls, OnItsWay(f), Advance(f)
  PROVE  /\ phase' \in [Calls -> Phases] /\ step' \in [Calls -> Steps]
         /\ attempt' \in [Calls -> 0 .. MaxAttempts - 1]
<1> USE CallsAssumption DEF FlowsTypeOK
<1>1. step[f] # LastStep(f) => step[f] + 1 \in Steps
  BY DEF LastStep, OnItsWay, Steps
<1>2. {"returned", "ready"} \subseteq Phases
  BY DEF Phases, Over
<1>3. CASE step[f] = LastStep(f)
  <2>1. phase' = [phase EXCEPT ![f] = "returned"] /\ step' = step /\ attempt' = attempt
    BY <1>3 DEF Advance, GoTo
  <2>2. QED
    BY <1>2, <2>1
<1>4. CASE step[f] # LastStep(f)
  <2>1. /\ phase' = [phase EXCEPT ![f] = "ready"]
        /\ step' = [step EXCEPT ![f] = @ + 1]
        /\ attempt' = [attempt EXCEPT ![f] = 0]
    BY <1>4 DEF Advance, GoTo
  <2>2. QED
    BY <1>1, <1>2, <1>4, <2>1
<1>5. QED
  BY <1>3, <1>4

(* Everything but the effects, which StepFails leaves to its callers.      *)
FailureTypes ==
  /\ phase' \in [Calls -> Phases] /\ step' \in [Calls -> Steps]
  /\ attempt' \in [Calls -> 0 .. MaxAttempts - 1] /\ failed' \in [Calls -> SUBSET Steps]
  /\ aborted' \in [Calls -> BOOLEAN]
  /\ error' \in [Calls -> IntegrationErrors \cup {"none"}]
  /\ source' \in [Calls -> {"primary", "fallback", "default", "none"}]
  /\ UNCHANGED deferrals

(* What becomes of the error of a step keeps the types, whatever the kind  *)
(* of the flow.                                                            *)
LEMMA StepFailsTypes ==
  ASSUME FlowsTypeOK, NEW f \in Calls, OnItsWay(f), NEW i \in IntegrationErrors, StepFails(f, i)
  PROVE  FailureTypes
<1> USE CallsAssumption DEF FlowsTypeOK, GoTo
<1>1. {"returned", "undoing", "raised", "queued"} \subseteq Phases
  BY DEF Phases, Over
<1>2. CASE SagaFails(f, i)
  BY <1>1, <1>2 DEF SagaFails, FailureTypes
<1>3. CASE ContextFails(f, i)
  BY <1>1, <1>3 DEF ContextFails, FailureTypes
<1>4. CASE BulkFails(f, i)
  <2>1. failed' \in [Calls -> SUBSET Steps] /\ UNCHANGED <<deferrals, error, source>>
    BY <1>4 DEF BulkFails
  <2>2. CASE Abort(f, i)
    <3>1. /\ phase' = [phase EXCEPT ![f] = "returned"] /\ step' = step /\ attempt' = attempt
          /\ aborted' = [aborted EXCEPT ![f] = TRUE]
      BY <1>4, <2>2 DEF BulkFails
    <3>2. QED
      BY <1>1, <2>1, <3>1 DEF FailureTypes
  <2>3. CASE ~Abort(f, i)
    <3>1. Advance(f) /\ UNCHANGED aborted
      BY <1>4, <2>3 DEF BulkFails
    <3>2. QED
      BY <2>1, <3>1, AdvanceTypes DEF FailureTypes
  <2>4. QED
    BY <2>2, <2>3
<1>5. CASE ReadFails(f, i)
  BY <1>1, <1>5 DEF ReadFails, FailureTypes
<1>6. CASE DeferredFails(f, i)
  BY <1>1, <1>6 DEF DeferredFails, FailureTypes
<1>7. QED
  BY <1>2, <1>3, <1>4, <1>5, <1>6 DEF StepFails

(* While the flow stays at its step, what the provider does there leaves   *)
(* the order alone.                                                        *)
LEMMA InOrderAtStep ==
  ASSUME FlowsTypeOK, NEW f \in Calls, FlowInv(f), Grows(f), ~Complete(f), ~Complete(f)',
         kind'[f] = kind[f], step'[f] = step[f], succeeded'[f] = succeeded[f]
  PROVE  DoneInOrder(f)'
<1> SUFFICES ASSUME Compensating(f) PROVE DoneInOrder(f)'
  BY DEF DoneInOrder, Compensating
<1>1. /\ succeeded[f] = 1 .. step[f] - 1
      /\ \A s \in succeeded[f] : effects[f][s] > 0
      /\ \A s \in Steps : s > step[f] => effects[f][s] = 0
  BY DEF FlowInv, DoneInOrder
<1>2. /\ step[f] \in Nat
      /\ \A s \in succeeded[f] : s \in Steps /\ effects[f][s] \in Nat
  <2>1. step[f] \in Steps /\ succeeded[f] \subseteq Steps
    BY DEF FlowsTypeOK
  <2>2. \A s \in Steps : effects[f][s] \in Nat
    BY DEF FlowsTypeOK
  <2>3. QED
    BY <2>1, <2>2 DEF Steps
<1>3. \A s \in succeeded[f] : effects'[f][s] > 0
  BY <1>1, <1>2 DEF Grows
<1>4. \A s \in Steps : s > step[f] => effects'[f][s] = 0
  BY <1>1, <1>2 DEF Grows, Steps
<1>5. QED
  BY <1>1, <1>3, <1>4 DEF DoneInOrder

(* A flow whose step fails: what it is about to compensate succeeded.      *)
LEMMA StepFailsKeeps ==
  ASSUME FlowsTypeOK, NEW f \in Calls, FlowInv(f), phase[f] \in {"ready", "sent"},
         NEW i \in IntegrationErrors, StepFails(f, i), Grows(f)
  PROVE  FlowInv(f)'
<1> USE CallsAssumption DEF FlowsTypeOK, GoTo
<1>1. OnItsWay(f)'
  BY DEF FlowInv, OnItsWay, StepFails, SagaFails, ContextFails, BulkFails, ReadFails,
         DeferredFails, ShouldDeferRetry, Advance, LastStep
<1>2. /\ kind'[f] = kind[f] /\ succeeded'[f] = succeeded[f] /\ compensated'[f] = compensated[f]
      /\ deferrals'[f] = deferrals[f]
  BY DEF StepFails, SagaFails, ContextFails, BulkFails, ReadFails, DeferredFails
<1>3. \/ step'[f] = step[f] /\ phase'[f] \notin {"ready", "sent", "backoff"}
      \/ kind[f] = "bulk" /\ step'[f] = step[f] + 1 /\ phase'[f] = "ready"
  BY DEF StepFails, SagaFails, ContextFails, BulkFails, ReadFails, DeferredFails, Advance
<1>4. Compensating(f) =>
        /\ step'[f] = step[f] /\ error'[f] = i
        /\ \/ phase'[f] = "returned" /\ step[f] = 1
           \/ phase'[f] = "undoing" /\ step[f] # 1
           \/ phase'[f] = "raised"
  BY DEF Compensating, StepFails, SagaFails, ContextFails, BulkFails, ReadFails, DeferredFails
<1>5. i # "none"
  BY DEF IntegrationErrors
<1>6. step[f] \in Nat /\ step[f] >= 1 /\ step[f] <= NSteps /\ NSteps \in Nat
  BY DEF Steps
<1> HIDE DEF FlowsTypeOK, GoTo
<1>7. PerformedOnce(f)'
  <2> SUFFICES ASSUME NEW s \in Steps, s \in OneShot(f)
               PROVE  effects'[f][s] <= IF Spent(f, s)' THEN deferrals[f] + 1 ELSE deferrals[f]
    BY <1>2, OneShotSteps DEF PerformedOnce, OneShot
  <2>1. effects[f][s] \in Nat /\ deferrals[f] \in Nat /\ s \in Nat
    BY DEF Steps, FlowsTypeOK
  <2>2. effects[f][s] <= IF Spent(f, s) THEN deferrals[f] + 1 ELSE deferrals[f]
    BY DEF FlowInv, PerformedOnce
  <2>3. Spent(f, s) => s < step[f]
    BY DEF Spent
  <2>4. s <= step[f] => Spent(f, s)'
    <3>1. step'[f] = step[f] \/ step'[f] = step[f] + 1
      BY <1>3
    <3>2. s = step[f] => s < step'[f] \/ (s = step'[f] /\ phase'[f] \notin {"ready", "sent"})
      BY <1>3, <1>6
    <3>3. QED
      BY <1>6, <2>1, <3>1, <3>2 DEF Spent
  <2>5. CASE s <= step[f]
    <3>1. effects[f][s] <= deferrals[f] + 1 /\ (s = step[f] => effects[f][s] <= deferrals[f])
      BY <1>6, <2>1, <2>2, <2>3
    <3>2. effects'[f][s] <= deferrals[f] + 1
      BY <2>1, <3>1 DEF Grows
    <3>3. QED
      BY <2>4, <2>5, <3>2
  <2>6. CASE s > step[f]
    BY <1>6, <2>1, <2>2, <2>3, <2>6 DEF Grows
  <2>7. QED
    BY <1>6, <2>1, <2>5, <2>6
<1>8. ErrorIsKept(f)'
  BY <1>2, <1>4, <1>5 DEF ErrorIsKept, Compensating
<1>9. DoneInOrder(f)'
  <2>1. Compensating(f) => ~Complete(f) /\ ~Complete(f)' /\ step'[f] = step[f]
    BY <1>4, <1>5 DEF Complete
  <2>2. CASE Compensating(f)
    BY <1>2, <2>1, <2>2, InOrderAtStep
  <2>3. CASE ~Compensating(f)
    BY <1>2, <2>3 DEF DoneInOrder, Compensating
  <2>4. QED
    BY <2>2, <2>3
<1>10. UndoneDownTo(f)'
  <2> SUFFICES ASSUME Compensating(f) PROVE UndoneDownTo(f)'
    BY <1>2 DEF UndoneDownTo, Compensating
  <2>1. ~Complete(f) /\ ~Complete(f)'
    BY <1>4, <1>5 DEF Complete
  <2>2. succeeded[f] = 1 .. step[f] - 1
    BY <2>1 DEF FlowInv, DoneInOrder
  <2>3. \A s \in Steps : compensated[f][s] = "no"
    BY <2>1 DEF FlowInv, UndoneDownTo, Steps
  <2> DEFINE k == IF phase'[f] = "raised" THEN NSteps ELSE step[f] - 1
  <2>4. k \in 0 .. NSteps
    BY <1>6
  <2>5. \A s \in Steps : s <= k \/ s \notin succeeded[f]
    BY <1>6, <2>2 DEF Steps
  <2>6. phase'[f] = "undoing" => k \in succeeded[f]
    BY <1>4, <1>6, <2>2
  <2>7. phase'[f] = "returned" => k = 0
    BY <1>4, <1>6
  <2> HIDE DEF k
  <2>8. phase'[f] \notin {"undoing", "returned", "cancelled"} => k = NSteps
    BY <1>4 DEF k
  <2>9. QED
    BY <1>2, <2>1, <2>3, <2>4, <2>5, <2>6, <2>7, <2>8 DEF UndoneDownTo
<1>11. QED
  BY <1>1, <1>7, <1>8, <1>9, <1>10 DEF FlowInv

(* The others stay as they are.                                            *)
LEMMA OthersStay ==
  ASSUME FlowsTypeOK, NEW f \in Calls, NEW g \in Calls \ {f},
         \/ Restart(f) \/ Begin(f) \/ Answer(f) \/ Resume(f) \/ Dequeue(f)
         \/ Compensate(f) \/ CompensateAll(f) \/ AExit(f) \/ Cancel(f)
  PROVE  Same(g)
<1> USE DEF Same, GoTo
<1>1. ASSUME NEW i, StepFails(f, i), effects'[g] = effects[g] PROVE Same(g)
  BY <1>1 DEF StepFails, SagaFails, ContextFails, BulkFails, ReadFails, DeferredFails,
              Advance, FlowsTypeOK
<1>2. UNCHANGED effects \/ Performed(f) => effects'[g] = effects[g]
  BY PerformedGrows
<1>3. CASE Restart(f)
  BY <1>3 DEF Restart, NewFlow, FlowsTypeOK
<1>4. CASE Begin(f)
  BY <1>1, <1>2, <1>4 DEF Begin, FlowsTypeOK
<1>5. CASE Succeed(f)
  BY <1>2, <1>5 DEF Succeed, Advance, FlowsTypeOK
<1>6. ASSUME NEW e \in Answers, Fail(f, e) PROVE Same(g)
  BY <1>1, <1>2, <1>6 DEF Fail, FlowsTypeOK
<1>7. CASE Unexpected(f)
  BY <1>2, <1>7 DEF Unexpected, SagaFails, FlowsTypeOK
<1>8. CASE Resume(f)
  BY <1>8 DEF Resume, FlowsTypeOK
<1>9. CASE Dequeue(f)
  BY <1>9 DEF Dequeue, FlowsTypeOK
<1>10. CASE Compensate(f)
  BY <1>10 DEF Compensate, FlowsTypeOK
<1>11. CASE CompensateAll(f) \/ AExit(f)
  BY <1>11 DEF CompensateAll, AExit, FlowsTypeOK
<1>12. CASE Cancel(f)
  BY <1>2, <1>12 DEF Cancel, FlowsTypeOK
<1>13. QED
  BY <1>3, <1>4, <1>5, <1>6, <1>7, <1>8, <1>9, <1>10, <1>11, <1>12 DEF Answer

(* A flow that is started again has done nothing yet.                      *)
LEMMA RestartKeeps ==
  ASSUME FlowsTypeOK, NEW f \in Calls, Restart(f)
  PROVE  FlowsTypeOK' /\ FlowInv(f)'
<1> USE CallsAssumption DEF FlowsTypeOK
<1>1. PICK k \in Kinds[f] : NewFlow(f, k)
  BY DEF Restart
<1>2. k \in AllKinds /\ 1 \in Steps /\ NSteps \in 0 .. NSteps /\ "ready" \in Phases
  BY DEF Steps, Phases
<1>3. FlowsTypeOK'
  BY <1>1, <1>2 DEF NewFlow
<1>4. /\ kind'[f] = k /\ phase'[f] = "ready" /\ step'[f] = 1 /\ deferrals'[f] = 0
      /\ succeeded'[f] = {} /\ error'[f] = "none"
      /\ \A s \in Steps : compensated'[f][s] = "no" /\ effects'[f][s] = 0
  BY <1>1 DEF NewFlow
<1> HIDE DEF FlowsTypeOK
<1>5. OnItsWay(f)' /\ PerformedOnce(f)' /\ ErrorIsKept(f)'
  BY <1>4 DEF OnItsWay, PerformedOnce, OneShot, ErrorIsKept, Spent
<1>6. DoneInOrder(f)'
  BY <1>4 DEF DoneInOrder, Complete
<1>7. UndoneDownTo(f)'
  BY <1>2, <1>4 DEF UndoneDownTo, Complete
<1>8. QED
  BY <1>3, <1>5, <1>6, <1>7 DEF FlowInv

(* StepFails together with what the request did.                           *)
LEMMA FailureKeeps ==
  ASSUME FlowsTypeOK, NEW f \in Calls, FlowInv(f), phase[f] \in {"ready", "sent"},
         NEW i \in IntegrationErrors, StepFails(f, i), UNCHANGED effects \/ Performed(f)
  PROVE  FlowsTypeOK' /\ FlowInv(f)'
<1>1. OnItsWay(f)
  BY DEF FlowInv
<1>2. FailureTypes /\ UNCHANGED <<kind, succeeded, compensated>>
  BY <1>1, StepFailsTypes DEF StepFails
<1>3. FlowsTypeOK'
  BY <1>2, PerformedGrows DEF FlowsTypeOK, FailureTypes
<1>4. FlowInv(f)'
  BY PerformedGrows, StepFailsKeeps
<1>5. QED
  BY <1>3, <1>4

(* Asking the breaker keeps the invariant, whether it refuses or not.      *)
LEMMA BeginKeeps ==
  ASSUME FlowsTypeOK, NEW f \in Calls, FlowInv(f), Begin(f)
  PROVE  FlowsTypeOK' /\ FlowInv(f)'
<1>1. CASE StateNow = "open"
  BY <1>1, FailureKeeps, ErrorsHaveNames DEF Begin
<1>2. CASE StateNow # "open"
  <2>1. /\ phase[f] = "ready" /\ phase' = [phase EXCEPT ![f] = "sent"]
        /\ UNCHANGED <<kind, step, attempt, deferrals, succeeded, failed, aborted,
                       error, source, compensated, effects>>
    BY <1>2 DEF Begin, GoTo
  <2>2. FlowsTypeOK'
    BY <2>1 DEF FlowsTypeOK, Phases
  <2>3. phase'[f] = "sent"
    BY <2>1 DEF FlowsTypeOK
  <2>4. OnItsWay(f)' /\ PerformedOnce(f)' /\ ErrorIsKept(f)'
    BY <2>1, <2>3 DEF FlowInv, OnItsWay, PerformedOnce, OneShot, Spent, ErrorIsKept, Compensating
  <2>5. DoneInOrder(f)' /\ UndoneDownTo(f)'
    BY <2>1, <2>3 DEF FlowInv, DoneInOrder, UndoneDownTo, Complete, Compensating
  <2>6. QED
    BY <2>2, <2>4, <2>5 DEF FlowInv
<1>3. QED
  BY <1>1, <1>2

(* A failed request keeps it: it is sent again or its error handled.       *)
LEMMA FailKeeps ==
  ASSUME FlowsTypeOK, NEW f \in Calls, FlowInv(f), NEW e \in Answers, Fail(f, e)
  PROVE  FlowsTypeOK' /\ FlowInv(f)'
<1>1. phase[f] = "sent" /\ (UNCHANGED effects \/ Performed(f))
  BY DEF Fail
<1>2. CASE StepFails(f, ClassifyHttpError(e))
  BY <1>1, <1>2, FailureKeeps, ErrorsHaveNames
<1>3. CASE /\ ShouldRetryMethod(kind[f], step[f]) /\ attempt[f] + 1 < MaxAttempts
           /\ GoTo(f, "backoff")
           /\ attempt' = [attempt EXCEPT ![f] = @ + 1]
           /\ UNCHANGED <<kind, step, deferrals, succeeded, failed, aborted, error,
                          source, compensated>>
  <2>1. FlowsTypeOK'
    BY <1>1, <1>3, PerformedGrows, CallsAssumption DEF FlowsTypeOK, GoTo, Phases
  <2>2. phase'[f] = "backoff" /\ step[f] \notin OneShot(f)
    BY <1>3 DEF FlowsTypeOK, GoTo, ShouldRetryMethod, OneShot
  <2>3. Grows(f)
    BY <1>1, PerformedGrows
  <2>4. OnItsWay(f)' /\ ErrorIsKept(f)'
    BY <1>1, <1>3, <2>2 DEF FlowInv, OnItsWay, OneShot, ErrorIsKept, Compensating
  <2>5. PerformedOnce(f)'
    BY <1>1, <1>3, <2>2, <2>3 DEF FlowInv, PerformedOnce, OneShot, Spent, Grows
  <2>6. UndoneDownTo(f)'
    BY <1>1, <1>3, <2>2 DEF FlowInv, UndoneDownTo, Complete, Compensating
  <2>7. DoneInOrder(f)'
    BY <1>1, <1>3, <2>2, <2>3, InOrderAtStep DEF Complete
  <2>8. QED
    BY <2>1, <2>4, <2>5, <2>6, <2>7 DEF FlowInv
<1>4. QED
  BY <1>2, <1>3 DEF Fail

(* A successful request keeps it: the step is done and was performed.      *)
LEMMA SucceedKeeps ==
  ASSUME FlowsTypeOK, NEW f \in Calls, FlowInv(f), Succeed(f)
  PROVE  FlowsTypeOK' /\ FlowInv(f)'
<1>1. /\ phase[f] = "sent" /\ Performed(f) /\ Advance(f) /\ OnItsWay(f)
      /\ succeeded' = [succeeded EXCEPT ![f] = @ \cup {step[f]}]
      /\ source' = [source EXCEPT ![f] = IF kind[f] = "read" THEN "primary" ELSE @]
      /\ error' = [error EXCEPT ![f] = "none"]
      /\ UNCHANGED <<kind, deferrals, failed, aborted, compensated>>
  BY DEF Succeed, FlowInv
<1>2. FlowsTypeOK'
  BY <1>1, AdvanceTypes, PerformedGrows DEF FlowsTypeOK
<1>3. Grows(f) /\ effects'[f][step[f]] > 0
  BY <1>1, PerformedGrows
<1>4. \/ phase'[f] = "returned" /\ step'[f] = step[f] /\ step[f] = LastStep(f)
      \/ phase'[f] = "ready" /\ step'[f] = step[f] + 1 /\ step[f] # LastStep(f)
  BY <1>1 DEF Advance, GoTo, FlowsTypeOK
<1>5. /\ kind'[f] = kind[f] /\ deferrals'[f] = deferrals[f] /\ error'[f] = "none"
      /\ succeeded'[f] = succeeded[f] \cup {step[f]} /\ compensated'[f] = compensated[f]
  BY <1>1 DEF FlowsTypeOK
<1>6. /\ step[f] \in Nat /\ step[f] >= 1 /\ step[f] <= NSteps /\ NSteps \in Nat
      /\ deferrals[f] \in Nat /\ \A s \in Steps : effects[f][s] \in Nat
  BY CallsAssumption DEF Steps, FlowsTypeOK
<1>7. OnItsWay(f)' /\ ErrorIsKept(f)'
  BY <1>1, <1>4, <1>5 DEF OnItsWay, LastStep, ErrorIsKept, OneShot
<1>8. PerformedOnce(f)'
  <2> SUFFICES ASSUME NEW s \in Steps, s \in OneShot(f)
               PROVE  effects'[f][s] <= IF Spent(f, s)' THEN deferrals[f] + 1 ELSE deferrals[f]
    BY <1>5, OneShotSteps DEF PerformedOnce, OneShot
  <2>1. effects[f][s] <= IF Spent(f, s) THEN deferrals[f] + 1 ELSE deferrals[f]
    BY DEF FlowInv, PerformedOnce
  <2>2. s \in Nat
    BY DEF Steps
  <2>3. s <= step[f] => Spent(f, s)'
    BY <1>4, <1>6, <2>2 DEF Spent
  <2>4. Spent(f, s) <=> s < step[f]
    BY <1>1 DEF Spent
  <2>5. CASE s < step[f]
    BY <1>3, <1>6, <2>1, <2>2, <2>3, <2>4, <2>5 DEF Grows
  <2>6. CASE s = step[f]
    BY <1>3, <1>6, <2>1, <2>2, <2>3, <2>4, <2>6 DEF Grows
  <2>7. CASE s > step[f]
    BY <1>3, <1>6, <2>1, <2>2, <2>4, <2>7 DEF Grows
  <2>8. QED
    BY <1>6, <2>2, <2>5, <2>6, <2>7
<1>9. DoneInOrder(f)'
  <2> SUFFICES ASSUME Compensating(f) PROVE DoneInOrder(f)'
    BY <1>5 DEF DoneInOrder, Compensating
  <2>1. LastStep(f) = NSteps
    BY DEF Compensating, LastStep
  <2>2. /\ succeeded[f] = 1 .. step[f] - 1
        /\ \A s \in succeeded[f] : effects[f][s] > 0
        /\ \A s \in Steps : s > step[f] => effects[f][s] = 0
    BY <1>1 DEF FlowInv, DoneInOrder, Complete
  <2>3. succeeded'[f] = 1 .. step[f]
    BY <1>5, <1>6, <2>2
  <2>4. succeeded'[f] = IF Complete(f)' THEN Steps ELSE 1 .. step'[f] - 1
    BY <1>4, <1>5, <1>6, <2>1, <2>3 DEF Complete, Steps
  <2>5. \A s \in succeeded'[f] : effects'[f][s] > 0
    BY <1>3, <1>6, <2>2, <2>3 DEF Grows, Steps
  <2>6. \A s \in Steps : s > step'[f] => effects'[f][s] = 0
    BY <1>3, <1>4, <1>6, <2>2 DEF Grows, Steps
  <2>7. QED
    BY <2>4, <2>5, <2>6 DEF DoneInOrder
<1>10. UndoneDownTo(f)'
  <2> SUFFICES ASSUME Compensating(f) PROVE UndoneDownTo(f)'
    BY <1>5 DEF UndoneDownTo, Compensating
  <2>1. \A s \in Steps : compensated[f][s] = "no"
    BY <1>1 DEF FlowInv, UndoneDownTo, Steps
  <2>2. NSteps \in 0 .. NSteps /\ \A s \in Steps : s <= NSteps
    BY <1>6 DEF Steps
  <2>3. QED
    BY <1>4, <1>5, <2>1, <2>2 DEF UndoneDownTo, Complete
<1>11. QED
  BY <1>2, <1>7, <1>8, <1>9, <1>10 DEF FlowInv

(* An exception that is no answer keeps it.                                *)
LEMMA UnexpectedKeeps ==
  ASSUME FlowsTypeOK, NEW f \in Calls, FlowInv(f), Unexpected(f)
  PROVE  FlowsTypeOK' /\ FlowInv(f)'
<1>1. /\ phase[f] = "sent" /\ (UNCHANGED effects \/ Performed(f))
      /\ UNCHANGED <<kind, succeeded, compensated>>
  BY DEF Unexpected
<1>2. {"base", "exception"} \subseteq IntegrationErrors
  BY DEF IntegrationErrors
<1>3. CASE kind[f] = "saga"
  <2>1. StepFails(f, "base")
    BY <1>1, <1>3 DEF Unexpected, StepFails
  <2>2. QED
    BY <1>1, <1>2, <2>1, FailureKeeps
<1>4. CASE kind[f] # "saga"
  <2>1. /\ phase' = [phase EXCEPT ![f] = "raised"]
        /\ error' = [error EXCEPT ![f] = "exception"]
        /\ UNCHANGED <<step, attempt, deferrals, failed, aborted, source>>
    BY <1>4 DEF Unexpected, GoTo
  <2>2. CASE kind[f] = "context"
    <3>1. StepFails(f, "exception")
      BY <1>1, <2>1, <2>2 DEF StepFails, ContextFails, GoTo
    <3>2. QED
      BY <1>1, <1>2, <3>1, FailureKeeps
  <2>3. CASE kind[f] # "context"
    <3>1. FlowsTypeOK'
      BY <1>1, <1>2, <2>1, PerformedGrows DEF FlowsTypeOK, Phases, Over
    <3>2. phase'[f] = "raised" /\ ~Compensating(f) /\ ~Compensating(f)'
      BY <1>1, <1>4, <2>1, <2>3 DEF FlowsTypeOK, Compensating
    <3>3. OnItsWay(f)'
      BY <1>1, <2>1, <3>2 DEF FlowInv, OnItsWay
    <3>4. PerformedOnce(f)'
      <4> SUFFICES ASSUME NEW s \in Steps, s \in OneShot(f)
                   PROVE  effects'[f][s] <= IF Spent(f, s)' THEN deferrals[f] + 1 ELSE deferrals[f]
        BY <1>1, <2>1, OneShotSteps DEF PerformedOnce, OneShot
      <4>1. effects[f][s] <= IF Spent(f, s) THEN deferrals[f] + 1 ELSE deferrals[f]
        BY DEF FlowInv, PerformedOnce
      <4>2. effects[f][s] \in Nat /\ deferrals[f] \in Nat
        BY DEF FlowsTypeOK
      <4>3. Spent(f, s) => s < step[f]
        BY <1>1 DEF Spent
      <4>4. s = step[f] \/ Spent(f, s) => Spent(f, s)'
        BY <1>1, <2>1, <3>2 DEF Spent
      <4>5. step[f] \in Nat
        BY DEF FlowsTypeOK, Steps
      <4>6. Grows(f)
        BY <1>1, PerformedGrows
      <4>7. QED
        BY <4>1, <4>2, <4>3, <4>4, <4>5, <4>6 DEF Grows
    <3>5. QED
      BY <3>1, <3>2, <3>3, <3>4 DEF FlowInv, ErrorIsKept, DoneInOrder, UndoneDownTo
  <2>4. QED
    BY <2>2, <2>3
<1>5. QED
  BY <1>3, <1>4

(* A sleep ends, or the call is made anew.                                 *)
LEMMA ReadyKeeps ==
  ASSUME FlowsTypeOK, NEW f \in Calls, FlowInv(f), Resume(f) \/ Dequeue(f)
  PROVE  FlowsTypeOK' /\ FlowInv(f)'
<1>1. CASE Resume(f)
  <2>1. /\ phase[f] = "backoff" /\ phase' = [phase EXCEPT ![f] = "ready"]
        /\ UNCHANGED <<kind, step, attempt, deferrals, succeeded, failed, aborted,
                       error, source, compensated, effects>>
    BY <1>1 DEF Resume, GoTo
  <2>2. FlowsTypeOK'
    BY <2>1 DEF FlowsTypeOK, Phases
  <2>3. phase'[f] = "ready" /\ step[f] \notin OneShot(f)
    BY <2>1 DEF FlowsTypeOK, FlowInv, OnItsWay
  <2>4. OnItsWay(f)' /\ ErrorIsKept(f)'
    BY <2>1, <2>3 DEF FlowInv, OnItsWay, OneShot, ErrorIsKept, Compensating
  <2>5. PerformedOnce(f)'
    BY <2>1, <2>3 DEF FlowInv, PerformedOnce, OneShot, Spent
  <2>6. DoneInOrder(f)' /\ UndoneDownTo(f)'
    BY <2>1, <2>3 DEF FlowInv, DoneInOrder, UndoneDownTo, Complete, Compensating
  <2>7. QED
    BY <2>2, <2>4, <2>5, <2>6 DEF FlowInv
<1>2. CASE Dequeue(f)
  <2>1. /\ phase[f] = "queued" /\ phase' = [phase EXCEPT ![f] = "ready"]
        /\ step' = [step EXCEPT ![f] = 1] /\ attempt' = [attempt EXCEPT ![f] = 0]
        /\ deferrals' = [deferrals EXCEPT ![f] = @ + 1]
        /\ succeeded' = [succeeded EXCEPT ![f] = {}]
        /\ UNCHANGED <<kind, failed, aborted, error, source, compensated, effects>>
    BY <1>2 DEF Dequeue, GoTo
  <2>2. kind[f] = "deferred" /\ deferrals[f] + 1 < MaxDeferrals
    BY <2>1 DEF FlowInv, OnItsWay
  <2>3. FlowsTypeOK'
    <3>1. 1 \in Steps /\ "ready" \in Phases /\ 0 \in 0 .. MaxAttempts - 1
      BY CallsAssumption DEF Steps, Phases
    <3>2. deferrals[f] + 1 \in 0 .. MaxDeferrals - 1
      BY <2>2, CallsAssumption DEF FlowsTypeOK
    <3>3. QED
      BY <2>1, <3>1, <3>2 DEF FlowsTypeOK
  <2>4. /\ phase'[f] = "ready" /\ step'[f] = 1 /\ deferrals'[f] = deferrals[f] + 1
        /\ kind'[f] = "deferred" /\ ~Compensating(f)'
    BY <2>1, <2>2 DEF FlowsTypeOK, Compensating
  <2>5. OnItsWay(f)'
    BY <2>4 DEF OnItsWay
  <2>6. PerformedOnce(f)'
    <3>1. ASSUME NEW s \in Steps, s \in OneShot(f)
          PROVE  effects'[f][s] <= IF Spent(f, s)' THEN deferrals'[f] + 1 ELSE deferrals'[f]
      <4>1. effects[f][s] <= IF Spent(f, s) THEN deferrals[f] + 1 ELSE deferrals[f]
        BY <3>1 DEF FlowInv, PerformedOnce
      <4>2. effects[f][s] \in Nat /\ deferrals[f] \in Nat
        BY DEF FlowsTypeOK
      <4>3. QED
        BY <2>1, <2>4, <4>1, <4>2
    <3>2. QED
      BY <2>1, <3>1, OneShotSteps DEF PerformedOnce, OneShot
  <2>7. QED
    BY <2>3, <2>4, <2>5, <2>6 DEF FlowInv, ErrorIsKept, DoneInOrder, UndoneDownTo
<1>3. QED
  BY <1>1, <1>2

(* Compensation goes down one step.                                        *)
LEMMA CompensateKeeps ==
  ASSUME FlowsTypeOK, NEW f \in Calls, FlowInv(f), Compensate(f)
  PROVE  FlowsTypeOK' /\ FlowInv(f)'
<1> DEFINE s == NextUndone(f)
<1>1. /\ phase[f] = "undoing"
      /\ UNCHANGED <<kind, step, attempt, deferrals, succeeded, failed, aborted,
                     error, source, effects>>
  BY DEF Compensate
<1>2. PICK r \in {"executed", "failed", "skipped"} :
        compensated' = [compensated EXCEPT ![f][s] = r]
  BY DEF Compensate
<1>3. phase' = [phase EXCEPT ![f] = IF \A t \in succeeded[f] \ {s} : compensated[f][t] # "no"
                                    THEN "returned" ELSE "undoing"]
  BY DEF Compensate, GoTo
<1>4. FlowsTypeOK'
  <2>1. compensated' \in [Calls -> [Steps -> {"no", "executed", "failed", "skipped"}]]
    BY <1>2 DEF FlowsTypeOK
  <2>2. phase' \in [Calls -> Phases]
    BY <1>3 DEF FlowsTypeOK, Phases, Over
  <2>3. QED
    BY <1>1, <2>1, <2>2 DEF FlowsTypeOK
<1>5. phase'[f] \in {"returned", "undoing"}
  BY <1>3 DEF FlowsTypeOK
<1>6. OnItsWay(f)' /\ PerformedOnce(f)' /\ ErrorIsKept(f)'
  BY <1>1, <1>5 DEF FlowInv, OnItsWay, PerformedOnce, OneShot, Spent, ErrorIsKept, Compensating
<1>7. CASE ~Compensating(f)
  BY <1>1, <1>4, <1>6, <1>7 DEF FlowInv, DoneInOrder, UndoneDownTo, Compensating
<1>8. CASE Compensating(f)
  <2>1. ~Complete(f) /\ ~Complete(f)' /\ error[f] # "none"
    BY <1>1, <1>8 DEF FlowInv, ErrorIsKept, Complete
  <2>2. DoneInOrder(f)'
    <3>1. Grows(f)
      BY <1>1 DEF Grows, FlowsTypeOK
    <3>2. QED
      BY <1>1, <2>1, <3>1, InOrderAtStep
  <2>3. succeeded[f] = 1 .. step[f] - 1 /\ succeeded[f] \subseteq Steps
    BY <2>1, <1>8 DEF FlowInv, DoneInOrder, FlowsTypeOK
  <2>4. PICK k \in succeeded[f] :
          \A t \in Steps : compensated[f][t] = "no" <=> t <= k \/ t \notin succeeded[f]
    BY <1>1, <1>8 DEF FlowInv, UndoneDownTo
  <2>5. k \in Nat /\ k >= 1 /\ k <= NSteps /\ k \in Steps /\ step[f] \in Nat
    BY <2>3, CallsAssumption DEF Steps, FlowsTypeOK
  <2>6. s = k
    <3> DEFINE Undone(t) == /\ compensated[f][t] = "no"
                            /\ \A u \in succeeded[f] : u > t => compensated[f][u] # "no"
    <3>1. Undone(k)
      BY <2>3, <2>4, <2>5 DEF Steps
    <3>2. \A t \in succeeded[f] : Undone(t) => t = k
      BY <2>3, <2>4, <2>5 DEF Steps
    <3>3. s = CHOOSE t \in succeeded[f] : Undone(t)
      BY DEF NextUndone
    <3> HIDE DEF Undone
    <3>4. QED
      BY <3>1, <3>2, <3>3
  <2> HIDE DEF s
  <2>7. /\ compensated'[f][k] # "no"
        /\ \A t \in Steps \ {k} : compensated'[f][t] = compensated[f][t]
    BY <1>2, <2>5, <2>6 DEF FlowsTypeOK
  <2>8. \A t \in Steps : compensated'[f][t] = "no" <=> t <= k - 1 \/ t \notin succeeded[f]
    BY <2>4, <2>5, <2>7 DEF Steps
  <2>9. phase'[f] = "undoing" => k - 1 \in succeeded[f]
    <3>1. ASSUME phase'[f] = "undoing", k = 1 PROVE FALSE
      <4>1. \A t \in succeeded[f] \ {s} : compensated[f][t] # "no"
        BY <2>3, <2>4, <2>6, <3>1 DEF Steps
      <4>2. QED
        BY <1>3, <3>1, <4>1 DEF FlowsTypeOK
    <3>2. QED
      BY <2>3, <2>5, <3>1
  <2>10. phase'[f] = "returned" => k - 1 = 0
    <3>1. ASSUME phase'[f] = "returned", k # 1 PROVE FALSE
      <4>1. k - 1 \in succeeded[f] \ {s}
        BY <2>3, <2>5, <2>6, <3>1
      <4>2. compensated[f][k - 1] = "no"
        BY <2>3, <2>4, <2>5, <4>1
      <4>3. QED
        BY <1>3, <3>1, <4>1, <4>2 DEF FlowsTypeOK
    <3>2. QED
      BY <2>5, <3>1
  <2>11. UndoneDownTo(f)'
    <3>1. k - 1 \in 0 .. NSteps
      BY <2>5, CallsAssumption
    <3>2. succeeded'[f] = succeeded[f] /\ ~Complete(f)'
      BY <1>1, <2>1
    <3>3. QED
      BY <1>5, <2>8, <2>9, <2>10, <3>1, <3>2 DEF UndoneDownTo
  <2>12. QED
    BY <1>4, <1>6, <2>2, <2>11 DEF FlowInv
<1>9. QED
  BY <1>7, <1>8

(* The caller of a context goes on after its error.                        *)
LEMMA LeaveKeeps ==
  ASSUME FlowsTypeOK, NEW f \in Calls, FlowInv(f), CompensateAll(f) \/ AExit(f)
  PROVE  FlowsTypeOK' /\ FlowInv(f)'
<1>1. /\ kind[f] = "context" /\ phase[f] = "raised"
      /\ UNCHANGED <<kind, step, attempt, deferrals, succeeded, failed, aborted,
                     error, source, compensated, effects>>
  BY DEF CompensateAll, AExit
<1>2. \/ phase' = [phase EXCEPT ![f] = IF succeeded[f] = {} THEN "returned" ELSE "undoing"]
      \/ phase' = [phase EXCEPT ![f] = "left"]
  BY DEF CompensateAll, AExit, GoTo
<1>3. FlowsTypeOK'
  <2>1. phase' \in [Calls -> Phases]
    BY <1>2 DEF FlowsTypeOK, Phases, Over
  <2>2. QED
    BY <1>1, <2>1 DEF FlowsTypeOK
<1>4. \/ phase'[f] = "returned" /\ succeeded[f] = {}
      \/ phase'[f] = "undoing" /\ succeeded[f] # {}
      \/ phase'[f] = "left"
  BY <1>2 DEF FlowsTypeOK
<1>5. error[f] # "none" /\ ~Complete(f) /\ ~Complete(f)'
  BY <1>1 DEF FlowInv, ErrorIsKept, Compensating, Complete
<1>6. OnItsWay(f)' /\ PerformedOnce(f)' /\ ErrorIsKept(f)'
  BY <1>1, <1>4, <1>5 DEF FlowInv, OnItsWay, PerformedOnce, OneShot, Spent, ErrorIsKept
<1>7. DoneInOrder(f)'
  <2>1. Grows(f)
    BY <1>1 DEF Grows, FlowsTypeOK
  <2>2. QED
    BY <1>1, <1>5, <2>1, InOrderAtStep
<1>8. UndoneDownTo(f)'
  <2>1. succeeded[f] = 1 .. step[f] - 1
    BY <1>1, <1>5 DEF FlowInv, DoneInOrder, Compensating
  <2>2. /\ step[f] \in Nat /\ step[f] >= 1 /\ step[f] <= NSteps
        /\ NSteps \in Nat /\ \A s \in Steps : s \in Nat /\ s <= NSteps
    BY CallsAssumption DEF FlowsTypeOK, Steps
  <2>3. \A s \in Steps : compensated[f][s] = "no"
    BY <1>1, <2>2 DEF FlowInv, UndoneDownTo, Compensating
  <2> DEFINE k == IF phase'[f] = "left" THEN NSteps ELSE step[f] - 1
  <2>4. k \in 0 .. NSteps
    BY <2>2
  <2>5. \A s \in Steps : s <= k \/ s \notin succeeded[f]
    BY <2>1, <2>2
  <2>6. phase'[f] = "undoing" => k \in succeeded[f]
    BY <1>4, <2>1, <2>2
  <2>7. phase'[f] = "returned" => k = 0
    BY <1>4, <2>1, <2>2
  <2>8. phase'[f] = "left" => k = NSteps
    OBVIOUS
  <2> HIDE DEF k
  <2>9. QED
    BY <1>1, <1>4, <1>5, <2>3, <2>4, <2>5, <2>6, <2>7, <2>8 DEF UndoneDownTo
<1>9. QED
  BY <1>3, <1>6, <1>7, <1>8 DEF FlowInv

(* Cancelled: whatever was done stays done.                                *)
LEMMA CancelKeeps ==
  ASSUME FlowsTypeOK, NEW f \in Calls, FlowInv(f), Cancel(f)
  PROVE  FlowsTypeOK' /\ FlowInv(f)'
<1>1. /\ phase[f] \in {"sent", "backoff", "undoing"} /\ phase' = [phase EXCEPT ![f] = "cancelled"]
      /\ UNCHANGED effects \/ (phase[f] = "sent" /\ Performed(f))
      /\ UNCHANGED <<kind, step, attempt, deferrals, succeeded, failed, aborted,
                     error, source, compensated>>
  BY DEF Cancel, GoTo
<1>2. FlowsTypeOK' /\ Grows(f)
  BY <1>1, PerformedGrows DEF FlowsTypeOK, Phases, Over
<1>3. phase'[f] = "cancelled" /\ ~Complete(f) /\ ~Complete(f)'
  BY <1>1 DEF FlowsTypeOK, Complete
<1>4. OnItsWay(f)' /\ ErrorIsKept(f)' /\ UndoneDownTo(f)'
  BY <1>1, <1>3 DEF FlowInv, OnItsWay, ErrorIsKept, UndoneDownTo, Compensating
<1>5. DoneInOrder(f)'
  BY <1>1, <1>2, <1>3, InOrderAtStep
<1>6. PerformedOnce(f)'
  <2> SUFFICES ASSUME NEW s \in Steps, s \in OneShot(f)
               PROVE  effects'[f][s] <= IF Spent(f, s)' THEN deferrals[f] + 1 ELSE deferrals[f]
    BY <1>1, OneShotSteps DEF PerformedOnce, OneShot
  <2>1. effects[f][s] <= IF Spent(f, s) THEN deferrals[f] + 1 ELSE deferrals[f]
    BY DEF FlowInv, PerformedOnce
  <2>2. effects[f][s] \in Nat /\ deferrals[f] \in Nat /\ step[f] \in Nat
    <3>1. effects[f][s] \in Nat /\ deferrals[f] \in Nat
      BY DEF FlowsTypeOK
    <3>2. step[f] \in Nat
      BY DEF FlowsTypeOK, Steps
    <3>3. QED
      BY <3>1, <3>2
  <2>3. s = step[f] \/ Spent(f, s) => Spent(f, s)'
    BY <1>1, <1>3 DEF Spent
  <2>4. CASE phase[f] = "sent"
    <3>1. Spent(f, s) => s < step[f]
      BY <2>4 DEF Spent
    <3>2. QED
      BY <1>2, <2>1, <2>2, <2>3, <3>1 DEF Grows
  <2>5. CASE phase[f] # "sent"
    BY <1>1, <2>1, <2>2, <2>3, <2>5
  <2>6. QED
    BY <2>4, <2>5
<1>7. QED
  BY <1>2, <1>4, <1>5, <1>6 DEF FlowInv

(* The invariant of the flows is inductive.                                *)
LEMMA FlowsStep == FlowsIInv /\ [NextCalls]_allVars => FlowsIInv'
<1> SUFFICES ASSUME FlowsIInv, [NextCalls]_allVars PROVE FlowsIInv'
  OBVIOUS
<1>1. FlowsTypeOK /\ \A g \in Calls : FlowInv(g)
  BY DEF FlowsIInv
<1>2. ASSUME NEW f \in Calls,
             \/ Restart(f) \/ Begin(f) \/ Answer(f) \/ Resume(f) \/ Dequeue(f)
             \/ Compensate(f) \/ CompensateAll(f) \/ AExit(f) \/ Cancel(f)
      PROVE  FlowsIInv'
  <2>1. FlowsTypeOK' /\ FlowInv(f)'
    BY <1>1, <1>2, RestartKeeps, BeginKeeps, SucceedKeeps, FailKeeps, UnexpectedKeeps,
       ReadyKeeps, CompensateKeeps, LeaveKeeps, CancelKeeps DEF Answer
  <2>2. ASSUME NEW g \in Calls \ {f} PROVE FlowInv(g)'
    BY <1>1, <1>2, OthersStay, SameFlow
  <2>3. QED
    BY <2>1, <2>2 DEF FlowsIInv
<1>3. CASE UNCHANGED flowVars
  <2>1. FlowsTypeOK'
    BY <1>1, <1>3 DEF flowVars, FlowsTypeOK
  <2>2. ASSUME NEW g \in Calls PROVE FlowInv(g)'
    BY <1>1, <1>3, SameFlow DEF flowVars, Same
  <2>3. QED
    BY <2>1, <2>2 DEF FlowsIInv
<1>4. QED
  BY <1>2, <1>3 DEF NextCalls, allVars

(* The inductive invariant of the flows.                                   *)
THEOREM FlowsInvariance == CallsSpec => []FlowsIInv
  BY FlowsStart, FlowsStep, PTL DEF CallsSpec

(* Every variable of the flows keeps its type.                             *)
THEOREM FlowsTypeCorrect == CallsSpec => []FlowsTypeOK
<1>1. FlowsIInv => FlowsTypeOK
  BY DEF FlowsIInv
<1>2. QED
  BY <1>1, FlowsInvariance, PTL

(* However often a call is retried, a method that is not idempotent is     *)
(* performed at most once each time the call is taken from the queue.      *)
THEOREM NotPerformedTwice == CallsSpec => []NonIdempotentOnce
<1>1. FlowsIInv => NonIdempotentOnce
  <2> SUFFICES ASSUME FlowsIInv, NEW f \in Calls,
                      NEW s \in Steps, s \in OneShot(f)
               PROVE  effects[f][s] <= deferrals[f] + 1
    BY OneShotSteps DEF NonIdempotentOnce
  <2>1. effects[f][s] \in Nat /\ deferrals[f] \in Nat
    BY DEF FlowsIInv, FlowsTypeOK
  <2>2. QED
    BY <2>1 DEF FlowsIInv, FlowInv, PerformedOnce, OneShot
<1>2. QED
  BY <1>1, FlowsInvariance, PTL

(* A saga reports success only with everything done, and failure only with *)
(* everything compensated or accounted for, the latest step first.         *)
THEOREM SagasRollBack == CallsSpec => []RolledBack
<1>1. FlowsIInv => RolledBack
  <2> SUFFICES ASSUME FlowsIInv, NEW f \in Calls, kind[f] \in {"saga", "context"}
               PROVE  /\ Complete(f) => \A s \in Steps : effects[f][s] > 0 /\ compensated[f][s] = "no"
                      /\ phase[f] = "returned" /\ error[f] # "none" =>
                           \A s \in Steps \ {step[f]} : effects[f][s] > 0 <=> compensated[f][s] # "no"
                      /\ \A s \in Steps, t \in succeeded[f] :
                           s < t /\ compensated[f][s] # "no" => compensated[f][t] # "no"
    BY DEF RolledBack, Complete
  <2>1. FlowsTypeOK /\ DoneInOrder(f) /\ UndoneDownTo(f) /\ Compensating(f)
    BY DEF FlowsIInv, FlowInv, Compensating
  <2>2. /\ step[f] \in Nat /\ succeeded[f] \subseteq Steps
        /\ NSteps \in Nat /\ \A s \in Steps : s \in Nat /\ s >= 1 /\ s <= NSteps
    BY <2>1, CallsAssumption DEF FlowsTypeOK, Steps
  <2>3. /\ succeeded[f] = IF Complete(f) THEN Steps ELSE 1 .. step[f] - 1
        /\ \A s \in succeeded[f] : effects[f][s] > 0
        /\ \A s \in Steps : s > step[f] => effects[f][s] = 0
    BY <2>1 DEF DoneInOrder
  <2>4. PICK k \in 0 .. NSteps :
          /\ \A s \in Steps : compensated[f][s] = "no" <=> s <= k \/ s \notin succeeded[f]
          /\ phase[f] = "returned" /\ error[f] # "none" => k = 0
          /\ Complete(f) => k = NSteps
    BY <2>1 DEF UndoneDownTo
  <2>5. Complete(f) => \A s \in Steps : effects[f][s] > 0 /\ compensated[f][s] = "no"
    BY <2>2, <2>3, <2>4
  <2>6. ASSUME phase[f] = "returned", error[f] # "none", NEW s \in Steps \ {step[f]}
        PROVE  effects[f][s] > 0 <=> compensated[f][s] # "no"
    <3>1. ~Complete(f) /\ k = 0
      BY <2>4, <2>6 DEF Complete
    <3>2. s \in succeeded[f] <=> s < step[f]
      BY <2>2, <2>3, <3>1
    <3>3. effects[f][s] > 0 <=> s < step[f]
      BY <2>2, <2>3, <2>6, <3>2
    <3>4. compensated[f][s] # "no" <=> s \in succeeded[f]
      BY <2>2, <2>4, <3>1
    <3>5. QED
      BY <3>2, <3>3, <3>4
  <2>7. ASSUME NEW s \in Steps, NEW t \in succeeded[f], s < t, compensated[f][s] # "no"
        PROVE  compensated[f][t] # "no"
    BY <2>2, <2>4, <2>7
  <2>8. QED
    BY <2>5, <2>6, <2>7
<1>2. QED
  BY <1>1, FlowsInvariance, PTL
=============================================================================
