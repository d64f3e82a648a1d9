--------------------------- MODULE Workflows_proofs ---------------------------
(***************************************************************************)
(* Theorems about the workflow engine for every definition: facts about    *)
(* the operators of WorkflowCore first; then WorkflowJobs for every set of *)
(* workers and jobs and every max_tries, typing and the three invariants   *)
(* of the committed row from the inductive invariant IInv; then            *)
(* WorkflowRunner, the retry budget of a session and the refinement of the *)
(* saga from the inductive invariant RunnerInv.                            *)
(***************************************************************************)
EXTENDS WorkflowJobs, WorkflowRunner, SequenceTheorems, TLAPS

(*************************** operators of WorkflowCore *********************)

(* start builds a well-formed execution. *)
LEMMA NewExecutionType == NewExecution \in Execution
BY DefinitionAssumption DEF NewExecution, Execution, Status, Live, Steps, NoWait

(* Counting an attempt keeps the execution well-formed. *)
LEMMA AttemptedType ==
  ASSUME NEW e \in Execution
  PROVE  Attempted(e) \in Execution
<1> DEFINE counts == [e.attempt_count EXCEPT ![e.current_step] = @ + 1]
<1>1. counts \in [Steps -> Nat]
  BY DEF Execution
<1>2. Attempted(e) = [e EXCEPT !.attempt_count = counts]
  BY DEF Attempted
<1>3. QED
  BY <1>1, <1>2 DEF Execution

(* The step that follows, if any, is a step of the definition. *)
LEMMA FollowingStepType ==
  ASSUME NEW s \in Steps, NEW override
  PROVE  FollowingStep(s, override) \in Steps \cup {NoStep}
BY DefinitionAssumption
   DEF FollowingStep, GetNextStep, GetStep, Steps, NoStep, NoOverride

(* Moving to a next step, or finishing, keeps the execution well-formed. *)
LEMMA MoveToType ==
  ASSUME NEW e \in Execution, NEW next \in Steps \cup {NoStep}
  PROVE  MoveTo(e, next) \in Execution
BY DEF MoveTo, Execution, Status, Live, Terminal

(* A SUCCEEDED result keeps the execution well-formed. *)
LEMMA OnSucceededType ==
  ASSUME NEW e \in Execution, NEW override
  PROVE  OnSucceeded(e, override) \in Execution
<1> DEFINE s == e.current_step
           f == [e EXCEPT !.wait_until[s] = NoWait,
                          !.completed_steps = @ \cup {s}]
<1>1. s \in Steps /\ f \in Execution
  BY DEF Execution, NoWait
<1>2. FollowingStep(s, override) \in Steps \cup {NoStep}
  BY <1>1, FollowingStepType
<1>3. MoveTo(f, FollowingStep(s, override)) \in Execution
  BY <1>1, <1>2, MoveToType
<1>4. QED
  BY <1>3 DEF OnSucceeded

(* A SKIPPED result keeps the execution well-formed. *)
LEMMA OnSkippedType ==
  ASSUME NEW e \in Execution, NEW override
  PROVE  OnSkipped(e, override) \in Execution
<1> DEFINE s == e.current_step
           f == [e EXCEPT !.wait_until[s] = NoWait]
<1>1. s \in Steps /\ f \in Execution
  BY DEF Execution, NoWait
<1>2. FollowingStep(s, override) \in Steps \cup {NoStep}
  BY <1>1, FollowingStepType
<1>3. MoveTo(f, FollowingStep(s, override)) \in Execution
  BY <1>1, <1>2, MoveToType
<1>4. QED
  BY <1>3 DEF OnSkipped

(* A WAITING result and a granted retry keep the execution well-formed. *)
LEMMA OnWaitingType ==
  ASSUME NEW e \in Execution, NEW until \in Nat
  PROVE  /\ OnWaiting(e, until) \in Execution
         /\ OnRetry(e, until) \in Execution
BY DEF OnWaiting, OnRetry, Execution, Status, Live

(* So does a logged compensation. *)
LEMMA CompensatedType ==
  ASSUME NEW e \in Execution, NEW s \in Steps, NEW ok \in BOOLEAN
  PROVE  Compensated(e, s, ok) \in Execution
<1>1. [step |-> s, ok |-> ok] \in LogEntry
  BY DEF LogEntry
<1>2. e.compensation_log \in Seq(LogEntry)
  BY DEF Execution
<1>3. Append(e.compensation_log, [step |-> s, ok |-> ok]) \in Seq(LogEntry)
  BY <1>1, <1>2, AppendProperties
<1>4. QED
  BY <1>3 DEF Compensated, Execution

(* And the final failure. *)
LEMMA OnExhaustedType ==
  ASSUME NEW e \in Execution
  PROVE  OnExhausted(e) \in Execution
BY DEF OnExhausted, Execution, Status, Terminal

(* The compensating steps up to a step are compensating steps. *)
LEMMA StepsForCompensationType ==
  ASSUME NEW s \in Steps
  PROVE  StepsForCompensation(s) \in SUBSET Compensable
BY DEF StepsForCompensation

(*************************** the row and its sessions **********************)

(* The row merged by a flush (Commit) is a well-formed row. *)
LEMMA FlushedType ==
  ASSUME NEW r \in Execution, NEW from \in Execution, NEW to \in Execution
  PROVE  Flushed(r, from, to) \in Execution
BY DEF Flushed, Execution

(* Closing a session keeps the types. *)
LEMMA CloseType ==
  ASSUME TypeOK, NEW w \in Workers, pc[w] # "idle",
         NEW s \in {"queued", "done", "dead"}, Close(w, s)
  PROVE  TypeOK'
<1>1. job[w] \in Jobs
  BY DEF TypeOK
<1>2. QED
  BY <1>1, NewExecutionType DEF TypeOK, Close, history

(* Every variable keeps its type. *)
THEOREM TypeCorrect == Spec => []TypeOK
<1>1. Init => TypeOK
  BY NewExecutionType, JobsAssumption DEF Init, TypeOK
<1>2. TypeOK /\ [Next]_vars => TypeOK'
  <2> SUFFICES ASSUME TypeOK, [Next]_vars PROVE TypeOK'
    OBVIOUS
  <2>1. CASE Start
    BY <2>1, NewExecutionType DEF Start, TypeOK, queue, session, history
  <2>2. CASE EndStart
    BY <2>2 DEF EndStart, TypeOK, queue, session, history
  <2>3. ASSUME NEW j \in Jobs, Enqueue(j) PROVE TypeOK'
    BY <2>3 DEF Enqueue, TypeOK, session, history
  <2>4. ASSUME NEW j \in Jobs, NotFound(j) PROVE TypeOK'
    BY <2>4, JobsAssumption DEF NotFound, TypeOK, session, history
  <2>5. ASSUME NEW j \in Jobs, Drop(j) PROVE TypeOK'
    BY <2>5 DEF Drop, TypeOK, session, history
  <2>6. ASSUME NEW w \in Workers, NEW j \in Jobs, LoadAndAdvance(w, j) PROVE TypeOK'
    <3>1. Attempted(row) \in Execution
      BY AttemptedType DEF TypeOK
    <3>2. QED
      BY <2>6, <3>1, JobsAssumption DEF LoadAndAdvance, TypeOK, history
  <2>7. ASSUME NEW w \in Workers, NEW override, StepSucceeds(w, override) PROVE TypeOK'
    <3>1. OnSucceeded(exec[w], override) \in Execution
      BY OnSucceededType DEF TypeOK
    <3>2. exec[w].current_step \in Steps
      BY DEF TypeOK, Execution
    <3>3. LeftBehind(exec[w].current_step, override) \in SUBSET Steps
      BY <3>2 DEF LeftBehind
    <3>4. QED
      BY <2>7, <3>1, <3>3 DEF StepSucceeds, TypeOK, queue
  <2>8. ASSUME NEW w \in Workers, NEW override, StepSkips(w, override) PROVE TypeOK'
    <3>1. OnSkipped(exec[w], override) \in Execution
      BY OnSkippedType DEF TypeOK
    <3>2. exec[w].current_step \in Steps
      BY DEF TypeOK, Execution
    <3>3. LeftBehind(exec[w].current_step, override) \in SUBSET Steps
      BY <3>2 DEF LeftBehind
    <3>4. QED
      BY <2>8, <3>1, <3>3 DEF StepSkips, TypeOK, queue
  <2>9. ASSUME NEW w \in Workers, StepWaits(w) PROVE TypeOK'
    <3>1. OnWaiting(exec[w], NoWait) \in Execution
      BY OnWaitingType DEF TypeOK, NoWait
    <3>2. QED
      BY <2>9, <3>1 DEF StepWaits, TypeOK, queue, history
  <2>10. ASSUME NEW w \in Workers, StepFails(w) PROVE TypeOK'
    <3>1. OnRetry(exec[w], NoWait) \in Execution
      BY OnWaitingType DEF TypeOK, NoWait
    <3>2. exec[w].current_step \in Steps
      BY DEF TypeOK, Execution
    <3>3. StepsForCompensation(exec[w].current_step) \in SUBSET Compensable
      BY <3>2, StepsForCompensationType
    <3>4. CASE Exhausted(exec[w])
      BY <2>10, <3>2, <3>3, <3>4 DEF StepFails, TypeOK, queue
    <3>5. CASE ~Exhausted(exec[w])
      BY <2>10, <3>1, <3>5 DEF StepFails, TypeOK, queue
    <3>6. QED
      BY <3>4, <3>5
  <2>11. ASSUME NEW w \in Workers, NEW s \in Steps, NEW ok \in BOOLEAN,
                CompensateStep(w, s, ok)
         PROVE  TypeOK'
    <3>1. Compensated(exec[w], s, ok) \in Execution
      BY CompensatedType DEF TypeOK
    <3>2. QED
      BY <2>11, <3>1 DEF CompensateStep, TypeOK, queue
  <2>12. ASSUME NEW w \in Workers, FailWorkflow(w) PROVE TypeOK'
    <3>1. OnExhausted(exec[w]) \in Execution
      BY OnExhaustedType DEF TypeOK
    <3>2. QED
      BY <2>12, <3>1 DEF FailWorkflow, TypeOK, queue, history
  <2>13. ASSUME NEW w \in Workers, Commit(w) PROVE TypeOK'
    <3>1. Flushed(row, loaded[w], exec[w]) \in Execution
      BY FlushedType DEF TypeOK
    <3>2. loaded[w].current_step \in Steps
      BY DEF TypeOK, Execution
    <3>3. failures' \in [Steps -> Nat]
      BY <2>13, <3>2 DEF Commit, TypeOK
    <3>4. QED
      BY <2>13, <3>1, <3>3 DEF Commit, TypeOK, queue
  <2>14. ASSUME NEW w \in Workers, Finish(w) \/ Interrupt(w) \/ TimeOut(w) PROVE TypeOK'
    BY <2>14, CloseType DEF Finish, Interrupt, TimeOut
  <2>15. CASE UNCHANGED vars
    BY <2>15 DEF vars, TypeOK
  <2>16. QED
    BY <2>1, <2>2, <2>3, <2>4, <2>5, <2>6, <2>7, <2>8, <2>9, <2>10, <2>11,
       <2>12, <2>13, <2>14, <2>15
       DEF Next, Work, StepReturns
<1>3. QED
  BY <1>1, <1>2, PTL DEF Spec

-----------------------------------------------------------------------------
(* The row that start inserts is sound, whatever was done so far. *)
LEMMA NewExecutionSound ==
  ASSUME NEW P, NEW G, NEW U
  PROVE  Sound(NewExecution, P, G, U)
BY DefinitionAssumption
   DEF Sound, WorkedThrough, GivenUp, Stamped, NewExecution, Terminal, Steps

(* The histories only grow, which keeps every execution sound. *)
LEMMA SoundGrows ==
  ASSUME NEW e, NEW P, NEW G, NEW U, Sound(e, P, G, U),
         NEW P2, NEW G2, NEW U2,
         P \subseteq P2, G \subseteq G2, U \subseteq U2
  PROVE  Sound(e, P2, G2, U2)
BY DEF Sound, WorkedThrough, GivenUp, Stamped

(* Counting an attempt (execute_step) keeps an execution sound. *)
LEMMA AttemptedSound ==
  ASSUME NEW e \in Execution, NEW P, NEW G, NEW U, Sound(e, P, G, U)
  PROVE  Sound(Attempted(e), P, G, U) /\ KeepsStamp(e, Attempted(e))
BY DEF Sound, WorkedThrough, GivenUp, Stamped, KeepsStamp, Attempted, Execution

(* Moving on is sound once the steps left behind are counted. *)
LEMMA MoveToSound ==
  ASSUME NEW e \in Execution, NEW P, NEW G, NEW U, Sound(e, P, G, U),
         NEW override, NEW f \in Execution,
         f.current_step = e.current_step,
         f.completed_at = e.completed_at,
         f.status = e.status
  PROVE  /\ Sound(MoveTo(f, FollowingStep(e.current_step, override)),
                  P \cup LeftBehind(e.current_step, override), G, U)
         /\ KeepsStamp(e, MoveTo(f, FollowingStep(e.current_step, override)))
<1> DEFINE s == e.current_step
           next == FollowingStep(s, override)
           g == MoveTo(f, next)
<1>1. s \in Steps
  BY DEF Execution
<1>2. next \in Steps \cup {NoStep}
  BY <1>1, FollowingStepType
<1>3. CASE next = NoStep
  <2>1. /\ g.status = "succeeded" /\ g.completed_at
        /\ g.current_step = s
    BY <1>3 DEF MoveTo, Execution
  <2>2. N \in LeftBehind(s, override)
    BY <1>1, <1>3, DefinitionAssumption DEF LeftBehind, Steps
  <2>3. QED
    BY <2>1, <2>2 DEF Sound, WorkedThrough, GivenUp, Stamped, KeepsStamp
<1>4. CASE next # NoStep
  <2>1. /\ g.status = "running" /\ g.current_step = next
        /\ g.completed_at = e.completed_at
    BY <1>4 DEF MoveTo, Execution
  <2>2. \A t \in Steps : t < next => t < s \/ t \in LeftBehind(s, override)
    BY <1>1, <1>2, <1>4 DEF LeftBehind, Steps, NoStep
  <2>3. QED
    BY <2>1, <2>2
       DEF Sound, WorkedThrough, GivenUp, Stamped, KeepsStamp, Terminal
<1>5. QED
  BY <1>3, <1>4

(* advance on a SUCCEEDED result keeps an execution sound. *)
LEMMA OnSucceededSound ==
  ASSUME NEW e \in Execution, NEW P, NEW G, NEW U, Sound(e, P, G, U), NEW override
  PROVE  /\ Sound(OnSucceeded(e, override),
                  P \cup LeftBehind(e.current_step, override), G, U)
         /\ KeepsStamp(e, OnSucceeded(e, override))
<1> DEFINE f == [e EXCEPT !.wait_until[e.current_step] = NoWait,
                          !.completed_steps = @ \cup {e.current_step}]
<1>1. /\ f \in Execution /\ f.current_step = e.current_step
      /\ f.completed_at = e.completed_at
      /\ f.status = e.status
  BY DEF Execution, NoWait
<1>2. OnSucceeded(e, override) = MoveTo(f, FollowingStep(e.current_step, override))
  BY DEF OnSucceeded
<1> HIDE DEF f
<1>3. QED
  BY <1>1, <1>2, MoveToSound

(* advance on a SKIPPED result keeps an execution sound. *)
LEMMA OnSkippedSound ==
  ASSUME NEW e \in Execution, NEW P, NEW G, NEW U, Sound(e, P, G, U), NEW override
  PROVE  /\ Sound(OnSkipped(e, override),
                  P \cup LeftBehind(e.current_step, override), G, U)
         /\ KeepsStamp(e, OnSkipped(e, override))
<1> DEFINE f == [e EXCEPT !.wait_until[e.current_step] = NoWait]
<1>1. /\ f \in Execution /\ f.current_step = e.current_step
      /\ f.completed_at = e.completed_at
      /\ f.status = e.status
  BY DEF Execution, NoWait
<1>2. OnSkipped(e, override) = MoveTo(f, FollowingStep(e.current_step, override))
  BY DEF OnSkipped
<1> HIDE DEF f
<1>3. QED
  BY <1>1, <1>2, MoveToSound

(* A WAITING result and a granted retry keep an execution sound. *)
LEMMA OnWaitingSound ==
  ASSUME NEW e \in Execution, NEW P, NEW G, NEW U, Sound(e, P, G, U), NEW until
  PROVE  /\ Sound(OnWaiting(e, until), P, G, U)
         /\ Sound(OnRetry(e, until), P, G, U)
         /\ KeepsStamp(e, OnWaiting(e, until))
         /\ KeepsStamp(e, OnRetry(e, until))
BY DEF Sound, WorkedThrough, GivenUp, Stamped, KeepsStamp, OnWaiting, OnRetry,
       Execution, Terminal

(* Logging a compensation keeps an execution sound. *)
LEMMA CompensatedSound ==
  ASSUME NEW e \in Execution, NEW P, NEW G, NEW U, Sound(e, P, G, U), NEW s, NEW ok
  PROVE  /\ Sound(Compensated(e, s, ok), P, G, U)
         /\ KeepsStamp(e, Compensated(e, s, ok))
         /\ Compensated(e, s, ok).current_step = e.current_step
BY DEF Sound, WorkedThrough, GivenUp, Stamped, KeepsStamp, Compensated, Execution

(* Failing is sound when the compensations up to the current step are done. *)
LEMMA OnExhaustedSound ==
  ASSUME NEW e \in Execution, NEW P, NEW G, NEW U, Sound(e, P, G, U),
         e.current_step \in G, StepsForCompensation(e.current_step) \subseteq U
  PROVE  Sound(OnExhausted(e), P, G, U) /\ KeepsStamp(e, OnExhausted(e))
BY DEF Sound, WorkedThrough, GivenUp, Stamped, KeepsStamp, OnExhausted, Execution

(* Merging a session's changed columns into the row keeps the row sound.   *)
LEMMA FlushedSound ==
  ASSUME NEW r \in Execution, NEW from \in Execution, NEW to \in Execution,
         NEW P, NEW G, NEW U, Sound(r, P, G, U), Sound(to, P, G, U),
         KeepsStamp(from, r), KeepsStamp(from, to)
  PROVE  /\ Sound(Flushed(r, from, to), P, G, U)
         /\ KeepsStamp(r, Flushed(r, from, to))
<1> DEFINE f == Flushed(r, from, to)
<1>1. /\ f.status = IF to.status = from.status THEN r.status ELSE to.status
      /\ f.current_step = IF to.current_step = from.current_step
                          THEN r.current_step ELSE to.current_step
      /\ f.completed_at = IF to.completed_at = from.completed_at
                          THEN r.completed_at ELSE to.completed_at
  BY DEF Flushed, Execution
<1>2. /\ r.completed_at \in BOOLEAN /\ to.completed_at \in BOOLEAN
      /\ from.completed_at \in BOOLEAN
  BY DEF Execution
<1>3. KeepsStamp(r, f)
  BY <1>1, <1>2 DEF KeepsStamp
<1>4. KeepsStamp(to, f)
  BY <1>1, <1>2 DEF KeepsStamp
<1>5. Stamped(f)
  BY <1>1, <1>3, <1>4 DEF Sound, Stamped, KeepsStamp
<1>6. WorkedThrough(f, P) /\ GivenUp(f, G, U)
  BY <1>1 DEF Sound, WorkedThrough, GivenUp
<1>7. QED
  BY <1>3, <1>5, <1>6 DEF Sound

-----------------------------------------------------------------------------
(* A step of worker w that leaves the row alone, and only adds to the      *)
(* histories, preserves IInv as soon as it preserves w's part of it.       *)
LEMMA OtherSessions ==
  ASSUME IInv, NEW w \in Workers,
         insertion' = insertion, row' = row,
         passed \subseteq passed', gave_up \subseteq gave_up', undid \subseteq undid',
         \A v \in Workers \ {w} :
           /\ pc'[v] = pc[v] /\ plan'[v] = plan[v]
           /\ loaded'[v] = loaded[v] /\ exec'[v] = exec[v],
         SessionInv(w)'
  PROVE  IInv'
<1>1. Sound(row, passed, gave_up, undid)'
  BY SoundGrows DEF IInv
<1>2. ASSUME NEW v \in Workers \ {w} PROVE SessionInv(v)'
  <2>1. SessionInv(v)
    BY DEF IInv
  <2>2. /\ Sound(loaded[v], passed', gave_up', undid')
        /\ Sound(exec[v], passed', gave_up', undid')
    BY <2>1, SoundGrows DEF SessionInv
  <2>3. QED
    BY <2>1, <2>2 DEF SessionInv
<1>3. QED
  BY <1>1, <1>2 DEF IInv

(* A session that closes is back to a fresh execution. *)
LEMMA CloseKeepsIInv ==
  ASSUME TypeOK, IInv, NEW w \in Workers, NEW s, Close(w, s)
  PROVE  IInv'
<1>1. /\ pc'[w] = "idle" /\ plan'[w] = {}
      /\ loaded'[w] = NewExecution /\ exec'[w] = NewExecution
      /\ row' = row /\ insertion' = insertion
      /\ passed' = passed /\ gave_up' = gave_up /\ undid' = undid
  BY DEF Close, TypeOK, history
<1>2. \A r : KeepsStamp(NewExecution, r)
  BY DEF KeepsStamp, NewExecution
<1>3. SessionInv(w)'
  BY <1>1, <1>2, NewExecutionSound DEF SessionInv
<1>4. QED
  BY <1>1, <1>3, OtherSessions DEF Close, TypeOK

(* IInv is inductive. *)
LEMMA IInvInductive ==
  ASSUME TypeOK, IInv, [Next]_vars
  PROVE  IInv'
<1>1. CASE Start
  <2>1. row' = row /\ row = NewExecution
    BY <1>1 DEF Start, IInv
  <2>2. \A w \in Workers : pc[w] = "idle"
    BY <1>1 DEF Start, IInv, SessionInv
  <2>3. QED
    BY <1>1, <2>1, <2>2 DEF Start, IInv, SessionInv, session, history, queue
<1>2. CASE EndStart
  <2>1. \A w \in Workers : pc[w] = "idle"
    BY <1>2 DEF EndStart, IInv, SessionInv
  <2>2. QED
    BY <1>2, <2>1 DEF EndStart, IInv, SessionInv, session, history, queue
<1>3. ASSUME NEW j \in Jobs, Enqueue(j) \/ NotFound(j) \/ Drop(j) PROVE IInv'
  BY <1>3 DEF Enqueue, NotFound, Drop, IInv, SessionInv, session, history
<1>4. ASSUME NEW w \in Workers, NEW j \in Jobs, LoadAndAdvance(w, j) PROVE IInv'
  <2>1. /\ pc'[w] = "executing" /\ loaded'[w] = row /\ exec'[w] = Attempted(row)
        /\ row' = row /\ insertion' = insertion /\ insertion = "committed"
        /\ passed' = passed /\ gave_up' = gave_up /\ undid' = undid
    BY <1>4 DEF LoadAndAdvance, TypeOK, history
  <2>2. /\ Sound(Attempted(row), passed, gave_up, undid)
        /\ KeepsStamp(row, Attempted(row)) /\ KeepsStamp(row, row)
    BY AttemptedSound DEF IInv, TypeOK, KeepsStamp
  <2>3. SessionInv(w)'
    BY <2>1, <2>2 DEF SessionInv, IInv
  <2>4. QED
    BY <1>4, <2>1, <2>3, OtherSessions DEF LoadAndAdvance, TypeOK
<1>5. ASSUME NEW w \in Workers, NEW override,
             StepSucceeds(w, override) \/ StepSkips(w, override)
      PROVE  IInv'
  <2> DEFINE e == exec[w]
             left == LeftBehind(e.current_step, override)
  <2>1. /\ pc[w] = "executing" /\ pc'[w] = "flushing" /\ loaded'[w] = loaded[w]
        /\ exec'[w] \in {OnSucceeded(e, override), OnSkipped(e, override)}
        /\ passed' = passed \cup left /\ gave_up' = gave_up /\ undid' = undid
        /\ row' = row /\ insertion' = insertion
    BY <1>5 DEF StepSucceeds, StepSkips, TypeOK
  <2>2. SessionInv(w) /\ e \in Execution
    BY DEF IInv, TypeOK
  <2>3. /\ Sound(exec'[w], passed \cup left, gave_up, undid)
        /\ KeepsStamp(e, exec'[w])
    BY <2>1, <2>2, OnSucceededSound, OnSkippedSound DEF SessionInv
  <2>4. Sound(loaded[w], passed \cup left, gave_up, undid)
    BY <2>2, SoundGrows DEF SessionInv
  <2>5. SessionInv(w)'
    BY <2>1, <2>2, <2>3, <2>4 DEF SessionInv, KeepsStamp
  <2>6. QED
    BY <1>5, <2>1, <2>5, OtherSessions DEF StepSucceeds, StepSkips, TypeOK
<1>6. ASSUME NEW w \in Workers, StepWaits(w) PROVE IInv'
  <2>1. /\ pc[w] = "executing" /\ pc'[w] = "flushing" /\ loaded'[w] = loaded[w]
        /\ exec'[w] = OnWaiting(exec[w], NoWait)
        /\ passed' = passed /\ gave_up' = gave_up /\ undid' = undid
        /\ row' = row /\ insertion' = insertion
    BY <1>6 DEF StepWaits, TypeOK, history
  <2>2. SessionInv(w) /\ exec[w] \in Execution
    BY DEF IInv, TypeOK
  <2>3. SessionInv(w)'
    BY <2>1, <2>2, OnWaitingSound DEF SessionInv, KeepsStamp
  <2>4. QED
    BY <1>6, <2>1, <2>3, OtherSessions DEF StepWaits, TypeOK
<1>7. ASSUME NEW w \in Workers, StepFails(w) PROVE IInv'
  <2> DEFINE s == exec[w].current_step
  <2>1. SessionInv(w) /\ exec[w] \in Execution
    BY DEF IInv, TypeOK
  <2>2. /\ pc[w] = "executing" /\ loaded' = loaded /\ row' = row
        /\ insertion' = insertion /\ passed' = passed /\ undid' = undid
    BY <1>7 DEF StepFails
  <2>3. CASE Exhausted(exec[w])
    <3>1. /\ pc'[w] = "compensating" /\ plan'[w] = StepsForCompensation(s)
          /\ gave_up' = gave_up \cup {s} /\ exec' = exec
      BY <1>7, <2>3 DEF StepFails, TypeOK
    <3>2. /\ Sound(exec[w], passed, gave_up \cup {s}, undid)
          /\ Sound(loaded[w], passed, gave_up \cup {s}, undid)
      BY <2>1, SoundGrows DEF SessionInv
    <3>3. SessionInv(w)'
      BY <2>1, <2>2, <3>1, <3>2 DEF SessionInv
    <3>4. QED
      BY <1>7, <2>2, <3>1, <3>3, <2>3, OtherSessions DEF StepFails, TypeOK
  <2>4. CASE ~Exhausted(exec[w])
    <3>1. /\ pc'[w] = "flushing" /\ exec'[w] = OnRetry(exec[w], NoWait)
          /\ gave_up' = gave_up /\ plan' = plan
      BY <1>7, <2>4 DEF StepFails, TypeOK
    <3>2. SessionInv(w)'
      BY <2>1, <2>2, <3>1, OnWaitingSound DEF SessionInv, KeepsStamp
    <3>3. QED
      BY <1>7, <2>2, <3>1, <3>2, <2>4, OtherSessions DEF StepFails, TypeOK
  <2>5. QED
    BY <2>3, <2>4
<1>8. ASSUME NEW w \in Workers, NEW s \in Steps, NEW ok \in BOOLEAN,
             CompensateStep(w, s, ok)
      PROVE  IInv'
  <2> DEFINE e == exec[w]
  <2>1. /\ pc[w] = "compensating" /\ pc'[w] = pc[w] /\ loaded'[w] = loaded[w]
        /\ exec'[w] = Compensated(e, s, ok) /\ plan'[w] = plan[w] \ {s}
        /\ passed' = passed /\ gave_up' = gave_up /\ undid' = undid \cup {s}
        /\ row' = row /\ insertion' = insertion
    BY <1>8 DEF CompensateStep, TypeOK
  <2>2. SessionInv(w) /\ e \in Execution
    BY DEF IInv, TypeOK
  <2>3. /\ Sound(e, passed, gave_up, undid \cup {s})
        /\ Sound(loaded[w], passed, gave_up, undid \cup {s})
    BY <2>2, SoundGrows DEF SessionInv
  <2>4. /\ Sound(exec'[w], passed, gave_up, undid \cup {s})
        /\ KeepsStamp(e, exec'[w]) /\ exec'[w].current_step = e.current_step
    BY <2>1, <2>2, <2>3, CompensatedSound
  <2>5. SessionInv(w)'
    BY <2>1, <2>2, <2>3, <2>4 DEF SessionInv, KeepsStamp
  <2>6. QED
    BY <1>8, <2>1, <2>5, OtherSessions DEF CompensateStep, TypeOK
<1>9. ASSUME NEW w \in Workers, FailWorkflow(w) PROVE IInv'
  <2> DEFINE e == exec[w]
  <2>1. /\ pc[w] = "compensating" /\ plan[w] = {} /\ pc'[w] = "flushing"
        /\ loaded'[w] = loaded[w] /\ exec'[w] = OnExhausted(e)
        /\ passed' = passed /\ gave_up' = gave_up /\ undid' = undid
        /\ row' = row /\ insertion' = insertion
    BY <1>9 DEF FailWorkflow, TypeOK, history
  <2>2. SessionInv(w) /\ e \in Execution
    BY DEF IInv, TypeOK
  <2>3. e.current_step \in gave_up /\ StepsForCompensation(e.current_step) \subseteq undid
    BY <2>1, <2>2 DEF SessionInv
  <2>4. Sound(exec'[w], passed, gave_up, undid) /\ KeepsStamp(e, exec'[w])
    BY <2>1, <2>2, <2>3, OnExhaustedSound DEF SessionInv
  <2>5. SessionInv(w)'
    BY <2>1, <2>2, <2>4 DEF SessionInv, KeepsStamp
  <2>6. QED
    BY <1>9, <2>1, <2>5, OtherSessions DEF FailWorkflow, TypeOK
<1>10. ASSUME NEW w \in Workers, Commit(w) PROVE IInv'
  <2>1. /\ row' = Flushed(row, loaded[w], exec[w]) /\ pc[w] = "flushing"
        /\ pc' = [pc EXCEPT ![w] = "committed"]
        /\ loaded' = loaded /\ exec' = exec /\ plan' = plan
        /\ passed' = passed /\ gave_up' = gave_up /\ undid' = undid
        /\ insertion' = insertion
    BY <1>10 DEF Commit
  <2>2. SessionInv(w) /\ exec[w] \in Execution /\ loaded[w] \in Execution
        /\ row \in Execution
    BY DEF IInv, TypeOK
  <2>3. Sound(row', passed, gave_up, undid) /\ KeepsStamp(row, row')
    BY <2>1, <2>2, FlushedSound DEF SessionInv, IInv
  <2>4. insertion = "committed"
    BY <2>1, <2>2 DEF SessionInv
  <2>5. ASSUME NEW v \in Workers PROVE SessionInv(v)'
    <3>1. SessionInv(v) /\ (pc'[v] = pc[v] \/ pc'[v] = "committed")
      BY <2>1 DEF IInv, TypeOK
    <3>2. QED
      BY <3>1, <2>1, <2>3, <2>4 DEF SessionInv, KeepsStamp
  <2>6. QED
    BY <2>1, <2>3, <2>4, <2>5 DEF IInv
<1>11. ASSUME NEW w \in Workers, Finish(w) \/ Interrupt(w) \/ TimeOut(w) PROVE IInv'
  BY <1>11, CloseKeepsIInv DEF Finish, Interrupt, TimeOut
<1>12. CASE UNCHANGED vars
  BY <1>12 DEF vars, IInv, SessionInv
<1>13. QED
  BY <1>1, <1>2, <1>3, <1>4, <1>5, <1>6, <1>7, <1>8, <1>9, <1>10, <1>11, <1>12
     DEF Next, Work, StepReturns

(* IInv holds throughout. *)
THEOREM Invariance == Spec => []IInv
<1>1. Init => IInv
  <2> SUFFICES ASSUME Init PROVE IInv
    OBVIOUS
  <2>1. KeepsStamp(NewExecution, NewExecution)
    BY DEF KeepsStamp
  <2>2. QED
    BY <2>1, NewExecutionSound DEF Init, IInv, SessionInv
<1>2. TypeOK /\ IInv /\ [Next]_vars => IInv'
  BY IInvInductive
<1>3. QED
  BY <1>1, <1>2, TypeCorrect, PTL DEF Spec

(* No step is lost behind the committed position, whatever happens to jobs, *)
(* workers and sessions.                                                    *)
THEOREM StepsAreNotLost == Spec => []NoStepLost
<1>1. IInv => NoStepLost
  BY DEF IInv, Sound, WorkedThrough, NoStepLost
<1>2. QED
  BY <1>1, Invariance, PTL

(* A committed FAILED status means that the compensations were called. *)
THEOREM FailureIsCompensated == Spec => []FailedMeansCompensated
<1>1. IInv => FailedMeansCompensated
  BY DEF IInv, Sound, GivenUp, FailedMeansCompensated
<1>2. QED
  BY <1>1, Invariance, PTL

(* Columns that advance sets together stay together in the merged row. *)
THEOREM TerminalRowsAreStamped == Spec => []TerminalIsStamped
<1>1. IInv => TerminalIsStamped
  BY DEF IInv, Sound, Stamped, TerminalIsStamped
<1>2. QED
  BY <1>1, Invariance, PTL

(*************************** the runner in one session *********************)

(* Every variable of a session keeps its type.                             *)
THEOREM RunnerTypeCorrect == RunnerSpec => []RunnerTypeOK
<1> USE RunnerAssumption
<1>1. RunnerInit => RunnerTypeOK
  <2> SUFFICES ASSUME RunnerInit PROVE RunnerTypeOK
    OBVIOUS
  <2>1. execution \in Execution
    BY NewExecutionType DEF RunnerInit
  <2>2. now \in 1 .. MaxTime + 1 /\ calls \in 0 .. MaxCalls
    BY DEF RunnerInit
  <2>3. waited \in [Steps -> 0 .. MaxPolls] /\ failed \in [Steps -> Nat]
    BY DEF RunnerInit
  <2>4. QED
    BY <2>1, <2>2, <2>3 DEF RunnerInit, RunnerTypeOK
<1>2. RunnerTypeOK /\ [RunnerNext]_runner_vars => RunnerTypeOK'
  <2> SUFFICES ASSUME RunnerTypeOK, [RunnerNext]_runner_vars PROVE RunnerTypeOK'
    OBVIOUS
  <2>0. current \in Steps
    BY DEF RunnerTypeOK, Execution, current
  <2>1. CASE RunnerStart
    BY <2>1, NewExecutionType DEF RunnerStart, results, RunnerTypeOK
  <2>2. CASE Resume
    <3>1. execution' \in Execution
      BY <2>2, AttemptedType DEF Resume, Advance, RunnerTypeOK
    <3>2. calls' \in 0 .. MaxCalls
      BY <2>2 DEF Resume, Advance, RunnerTypeOK
    <3> QED
      BY <2>2, <3>1, <3>2 DEF Resume, Advance, results, RunnerTypeOK
  <2>3. ASSUME NEW override, ExecuteSucceeds(override) \/ ExecuteSkips(override)
        PROVE  RunnerTypeOK'
    <3>1. execution' \in Execution
      BY <2>3, OnSucceededType, OnSkippedType DEF ExecuteSucceeds, ExecuteSkips, RunnerTypeOK
    <3> QED
      BY <2>3, <3>1 DEF ExecuteSucceeds, ExecuteSkips, results, RunnerTypeOK
  <2>4. ASSUME NEW until \in {NoWait} \cup now .. MaxTime, ExecuteWaits(until)
        PROVE  RunnerTypeOK'
    <3>1. until \in Nat
      BY DEF NoWait, RunnerTypeOK
    <3>2. execution' \in Execution
      BY <2>4, <3>1, OnWaitingType DEF ExecuteWaits, RunnerTypeOK
    <3>3. waited' \in [Steps -> 0 .. MaxPolls]
      BY <2>0, <2>4 DEF ExecuteWaits, RunnerTypeOK
    <3> QED
      BY <2>4, <3>2, <3>3 DEF ExecuteWaits, RunnerTypeOK
  <2>5. CASE ExecuteFails
    <3>1. failed' \in [Steps -> Nat]
      BY <2>0, <2>5 DEF ExecuteFails, RunnerTypeOK
    <3>2. execution' \in Execution
      BY <2>5, OnWaitingType DEF ExecuteFails, RunnerTypeOK
    <3>3. to_undo' \in SUBSET Compensable
      BY <2>0, <2>5, StepsForCompensationType DEF ExecuteFails, RunnerTypeOK
    <3> QED
      BY <2>5, <3>1, <3>2, <3>3 DEF ExecuteFails, RunnerTypeOK
  <2>6. ASSUME NEW s \in Steps, NEW ok \in BOOLEAN, CompensateReturns(s, ok)
        PROVE  RunnerTypeOK'
    <3>1. execution' \in Execution
      BY <2>6, CompensatedType DEF CompensateReturns, RunnerTypeOK
    <3> QED
      BY <2>6, <3>1 DEF CompensateReturns, results, RunnerTypeOK
  <2>7. CASE GiveUp
    BY <2>7, OnExhaustedType DEF GiveUp, results, RunnerTypeOK
  <2>8. CASE Tick
    BY <2>8 DEF Tick, results, RunnerTypeOK
  <2>9. CASE UNCHANGED runner_vars
    BY <2>9 DEF runner_vars, RunnerTypeOK
  <2>10. QED
    BY <2>1, <2>2, <2>3, <2>4, <2>5, <2>6, <2>7, <2>8, <2>9
       DEF RunnerNext, ExecuteReturns, Compensate
<1>3. QED
  BY <1>1, <1>2, PTL DEF RunnerSpec

(* What beginning a step changes in the execution.                         *)
LEMMA ResumeFacts ==
  ASSUME RunnerTypeOK, Resume
  PROVE  /\ started /\ UNCHANGED <<started, to_undo, failed, waited>>
         /\ suspended = "idle" /\ suspended' = "executing"
         /\ execution.status \in Live /\ execution'.status = execution.status
         /\ current' = current
         /\ execution'.attempt_count = [execution.attempt_count EXCEPT ![current] = @ + 1]
         /\ execution'.completed_steps = execution.completed_steps
         /\ execution'.compensation_log = execution.compensation_log
BY DEF RunnerTypeOK, Execution, Resume, Advance, Attempted, results, current

(* What a result that moves on changes: the step is completed or skipped,  *)
(* and the workflow has succeeded or stands at another step.               *)
LEMMA MoveOnFacts ==
  ASSUME RunnerTypeOK, NEW override \in Branches[current] \cup {NoOverride},
         ExecuteSucceeds(override) \/ ExecuteSkips(override)
  PROVE  /\ UNCHANGED <<started, to_undo, failed, waited>>
         /\ suspended = "executing" /\ suspended' = "idle"
         /\ execution'.attempt_count = execution.attempt_count
         /\ execution'.compensation_log = execution.compensation_log
         /\ \/ execution'.completed_steps = execution.completed_steps
            \/ execution'.completed_steps = execution.completed_steps \cup {current}
         /\ \/ execution'.status = "succeeded" /\ current' = current
            \/ execution'.status = "running" /\ current' \in Steps
               /\ (BranchesLeadForward => current < current')
<1> DEFINE s == current
           e == [execution EXCEPT !.wait_until[s] = NoWait]
           f == [execution EXCEPT !.wait_until[s] = NoWait, !.completed_steps = @ \cup {s}]
           next == FollowingStep(s, override)
<1>0. s \in Steps /\ e \in Execution /\ f \in Execution
  BY DEF RunnerTypeOK, Execution, NoWait, current
<1>1. next \in Steps \cup {NoStep}
  BY <1>0, FollowingStepType
<1>2. next # NoStep /\ BranchesLeadForward => s < next
  BY <1>0, DefinitionAssumption, RunnerAssumption
     DEF FollowingStep, GetNextStep, GetStep, NoStep, NoOverride, BranchesLeadForward, Steps
<1>3. /\ UNCHANGED <<started, to_undo, failed, waited>>
      /\ suspended = "executing" /\ suspended' = "idle"
      /\ execution' = MoveTo(e, next) \/ execution' = MoveTo(f, next)
  BY DEF ExecuteSucceeds, ExecuteSkips, OnSucceeded, OnSkipped, results, current
<1>4. /\ e.attempt_count = execution.attempt_count /\ f.attempt_count = execution.attempt_count
      /\ e.compensation_log = execution.compensation_log
      /\ f.compensation_log = execution.compensation_log
      /\ e.completed_steps = execution.completed_steps
      /\ f.completed_steps = execution.completed_steps \cup {s}
      /\ e.current_step = s /\ f.current_step = s
  BY DEF RunnerTypeOK, Execution, current
<1> HIDE DEF e, f, next
<1>5. ASSUME NEW x \in Execution
      PROVE  /\ MoveTo(x, next).attempt_count = x.attempt_count
             /\ MoveTo(x, next).compensation_log = x.compensation_log
             /\ MoveTo(x, next).completed_steps = x.completed_steps
             /\ next = NoStep => /\ MoveTo(x, next).status = "succeeded"
                                 /\ MoveTo(x, next).current_step = x.current_step
             /\ next # NoStep => /\ MoveTo(x, next).status = "running"
                                 /\ MoveTo(x, next).current_step = next
  BY DEF MoveTo, Execution
<1>6. QED
  BY <1>0, <1>1, <1>2, <1>3, <1>4, <1>5 DEF current

(* What a WAITING result changes. *)
LEMMA WaitFacts ==
  ASSUME RunnerTypeOK, NEW until, ExecuteWaits(until)
  PROVE  /\ UNCHANGED <<started, to_undo, failed>>
         /\ suspended = "executing" /\ suspended' = "idle"
         /\ waited' = [waited EXCEPT ![current] = @ + 1]
         /\ execution'.status = "waiting" /\ current' = current
         /\ execution'.attempt_count = execution.attempt_count
         /\ execution'.completed_steps = execution.completed_steps
         /\ execution'.compensation_log = execution.compensation_log
BY DEF RunnerTypeOK, Execution, ExecuteWaits, OnWaiting, current

(* What a FAILED result changes: nothing in the execution when the step    *)
(* gives up, the time of the next attempt otherwise.                       *)
LEMMA FailFacts ==
  ASSUME RunnerTypeOK, ExecuteFails
  PROVE  /\ UNCHANGED <<started, waited>>
         /\ suspended = "executing"
         /\ failed' = [failed EXCEPT ![current] = @ + 1]
         /\ current' = current
         /\ execution'.attempt_count = execution.attempt_count
         /\ execution'.completed_steps = execution.completed_steps
         /\ execution'.compensation_log = execution.compensation_log
         /\ \/ /\ execution.attempt_count[current] >= MaxAttempts[current]
               /\ suspended' = "compensating" /\ execution' = execution
               /\ to_undo' = StepsForCompensation(current)
            \/ /\ ~(execution.attempt_count[current] >= MaxAttempts[current])
               /\ suspended' = "idle" /\ execution'.status = "waiting"
BY DEF RunnerTypeOK, Execution, ExecuteFails, OnRetry, Exhausted, current

(* What a compensation changes: its step leaves the plan and is on the log. *)
LEMMA UndoFacts ==
  ASSUME RunnerTypeOK, NEW s \in Steps, NEW ok \in BOOLEAN, CompensateReturns(s, ok)
  PROVE  /\ UNCHANGED <<started, failed, waited>>
         /\ suspended = "compensating" /\ suspended' = "compensating"
         /\ s \in to_undo /\ (\A t \in to_undo : t <= s) /\ to_undo' = to_undo \ {s}
         /\ execution'.status = execution.status /\ current' = current
         /\ execution'.attempt_count = execution.attempt_count
         /\ execution'.completed_steps = execution.completed_steps
         /\ execution'.compensation_log # <<>>
         /\ Undone' = Undone \cup {s}
<1> DEFINE log == execution.compensation_log
           entry == [step |-> s, ok |-> ok]
<1>1. log \in Seq(LogEntry) /\ entry \in LogEntry
  BY DEF RunnerTypeOK, Execution, LogEntry
<1>2. execution'.compensation_log = Append(log, entry)
  BY DEF RunnerTypeOK, Execution, CompensateReturns, Compensated
<1>3. /\ Append(log, entry) # <<>> /\ Len(log) \in Nat
      /\ DOMAIN log = 1 .. Len(log) /\ DOMAIN Append(log, entry) = 1 .. Len(log) + 1
      /\ \A i \in 1 .. Len(log) : Append(log, entry)[i] = log[i]
      /\ Append(log, entry)[Len(log) + 1] = entry
  BY <1>1, AppendProperties
<1>4. Undone' = Undone \cup {s}
  <2>1. Undone' = { Append(log, entry)[i].step : i \in 1 .. Len(log) + 1 }
    BY <1>2, <1>3 DEF Undone
  <2>2. Undone = { log[i].step : i \in 1 .. Len(log) }
    BY <1>3 DEF Undone
  <2>3. 1 .. Len(log) + 1 = (1 .. Len(log)) \cup {Len(log) + 1}
    BY <1>3
  <2> HIDE DEF log
  <2>4. QED
    BY <1>3, <2>1, <2>2, <2>3
<1>5. QED
  BY <1>2, <1>3, <1>4 DEF RunnerTypeOK, Execution, CompensateReturns, Compensated, IsLast, results, current

(* Giving up marks the execution and keeps all else.                       *)
LEMMA GiveUpFacts ==
  ASSUME RunnerTypeOK, GiveUp
  PROVE  /\ UNCHANGED <<started, to_undo, failed, waited>>
         /\ suspended = "compensating" /\ to_undo = {} /\ suspended' = "idle"
         /\ execution'.status = "failed" /\ current' = current
         /\ execution'.attempt_count = execution.attempt_count
         /\ execution'.completed_steps = execution.completed_steps
         /\ execution'.compensation_log = execution.compensation_log
BY DEF RunnerTypeOK, Execution, GiveUp, OnExhausted, results, current

(* Calling start, time passing and stuttering change nothing that the      *)
(* invariants speak of but started.                                        *)
LEMMA FrameFacts ==
  ASSUME InStep, RunnerStart \/ Tick \/ UNCHANGED runner_vars
  PROVE  /\ UNCHANGED <<execution, suspended, to_undo, failed, waited>>
         /\ started => started'
BY DEF InStep, RunnerStart, Tick, runner_vars, results

(* The history counts what attempt_count counts.                           *)
LEMMA AttemptsCountedInductive ==
  ASSUME RunnerTypeOK, RunnerTypeOK', AttemptsCounted, InStep, [RunnerNext]_runner_vars
  PROVE  AttemptsCounted'
<1> DEFINE att == execution.attempt_count
<1>0. /\ current \in Steps /\ current' \in Steps
      /\ att \in [Steps -> Nat] /\ failed \in [Steps -> Nat] /\ waited \in [Steps -> Nat]
      /\ MaxAttempts \in [Steps -> Nat]
  <2>1. /\ current \in Steps /\ current' \in Steps
        /\ att \in [Steps -> Nat] /\ failed \in [Steps -> Nat]
    BY DEF RunnerTypeOK, Execution, current
  <2>2. waited \in [Steps -> 0 .. MaxPolls] /\ 0 .. MaxPolls \subseteq Nat
    BY DEF RunnerTypeOK
  <2>3. MaxAttempts \in [Steps -> Nat]
    BY DefinitionAssumption
  <2>4. QED
    BY <2>1, <2>2, <2>3
<1>1. CASE RunnerStart \/ Tick \/ UNCHANGED runner_vars
  BY <1>1, FrameFacts DEF AttemptsCounted, Running, current
<1>2. CASE Resume
  <2>1. /\ UNCHANGED <<failed, waited>> /\ current' = current
        /\ att' = [att EXCEPT ![current] = @ + 1] /\ execution'.status = execution.status
        /\ suspended = "idle" /\ suspended' = "executing"
    BY <1>2, ResumeFacts
  <2>2. \A s \in Steps : failed[s] + waited[s] <= att[s]
    BY <1>0, <2>1 DEF AttemptsCounted, Running
  <2>3. \A s \in Steps : (failed[s] + waited[s] + Running(s) <= att[s])'
    BY <1>0, <2>1, <2>2 DEF Running
  <2>4. QED
    BY <2>1, <2>3 DEF AttemptsCounted
<1>3. ASSUME NEW override \in Branches[current] \cup {NoOverride},
             ExecuteSucceeds(override) \/ ExecuteSkips(override)
      PROVE  AttemptsCounted'
  <2>1. /\ UNCHANGED <<failed, waited>> /\ att' = att
        /\ suspended = "executing" /\ suspended' = "idle"
    BY <1>3, MoveOnFacts
  <2>2. \A s \in Steps : (failed[s] + waited[s] + Running(s) <= att[s])'
    BY <1>0, <2>1 DEF AttemptsCounted, Running
  <2>3. execution.status # "failed"
    BY <2>1 DEF InStep, Live
  <2>4. QED
    BY <2>1, <2>2, <2>3 DEF AttemptsCounted
<1>4. ASSUME NEW until, ExecuteWaits(until) PROVE AttemptsCounted'
  <2>1. /\ UNCHANGED failed /\ att' = att
        /\ waited' = [waited EXCEPT ![current] = @ + 1]
        /\ suspended = "executing" /\ suspended' = "idle"
    BY <1>4, WaitFacts
  <2>2. \A s \in Steps : (failed[s] + waited[s] + Running(s) <= att[s])'
    BY <1>0, <2>1 DEF AttemptsCounted, Running
  <2>3. execution.status # "failed"
    BY <2>1 DEF InStep, Live
  <2>4. QED
    BY <2>1, <2>2, <2>3 DEF AttemptsCounted
<1>5. CASE ExecuteFails
  <2>1. /\ UNCHANGED waited /\ att' = att /\ suspended = "executing" /\ suspended' # "executing"
        /\ failed' = [failed EXCEPT ![current] = @ + 1]
        /\ \/ suspended' = "compensating"
           \/ ~(att[current] >= MaxAttempts[current])
    BY <1>5, FailFacts
  <2>2. execution.status # "failed"
    BY <2>1 DEF InStep, Live
  <2>3. \A s \in Steps : failed[s] < MaxAttempts[s]
    BY <2>1, <2>2 DEF AttemptsCounted
  <2>4. \A s \in Steps : (failed[s] + waited[s] + Running(s) <= att[s])'
    BY <1>0, <2>1 DEF AttemptsCounted, Running
  <2>5. failed[current] + waited[current] + 1 <= att[current]
    BY <1>0, <2>1 DEF AttemptsCounted, Running
  <2>6. \A s \in Steps : failed'[s] <= MaxAttempts[s]
    BY <1>0, <2>1, <2>3
  <2>7. ASSUME suspended' # "compensating" PROVE \A s \in Steps : failed'[s] < MaxAttempts[s]
    BY <1>0, <2>1, <2>3, <2>5, <2>7
  <2>8. QED
    BY <2>4, <2>6, <2>7 DEF AttemptsCounted
<1>6. ASSUME NEW s \in Steps, NEW ok \in BOOLEAN, CompensateReturns(s, ok)
      PROVE  AttemptsCounted'
  BY <1>6, UndoFacts DEF AttemptsCounted, Running
<1>7. CASE GiveUp
  BY <1>7, GiveUpFacts DEF AttemptsCounted, Running
<1>8. QED
  BY <1>1, <1>2, <1>3, <1>4, <1>5, <1>6, <1>7 DEF RunnerNext, ExecuteReturns, Compensate

(* The driver and the execution stay in step.                              *)
LEMMA InStepInductive ==
  ASSUME RunnerTypeOK, InStep, [RunnerNext]_runner_vars
  PROVE  InStep'
<1>1. CASE RunnerStart \/ Tick \/ UNCHANGED runner_vars
  BY <1>1, FrameFacts DEF InStep, RunnerStart, Tick, runner_vars
<1>2. CASE Resume
  BY <1>2, ResumeFacts DEF InStep
<1>3. ASSUME NEW override \in Branches[current] \cup {NoOverride},
             ExecuteSucceeds(override) \/ ExecuteSkips(override)
      PROVE  InStep'
  BY <1>3, MoveOnFacts DEF InStep, Live
<1>4. ASSUME NEW until, ExecuteWaits(until) PROVE InStep'
  BY <1>4, WaitFacts DEF InStep, Live
<1>5. CASE ExecuteFails
  BY <1>5, FailFacts DEF InStep, Live
<1>6. ASSUME NEW s \in Steps, NEW ok \in BOOLEAN, CompensateReturns(s, ok)
      PROVE  InStep'
  BY <1>6, UndoFacts DEF InStep
<1>7. CASE GiveUp
  BY <1>7, GiveUpFacts DEF InStep, Live
<1>8. QED
  BY <1>1, <1>2, <1>3, <1>4, <1>5, <1>6, <1>7 DEF RunnerNext, ExecuteReturns, Compensate

(* The plan of the compensations is kept to.                               *)
LEMMA PlanFollowedInductive ==
  ASSUME RunnerTypeOK, InStep, PlanFollowed, [RunnerNext]_runner_vars
  PROVE  PlanFollowed'
<1>1. CASE RunnerStart \/ Tick \/ UNCHANGED runner_vars
  BY <1>1, FrameFacts DEF PlanFollowed, Undone, current
<1>2. CASE Resume
  BY <1>2, ResumeFacts DEF PlanFollowed
<1>3. ASSUME NEW override \in Branches[current] \cup {NoOverride},
             ExecuteSucceeds(override) \/ ExecuteSkips(override)
      PROVE  PlanFollowed'
  BY <1>3, MoveOnFacts DEF PlanFollowed
<1>4. ASSUME NEW until, ExecuteWaits(until) PROVE PlanFollowed'
  BY <1>4, WaitFacts DEF PlanFollowed
<1>5. CASE ExecuteFails
  <2>1. execution.compensation_log = <<>>
    BY <1>5, FailFacts DEF InStep
  <2>2. Undone = {}
    BY <2>1 DEF Undone
  <2>3. CASE suspended' = "compensating"
    <3>1. /\ current' = current /\ to_undo' = StepsForCompensation(current) /\ Undone' = {}
      BY <1>5, <2>2, <2>3, FailFacts DEF Undone
    <3>2. QED
      BY <3>1 DEF PlanFollowed
  <2>4. QED
    BY <2>3 DEF PlanFollowed
<1>6. ASSUME NEW s \in Steps, NEW ok \in BOOLEAN, CompensateReturns(s, ok)
      PROVE  PlanFollowed'
  <2>1. /\ suspended = "compensating" /\ current' = current
        /\ s \in to_undo /\ (\A t \in to_undo : t <= s) /\ to_undo' = to_undo \ {s}
        /\ Undone' = Undone \cup {s}
    BY <1>6, UndoFacts
  <2>2. to_undo \subseteq Steps /\ Steps \subseteq Nat
    BY DefinitionAssumption DEF RunnerTypeOK, Steps
  <2>3. \A x, y \in Nat : x <= y /\ x # y => x < y
    OBVIOUS
  <2>4. \A x \in to_undo', y \in Undone' : x < y
    BY <2>1, <2>2, <2>3 DEF PlanFollowed
  <2>5. to_undo' \cup Undone' = to_undo \cup Undone
    BY <2>1
  <2>6. QED
    BY <2>1, <2>4, <2>5 DEF PlanFollowed
<1>7. CASE GiveUp
  BY <1>7, GiveUpFacts DEF PlanFollowed
<1>8. QED
  BY <1>1, <1>2, <1>3, <1>4, <1>5, <1>6, <1>7 DEF RunnerNext, ExecuteReturns, Compensate

(* Whatever a definition's branches, the history is counted, the driver    *)
(* and the execution are in step and the plan is kept to.                  *)
THEOREM RunnerInvariance == RunnerSpec => []RunnerInv
<1>1. RunnerInit => RunnerInv
  <2>1. ASSUME RunnerInit PROVE AttemptsCounted
    BY <2>1, DefinitionAssumption DEF RunnerInit, AttemptsCounted, Running, NewExecution
  <2>2. ASSUME RunnerInit PROVE InStep /\ PlanFollowed
    BY <2>2 DEF RunnerInit, InStep, PlanFollowed, NewExecution
  <2>3. QED
    BY <2>1, <2>2 DEF RunnerInv
<1>2. RunnerTypeOK /\ RunnerTypeOK' /\ RunnerInv /\ [RunnerNext]_runner_vars => RunnerInv'
  BY AttemptsCountedInductive, InStepInductive, PlanFollowedInductive DEF RunnerInv
<1>3. QED
  BY <1>1, <1>2, RunnerTypeCorrect, PTL DEF RunnerSpec

(* handle_step_failure: whatever branches, waits and retries a session     *)
(* goes through, no step fails more often than max_attempts.               *)
THEOREM FailuresAreBounded ==
  RunnerSpec => [](\A s \in Steps : failed[s] <= MaxAttempts[s])
<1>1. RunnerInv => \A s \in Steps : failed[s] <= MaxAttempts[s]
  BY DEF RunnerInv, AttemptsCounted
<1>2. QED
  BY <1>1, RunnerInvariance, PTL

(* The current step is at the front of what was tried.                     *)
LEMMA AtTheFrontInductive ==
  ASSUME BranchesLeadForward, RunnerTypeOK, RunnerTypeOK', RunnerInv, AtTheFront,
         [RunnerNext]_runner_vars
  PROVE  AtTheFront'
<1> DEFINE att == execution.attempt_count
           Used(s) == failed[s] + waited[s]
           Fresh(s) == att[s] = 0 /\ failed[s] = 0 /\ waited[s] = 0
<1>0. /\ current \in Steps /\ current' \in Steps
      /\ att \in [Steps -> Nat] /\ failed \in [Steps -> Nat] /\ waited \in [Steps -> Nat]
      /\ MaxAttempts \in [Steps -> Nat] /\ execution.completed_steps \subseteq Steps
      /\ Steps \subseteq Nat
  <2>1. /\ current \in Steps /\ current' \in Steps /\ execution.completed_steps \subseteq Steps
        /\ att \in [Steps -> Nat] /\ failed \in [Steps -> Nat]
    BY DEF RunnerTypeOK, Execution, current
  <2>2. waited \in [Steps -> 0 .. MaxPolls] /\ 0 .. MaxPolls \subseteq Nat
    BY DEF RunnerTypeOK
  <2>3. MaxAttempts \in [Steps -> Nat] /\ Steps \subseteq Nat
    BY DefinitionAssumption DEF Steps
  <2>4. QED
    BY <2>1, <2>2, <2>3
<1>1. CASE RunnerStart \/ Tick \/ UNCHANGED runner_vars
  BY <1>1, FrameFacts DEF RunnerInv, AtTheFront, Running, current
<1>2. CASE Resume
  <2>1. /\ UNCHANGED <<failed, waited>> /\ current' = current
        /\ att' = [att EXCEPT ![current] = @ + 1]
        /\ execution.status \in Live /\ execution'.status = execution.status
        /\ execution'.completed_steps = execution.completed_steps
        /\ suspended = "idle" /\ suspended' = "executing"
    BY <1>2, ResumeFacts
  <2>2. att[current] = Used(current)
    BY <1>0, <2>1 DEF AtTheFront, Running
  <2>3. att'[current'] = Used(current)' + Running(current)'
    BY <1>0, <2>1, <2>2 DEF Running
  <2>4. \A s \in Steps : current' < s => Fresh(s)'
    BY <1>0, <2>1 DEF AtTheFront
  <2>5. \A s \in execution'.completed_steps : s < current'
    BY <2>1 DEF AtTheFront
  <2>6. execution'.status # "failed"
    BY <2>1 DEF Live
  <2>7. QED
    BY <2>1, <2>3, <2>4, <2>5, <2>6 DEF AtTheFront
<1>3. ASSUME NEW override \in Branches[current] \cup {NoOverride},
             ExecuteSucceeds(override) \/ ExecuteSkips(override)
      PROVE  AtTheFront'
  <2>1. /\ UNCHANGED <<failed, waited>> /\ att' = att
        /\ suspended = "executing" /\ suspended' = "idle"
        /\ execution'.completed_steps \subseteq execution.completed_steps \cup {current}
        /\ \/ execution'.status = "succeeded"
           \/ execution'.status = "running" /\ current < current'
    BY <1>3, MoveOnFacts
  <2>2. execution.status \in Live
    BY <2>1 DEF RunnerInv, InStep
  <2>3. CASE execution'.status = "succeeded"
    BY <2>1, <2>3 DEF AtTheFront, Live
  <2>4. CASE execution'.status = "running" /\ current < current'
    <3>1. \A s \in Steps : current' < s => Fresh(s)'
      BY <1>0, <2>1, <2>2, <2>4 DEF AtTheFront
    <3>2. att'[current'] = Used(current)' + Running(current)'
      <4>1. att[current'] = 0 /\ failed[current'] = 0 /\ waited[current'] = 0
        BY <1>0, <2>2, <2>4 DEF AtTheFront
      <4>2. att'[current'] = 0 /\ failed'[current'] = 0 /\ waited'[current'] = 0
        BY <2>1, <4>1
      <4>3. QED
        BY <2>1, <4>2 DEF Running
    <3>3. \A s \in execution'.completed_steps : s < current'
      <4>1. \A s \in execution.completed_steps : s < current /\ s \in Nat
        BY <1>0, <2>2 DEF AtTheFront
      <4>2. current \in Nat /\ current' \in Nat
        BY <1>0
      <4>3. \A x, y, z \in Nat : x < y /\ y < z => x < z
        OBVIOUS
      <4>4. \A s \in execution.completed_steps : s < current'
        BY <2>4, <4>1, <4>2, <4>3
      <4>5. QED
        BY <2>1, <2>4, <4>4
    <3>4. QED
      BY <2>1, <2>4, <3>1, <3>2, <3>3 DEF AtTheFront
  <2>5. QED
    BY <2>1, <2>3, <2>4
<1>4. ASSUME NEW until, ExecuteWaits(until) PROVE AtTheFront'
  <2>1. /\ UNCHANGED failed /\ att' = att /\ current' = current
        /\ waited' = [waited EXCEPT ![current] = @ + 1]
        /\ execution'.completed_steps = execution.completed_steps
        /\ execution'.status = "waiting" /\ suspended = "executing" /\ suspended' = "idle"
    BY <1>4, WaitFacts
  <2>2. execution.status \in Live
    BY <2>1 DEF RunnerInv, InStep
  <2>3. att[current] = Used(current) + 1
    BY <2>1, <2>2 DEF AtTheFront, Running
  <2>4. att'[current'] = Used(current)' + Running(current)'
    BY <1>0, <2>1, <2>3 DEF Running
  <2>5. \A s \in Steps : current' < s => Fresh(s)'
    BY <1>0, <2>1, <2>2 DEF AtTheFront
  <2>6. \A s \in execution'.completed_steps : s < current'
    BY <2>1, <2>2 DEF AtTheFront
  <2>7. QED
    BY <2>1, <2>4, <2>5, <2>6 DEF AtTheFront
<1>5. CASE ExecuteFails
  <2>1. /\ UNCHANGED waited /\ att' = att /\ current' = current
        /\ failed' = [failed EXCEPT ![current] = @ + 1]
        /\ execution'.completed_steps = execution.completed_steps
        /\ suspended = "executing" /\ suspended' # "executing"
        /\ suspended' = "compensating" => att[current] >= MaxAttempts[current]
        /\ execution'.status = execution.status \/ execution'.status = "waiting"
    BY <1>5, FailFacts
  <2>2. execution.status \in Live /\ execution'.status # "failed"
    BY <2>1 DEF RunnerInv, InStep, Live
  <2>3. att[current] = Used(current) + 1
    BY <2>1, <2>2 DEF AtTheFront, Running
  <2>4. att'[current'] = Used(current)' /\ Running(current)' = 0
    BY <1>0, <2>1, <2>3 DEF Running
  <2>5. \A s \in Steps : current' < s => Fresh(s)'
    BY <1>0, <2>1, <2>2 DEF AtTheFront
  <2>6. \A s \in execution'.completed_steps : s < current'
    BY <2>1, <2>2 DEF AtTheFront
  <2>7. suspended' = "compensating" => Used(current)' >= MaxAttempts[current']
    BY <2>1, <2>4
  <2>8. att'[current'] = Used(current)' + Running(current)'
    BY <1>0, <2>1, <2>4
  <2>9. QED
    BY <2>2, <2>5, <2>6, <2>7, <2>8 DEF AtTheFront
<1>6. ASSUME NEW s \in Steps, NEW ok \in BOOLEAN, CompensateReturns(s, ok)
      PROVE  AtTheFront'
  <2>1. /\ UNCHANGED <<failed, waited>> /\ att' = att /\ current' = current
        /\ execution'.completed_steps = execution.completed_steps
        /\ execution'.status = execution.status
        /\ suspended = "compensating" /\ suspended' = "compensating"
    BY <1>6, UndoFacts
  <2>2. QED
    BY <2>1 DEF AtTheFront, Running
<1>7. CASE GiveUp
  <2>1. /\ UNCHANGED <<failed, waited>> /\ current' = current
        /\ execution'.status = "failed" /\ suspended = "compensating" /\ suspended' = "idle"
    BY <1>7, GiveUpFacts
  <2>2. QED
    BY <2>1 DEF AtTheFront, Live
<1>8. QED
  BY <1>1, <1>2, <1>3, <1>4, <1>5, <1>6, <1>7 DEF RunnerNext, ExecuteReturns, Compensate

(* Where branches lead forward, every attempt of the current step failed   *)
(* or waited, and every completed step lies behind it.                     *)
THEOREM FrontInvariance ==
  ASSUME BranchesLeadForward
  PROVE  RunnerSpec => []AtTheFront
<1>1. RunnerInit => AtTheFront
  <2> SUFFICES ASSUME RunnerInit PROVE AtTheFront
    OBVIOUS
  <2>1. current = 1 /\ 1 \in Steps
    BY DefinitionAssumption DEF RunnerInit, NewExecution, current, Steps
  <2>2. QED
    BY <2>1 DEF RunnerInit, AtTheFront, Running, NewExecution
<1>2. RunnerTypeOK /\ RunnerTypeOK' /\ RunnerInv /\ AtTheFront /\ [RunnerNext]_runner_vars
        => AtTheFront'
  BY AtTheFrontInductive
<1>3. QED
  BY <1>1, <1>2, RunnerTypeCorrect, RunnerInvariance, PTL DEF RunnerSpec

(* Where branches lead forward, a workflow is only given up when FAILED    *)
(* and WAITING results of the failing step used up max_attempts.           *)
THEOREM SessionsKeepTheBudget ==
  ASSUME BranchesLeadForward
  PROVE  RunnerSpec => []SessionRetryBudget
<1>1. RunnerInv /\ AtTheFront => SessionRetryBudget
  BY DEF RunnerInv, AttemptsCounted, AtTheFront, SessionRetryBudget
<1>2. QED
  BY <1>1, RunnerInvariance, FrontInvariance, PTL

(* The first state of a session is the first state of a saga.              *)
LEMMA InitialSaga == RunnerInit => saga!Init
<1> SUFFICES ASSUME RunnerInit PROVE saga!Init
  OBVIOUS
<1>1. execution = NewExecution
  BY DEF RunnerInit
<1>2. Undone = {} /\ execution.completed_steps = {}
  BY <1>1 DEF Undone, NewExecution
<1>3. Phase = "forward"
  BY <1>1 DEF Phase, NewExecution, Live
<1>4. QED
  BY <1>2, <1>3 DEF saga!Init

(* While the workflow is live, the saga undoes what is on the log.         *)
LEMMA PhaseFacts ==
  /\ execution.status \in Live => Phase = IF execution.compensation_log = <<>> THEN "forward" ELSE "undoing"
  /\ execution.status = "succeeded" => Phase = "committed"
  /\ execution.status = "failed" => Phase = "aborted"
BY DEF Phase, Live

(* The same of the next state. *)
LEMMA PhaseFactsNext ==
  /\ execution'.status \in Live => Phase' = IF execution'.compensation_log = <<>> THEN "forward" ELSE "undoing"
  /\ execution'.status = "succeeded" => Phase' = "committed"
  /\ execution'.status = "failed" => Phase' = "aborted"
BY DEF Phase, Live

(* Each step of a session is a step of the saga or none.                   *)
LEMMA SagaStep ==
  ASSUME RunnerTypeOK, RunnerInv, AtTheFront, [RunnerNext]_runner_vars
  PROVE  [saga!Next]_(saga!vars)
<1> DEFINE done == execution.completed_steps
           log == execution.compensation_log
<1>0. current \in Steps /\ done \subseteq Steps /\ to_undo \subseteq Compensable
  BY DEF RunnerTypeOK, Execution, current
<1>1. ASSUME done' = done, log' = log,
             execution'.status = execution.status
               \/ (execution.status \in Live /\ execution'.status \in Live)
      PROVE  UNCHANGED saga!vars
  <2>1. Phase' = Phase /\ Undone' = Undone
    BY <1>1 DEF Phase, Undone, Live
  <2>2. QED
    BY <1>1, <2>1 DEF saga!vars
<1>2. CASE RunnerStart \/ Tick \/ UNCHANGED runner_vars
  BY <1>1, <1>2, FrameFacts DEF RunnerInv
<1>3. CASE Resume
  BY <1>1, <1>3, ResumeFacts
<1>4. ASSUME NEW override \in Branches[current] \cup {NoOverride},
             ExecuteSucceeds(override) \/ ExecuteSkips(override)
      PROVE  [saga!Next]_(saga!vars)
  <2>1. /\ suspended = "executing" /\ log' = log
        /\ done' = done \/ done' = done \cup {current}
        /\ execution'.status = "succeeded" \/ execution'.status = "running"
    BY <1>4, MoveOnFacts
  <2>2. execution.status \in Live /\ log = <<>>
    BY <2>1 DEF RunnerInv, InStep
  <2>3. Phase = "forward" /\ Undone' = Undone
    BY <2>1, <2>2, PhaseFacts DEF Undone
  <2>4. CASE execution'.status = "succeeded"
    <3>1. Phase' = "committed"
      BY <2>4, PhaseFactsNext
    <3>2. saga!Commit
      BY <1>0, <2>1, <2>3, <3>1 DEF saga!Commit
    <3>3. QED
      BY <3>2 DEF saga!Next
  <2>5. CASE execution'.status = "running"
    <3>1. Phase' = "forward"
      BY <2>1, <2>2, <2>5, PhaseFactsNext DEF Live
    <3>2. CASE done' = done
      BY <2>3, <3>1, <3>2 DEF saga!vars
    <3>3. CASE done' = done \cup {current}
      <4>1. saga!Do(current)
        BY <2>3, <3>1, <3>3 DEF saga!Do
      <4>2. QED
        BY <1>0, <4>1 DEF saga!Next
    <3>4. QED
      BY <2>1, <3>2, <3>3
  <2>6. QED
    BY <2>1, <2>4, <2>5
<1>5. ASSUME NEW until, ExecuteWaits(until) PROVE UNCHANGED saga!vars
  <2>1. execution.status \in Live /\ execution'.status \in Live
    BY <1>5, WaitFacts DEF RunnerInv, InStep, Live
  <2>2. QED
    BY <1>1, <1>5, <2>1, WaitFacts
<1>6. ASSUME ExecuteFails PROVE UNCHANGED saga!vars
  <2>1. execution.status \in Live /\ execution'.status \in Live
    BY <1>6, FailFacts DEF RunnerInv, InStep, Live
  <2>2. QED
    BY <1>1, <1>6, <2>1, FailFacts
<1>7. ASSUME NEW s \in Steps, NEW ok \in BOOLEAN, CompensateReturns(s, ok)
      PROVE  [saga!Next]_(saga!vars)
  <2>1. /\ suspended = "compensating" /\ done' = done /\ log' # <<>>
        /\ s \in to_undo /\ (\A t \in to_undo : t <= s)
        /\ execution'.status = execution.status /\ Undone' = Undone \cup {s}
    BY <1>7, UndoFacts
  <2>2. execution.status \in Live
    BY <2>1 DEF RunnerInv, InStep
  <2>3. Phase \in {"forward", "undoing"} /\ Phase' = "undoing"
    BY <2>1, <2>2, PhaseFacts, PhaseFactsNext
  <2>4. s \in Compensable /\ s \notin Undone
    <3>1. \A t \in Undone : s < t
      BY <2>1 DEF RunnerInv, PlanFollowed
    <3>2. ~(s < s)
      BY DefinitionAssumption DEF Steps
    <3>3. QED
      BY <1>0, <2>1, <3>1, <3>2
  <2>5. \A t \in (done \cap Compensable) \ Undone : t <= s
    <3>1. \A t \in done \cap Compensable : t \in StepsForCompensation(current)
      BY <1>0, <2>2, DefinitionAssumption DEF AtTheFront, StepsForCompensation, Steps
    <3>2. StepsForCompensation(current) = to_undo \cup Undone
      BY <2>1 DEF RunnerInv, PlanFollowed
    <3>3. QED
      BY <2>1, <3>1, <3>2
  <2>6. saga!Undo(s)
    BY <2>1, <2>3, <2>4, <2>5 DEF saga!Undo
  <2>7. QED
    BY <2>6 DEF saga!Next
<1>8. CASE GiveUp
  <2>1. /\ suspended = "compensating" /\ to_undo = {} /\ done' = done /\ log' = log
        /\ execution'.status = "failed"
    BY <1>8, GiveUpFacts
  <2>2. execution.status \in Live
    BY <2>1 DEF RunnerInv, InStep
  <2>3. Phase \in {"forward", "undoing"} /\ Phase' = "aborted" /\ Undone' = Undone
    BY <2>1, <2>2, PhaseFacts, PhaseFactsNext DEF Undone
  <2>4. done \cap Compensable \subseteq Undone
    <3>1. \A t \in done \cap Compensable : t \in StepsForCompensation(current)
      BY <1>0, <2>2, DefinitionAssumption DEF AtTheFront, StepsForCompensation, Steps
    <3>2. StepsForCompensation(current) = to_undo \cup Undone
      BY <2>1 DEF RunnerInv, PlanFollowed
    <3>3. QED
      BY <2>1, <3>1, <3>2
  <2>5. saga!Abort
    BY <2>1, <2>3, <2>4 DEF saga!Abort
  <2>6. QED
    BY <2>5 DEF saga!Next
<1>9. QED
  BY <1>2, <1>3, <1>4, <1>5, <1>6, <1>7, <1>8 DEF RunnerNext, ExecuteReturns, Compensate

(* The refinement: where branches lead forward a session of the runner is  *)
(* a saga: nothing goes forward once something was undone, the latest step *)
(* is undone first, and FAILED means that all was undone.                  *)
THEOREM RunnerImplementsSaga ==
  ASSUME BranchesLeadForward
  PROVE  RunnerSpec => ImplementsSaga
<1>1. RunnerTypeOK /\ RunnerInv /\ AtTheFront /\ [RunnerNext]_runner_vars
        => [saga!Next]_(saga!vars)
  BY SagaStep
<1>2. QED
  BY <1>1, InitialSaga, RunnerTypeCorrect, RunnerInvariance, FrontInvariance, PTL
     DEF RunnerSpec, ImplementsSaga, saga!Spec
=============================================================================
