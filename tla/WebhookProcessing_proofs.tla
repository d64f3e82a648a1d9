---------------------- MODULE WebhookProcessing_proofs ----------------------
(***************************************************************************)
(* Proofs about WebhookProcessing and the JobRetries it extends, for any   *)
(* events, jobs, tries, error classes, retention periods and bounds: what  *)
(* the cleanup takes is settled, a job that gives up has reported it, and  *)
(* no event is left in the middle without a known reason.                  *)
(***************************************************************************)
EXTENDS WebhookProcessing, TLAPS

Phases == {"idle", "running", "succeeded", "retryable", "permanent", "other", "deferring", "raising"}

(* The steps of run, each with its job and the error the handler raised.   *)
RunStep(j) ==
  \/ Succeed(j) \/ RowMissing(j) \/ Unclassified(j)
  \/ \E error : RetryLater(j, error) \/ DeadLetter(j, error)

(* run ends by exactly these steps.                                        *)
LEMMA RunSteps == ASSUME NEW j, Run(j) PROVE RunStep(j)
BY DEF Run, RunStep

-----------------------------------------------------------------------------
(* Types.  ARQ starts an attempt below MaxTries only, so an attempt has a  *)
(* number within 1 .. MaxTries and a dead letter of a job a key.           *)
LEMMA JobTypeStep == JobTypeOK /\ PhaseMatches /\ JobNext => JobTypeOK'
<1> SUFFICES ASSUME JobTypeOK, PhaseMatches, JobNext PROVE JobTypeOK'
  OBVIOUS
<1> USE TriesAssumption
<1>1. ASSUME NEW j \in Jobs, Take(j) \/ Drop(j) PROVE JobTypeOK'
  BY <1>1 DEF Take, Drop, JobTypeOK
<1>2. ASSUME NEW j \in Jobs, FireAlertHooks(j) PROVE JobTypeOK'
  <2>1. try[j] \in 1 .. MaxTries /\ about[j] \in Correlations
    BY <1>2 DEF FireAlertHooks, JobTypeOK, PhaseMatches
  <2>2. <<about[j], try[j]>> \in DeadLetterKey
    BY <2>1 DEF DeadLetterKey
  <2>3. letters' \in [DeadLetterKey -> LetterStatus]
    BY <1>2, <2>2 DEF FireAlertHooks, JobTypeOK, LetterStatus
  <2>4. GivesUp(j) \in BOOLEAN
    BY <2>1 DEF GivesUp, IsFinal
  <2>5. PICK lost \in {FALSE, GivesUp(j)} :
          alerts' = [alerts EXCEPT ![j] =
                      @ \cup {[attempt |-> try[j], final |-> GivesUp(j), lost |-> lost]}]
    BY <1>2 DEF FireAlertHooks
  <2>6. [attempt |-> try[j], final |-> GivesUp(j), lost |-> lost] \in Alert
    BY <2>1, <2>4 DEF Alert
  <2>7. alerts' \in [Jobs -> SUBSET Alert]
    BY <2>5, <2>6 DEF JobTypeOK
  <2>8. QED
    BY <1>2, <2>3, <2>7 DEF FireAlertHooks, JobTypeOK
<1>3. ASSUME NEW j \in Jobs, NEW s \in {"queued", "complete", "failed"},
             NEW how \in {"cut", "timeout", "complete", "retryable", "permanent", "other"}, Return(j, s, how)
      PROVE  JobTypeOK'
  BY <1>3 DEF Return, JobTypeOK
<1>4. ASSUME NEW j \in Jobs, Complete(j) \/ Raise(j) \/ Defer(j) \/ RaiseOther(j) \/ TimeOut(j) \/ Interrupt(j)
      PROVE  JobTypeOK'
  BY <1>3, <1>4 DEF Complete, Raise, Defer, RaiseOther, TimeOut, Interrupt
<1>5. ASSUME NEW k \in DeadLetterKey, NEW s \in Marks, Triage(k, s) PROVE JobTypeOK'
  BY <1>5 DEF Triage, JobTypeOK, LetterStatus
<1>6. ASSUME NEW k \in DeadLetterKey, NEW j \in Jobs, ReplayLetter(k, j) PROVE JobTypeOK'
  <2>1. k[1] \in Correlations
    BY DEF DeadLetterKey
  <2>2. QED
    BY <1>6, <2>1 DEF ReplayLetter, JobTypeOK
<1>7. QED
  BY <1>1, <1>2, <1>4, <1>5, <1>6 DEF JobNext, Ends

(* A job that is put on the queue, and a step of run, keep the types.      *)
LEMMA EnqueueTypes ==
  ASSUME JobTypeOK, NEW j \in Jobs, NEW c \in Correlations, Enqueue(j, c)
  PROVE  JobTypeOK'
BY DEF Enqueue, JobTypeOK

(* The end of run keeps the types of the jobs.                             *)
LEMMA PhaseTypes ==
  ASSUME JobTypeOK, NEW j \in Jobs, NEW p \in Phases, Phase(j, p)
  PROVE  JobTypeOK'
BY DEF Phase, JobTypeOK, Phases

(* No step of a job, of an operator, of the cleanup or of the clock leaves *)
(* the types.                                                              *)
LEMMA TypeStep == TypeOK /\ PhaseMatches /\ [Next]_vars => TypeOK'
<1> SUFFICES ASSUME TypeOK, PhaseMatches, [Next]_vars PROVE TypeOK'
  OBVIOUS
<1> USE PolicyAssumption DEF Events, eventvars
<1>0. JobTypeOK
  BY DEF TypeOK
<1>1. CASE JobNext /\ UNCHANGED eventvars
  BY <1>0, <1>1, JobTypeStep DEF TypeOK
<1>2. ASSUME NEW j \in Jobs, Run(j) PROVE TypeOK'
  <2>1. about[j] \in Events
    BY <1>0 DEF JobTypeOK
  <2>2. CASE Succeed(j)
    <3>1. JobTypeOK'
      BY <1>0, <2>2, PhaseTypes DEF Succeed, Phases
    <3>2. QED
      BY <2>1, <2>2, <3>1 DEF Succeed, TypeOK, Terminal
  <2>3. ASSUME NEW error, DeadLetter(j, error) PROVE TypeOK'
    <3>1. JobTypeOK'
      BY <1>0, <2>3, PhaseTypes DEF DeadLetter, Phases
    <3>2. QED
      BY <2>1, <2>3, <3>1 DEF DeadLetter, TypeOK, Terminal, LetterStatus
  <2>4. ASSUME NEW error, RetryLater(j, error) \/ Unclassified(j) \/ RowMissing(j)
        PROVE  TypeOK'
    <3>1. PICK p \in Phases : Phase(j, p)
      BY <2>4 DEF RetryLater, Unclassified, RowMissing, Phases
    <3>2. JobTypeOK' /\ UNCHANGED eventvars
      BY <1>0, <2>4, <3>1, PhaseTypes DEF RetryLater, Unclassified, RowMissing
    <3>3. QED
      BY <3>2 DEF TypeOK
  <2>5. QED
    BY <1>2, <2>2, <2>3, <2>4, RunSteps DEF RunStep
<1>3. ASSUME NEW e \in Events, NEW j \in Jobs, Accept(e, j) \/ EnqueueReplay(e, j) PROVE TypeOK'
  <2>1. JobTypeOK'
    BY <1>0, <1>3, EnqueueTypes DEF Accept, EnqueueReplay
  <2>2. QED
    BY <1>3, <2>1 DEF Accept, EnqueueReplay, TypeOK
<1>4. ASSUME UNCHANGED jobvars PROVE JobTypeOK'
  BY <1>0, <1>4 DEF jobvars, JobTypeOK
<1>5. ASSUME NEW e \in Events, PrepareForReplay(e) PROVE TypeOK'
  BY <1>4, <1>5 DEF PrepareForReplay, TypeOK
<1>6. ASSUME NEW e \in Events, NEW s \in Marks, TriageEvent(e, s) PROVE TypeOK'
  BY <1>4, <1>6 DEF TriageEvent, TypeOK, LetterStatus
<1>7. CASE Cleanup
  <2>1. \A e \in Events : (raw[e] /\ ~ Scrubbable(e) /\ ~ Purgeable(e)) \in BOOLEAN
    OBVIOUS
  <2>2. raw' \in [Events -> BOOLEAN]
    BY <1>7, <2>1 DEF Cleanup
  <2>3. QED
    BY <1>4, <1>7, <2>2 DEF Cleanup, TypeOK
<1>8. CASE Day
  BY <1>4, <1>8 DEF Day, TypeOK
<1>9. CASE UNCHANGED vars
  BY <1>4, <1>9 DEF vars, TypeOK
<1>10. QED
  BY <1>1, <1>2, <1>3, <1>5, <1>6, <1>7, <1>8, <1>9 DEF Next

-----------------------------------------------------------------------------
(* The jobs.  What the rest of the system does to them is to enqueue one   *)
(* and to move the phase of one that runs.                                 *)

(* A report stays where it is.                                             *)
LEMMA ReportStays ==
  ASSUME JobTypeOK, NEW j \in Jobs, Reported(j), about'[j] = about[j],
         alerts[j] \subseteq alerts'[j], \A k \in DeadLetterKey : letters[k] # "none" => letters'[k] # "none"
  PROVE  Reported(j)'
<1>1. PICK a \in alerts[j] : a.final /\ (a.lost \/ letters[<<about[j], a.attempt>>] # "none")
  BY DEF Reported
<1>2. a \in Alert /\ about[j] \in Correlations
  BY DEF JobTypeOK
<1>3. <<about[j], a.attempt>> \in DeadLetterKey
  BY <1>2 DEF Alert, DeadLetterKey
<1>4. QED
  BY <1>1, <1>3 DEF Reported

(* Triage and replay of dead letters lose none.                            *)
LEMMA LettersStay ==
  JobTypeOK /\ [JobNext]_jobvars => \A k \in DeadLetterKey : letters[k] # "none" => letters'[k] # "none"
<1> SUFFICES ASSUME JobTypeOK, [JobNext]_jobvars, NEW k \in DeadLetterKey, letters[k] # "none"
             PROVE  letters'[k] # "none"
  OBVIOUS
<1>1. ASSUME NEW j \in Jobs, FireAlertHooks(j) PROVE letters'[k] # "none"
  BY <1>1 DEF FireAlertHooks, JobTypeOK
<1>2. ASSUME NEW q \in DeadLetterKey, NEW s \in Marks, Triage(q, s) PROVE letters'[k] # "none"
  BY <1>2, TriesAssumption DEF Triage, JobTypeOK
<1>3. QED
  BY <1>1, <1>2 DEF JobNext, Take, Drop, Ends, Complete, Raise, Defer, RaiseOther, TimeOut, Interrupt, Return,
                    ReplayLetter, jobvars

(* The three parts, of one job.                                            *)
JobInv(j) ==
  /\ status[j] = "running" <=> phase[j] # "idle"
  /\ phase[j] \in {"retryable", "deferring"} => try[j] < MaxTries
  /\ status[j] = "free" => try[j] = 0 /\ last[j] = "none"
  /\ status[j] = "queued" =>
       \/ last[j] = "none" /\ try[j] = 0
       \/ last[j] = "retryable" /\ try[j] < MaxTries
       \/ last[j] = "cut"
  /\ phase[j] = "raising" => Reported(j)
  /\ status[j] = "failed" => last[j] # "retryable" /\ (last[j] = "permanent" => Reported(j))

JobsInv == \A j \in Jobs : JobInv(j)

(* A step touches one job; the dead letters it adds break nothing for the  *)
(* others.                                                                 *)
LEMMA OtherJobs ==
  ASSUME JobTypeOK, NEW i \in Jobs, JobInv(i),
         UNCHANGED <<status[i], try[i], about[i], phase[i], last[i], alerts[i]>>,
         \A k \in DeadLetterKey : letters[k] # "none" => letters'[k] # "none"
  PROVE  JobInv(i)'
<1>1. Reported(i) => Reported(i)'
  BY ReportStays
<1>2. QED
  BY <1>1 DEF JobInv

(* Every step of the job runtime keeps the invariant of the jobs.          *)
LEMMA JobStep == JobTypeOK /\ JobsInv /\ JobNext => JobsInv'
<1> SUFFICES ASSUME JobTypeOK, JobsInv, JobNext PROVE \A i \in Jobs : JobInv(i)'
  BY DEF JobsInv
<1> USE TriesAssumption
<1>0. \A i \in Jobs : JobInv(i)
  BY DEF JobsInv
<1>1. \A k \in DeadLetterKey : letters[k] # "none" => letters'[k] # "none"
  BY LettersStay
<1>2. ASSUME NEW j \in Jobs, JobInv(j)',
             \A i \in Jobs \ {j} : UNCHANGED <<status[i], try[i], about[i], phase[i], last[i], alerts[i]>>
      PROVE  \A i \in Jobs : JobInv(i)'
  BY <1>0, <1>1, <1>2, OtherJobs
<1>3. ASSUME NEW j \in Jobs, Reported(j), UNCHANGED <<about[j], alerts[j]>> PROVE Reported(j)'
  BY <1>1, <1>3, ReportStays
<1>4. ASSUME NEW j \in Jobs, Take(j) PROVE \A i \in Jobs : JobInv(i)'
  <2>1. JobInv(j)'
    BY <1>0, <1>4 DEF Take, JobInv, JobTypeOK
  <2>2. QED
    BY <1>2, <1>4, <2>1 DEF Take, JobTypeOK
<1>5. ASSUME NEW j \in Jobs, Drop(j) PROVE \A i \in Jobs : JobInv(i)'
  <2>1. last[j] = "cut"
    BY <1>0, <1>5 DEF Drop, JobInv, JobTypeOK
  <2>2. JobInv(j)'
    BY <1>0, <1>5, <2>1 DEF Drop, JobInv, JobTypeOK
  <2>3. QED
    BY <1>2, <1>5, <2>2 DEF Drop, JobTypeOK
<1>6. ASSUME NEW j \in Jobs, FireAlertHooks(j) PROVE \A i \in Jobs : JobInv(i)'
  <2>1. status[j] = "running" /\ try[j] \in 1 .. MaxTries /\ about[j] \in Correlations
    BY <1>0, <1>6 DEF FireAlertHooks, JobInv, JobTypeOK
  <2>2. ASSUME phase[j] = "retryable" PROVE JobInv(j)'
    <3>1. phase'[j] = "deferring" /\ try'[j] < MaxTries /\ status'[j] = "running"
      BY <1>0, <1>6, <2>1, <2>2 DEF FireAlertHooks, JobInv, JobTypeOK
    <3>2. QED
      BY <3>1 DEF JobInv
  <2>3. ASSUME phase[j] = "permanent" PROVE JobInv(j)'
    <3>1. GivesUp(j)
      BY <2>3 DEF GivesUp
    <3>2. <<about[j], try[j]>> \in DeadLetterKey
      BY <2>1 DEF DeadLetterKey
    <3>3. PICK lost :
            /\ [attempt |-> try[j], final |-> GivesUp(j), lost |-> lost] \in alerts'[j]
            /\ lost \/ letters'[<<about[j], try[j]>>] # "none"
      <4>1. PICK lost \in {FALSE, GivesUp(j)} :
              /\ alerts' = [alerts EXCEPT ![j] =
                             @ \cup {[attempt |-> try[j], final |-> GivesUp(j), lost |-> lost]}]
              /\ letters' = IF GivesUp(j) /\ ~ lost /\ letters[<<about[j], try[j]>>] = "none"
                            THEN [letters EXCEPT ![<<about[j], try[j]>>] = "dead_lettered"]
                            ELSE letters
        BY <1>6 DEF FireAlertHooks
      <4>2. [attempt |-> try[j], final |-> GivesUp(j), lost |-> lost] \in alerts'[j]
        BY <4>1 DEF JobTypeOK
      <4>3. lost \/ letters'[<<about[j], try[j]>>] # "none"
        BY <3>1, <3>2, <4>1 DEF JobTypeOK
      <4>4. QED
        BY <4>2, <4>3
    <3>4. about'[j] = about[j]
      BY <1>6 DEF FireAlertHooks
    <3>5. Reported(j)'
      BY <3>1, <3>3, <3>4 DEF Reported
    <3>6. phase'[j] = "raising" /\ status'[j] = "running"
      BY <1>6, <2>1, <2>3 DEF FireAlertHooks, JobTypeOK
    <3>7. QED
      BY <3>5, <3>6 DEF JobInv
  <2>4. JobInv(j)'
    BY <1>6, <2>2, <2>3 DEF FireAlertHooks
  <2>5. QED
    BY <1>2, <1>6, <2>4 DEF FireAlertHooks, JobTypeOK
<1>7. ASSUME NEW j \in Jobs, NEW s, NEW how, Return(j, s, how)
      PROVE  /\ status'[j] = s /\ phase'[j] = "idle" /\ last'[j] = how /\ try'[j] = try[j]
             /\ UNCHANGED <<about[j], alerts[j]>>
             /\ \A i \in Jobs \ {j} : UNCHANGED <<status[i], try[i], about[i], phase[i], last[i], alerts[i]>>
  BY <1>7 DEF Return, JobTypeOK
<1>8. ASSUME NEW j \in Jobs, Complete(j) \/ RaiseOther(j) \/ TimeOut(j) \/ Interrupt(j)
      PROVE  \A i \in Jobs : JobInv(i)'
  <2>1. JobInv(j)'
    BY <1>7, <1>8 DEF Complete, RaiseOther, TimeOut, Interrupt, JobInv
  <2>2. QED
    BY <1>2, <1>7, <1>8, <2>1 DEF Complete, RaiseOther, TimeOut, Interrupt
<1>9. ASSUME NEW j \in Jobs, Raise(j) PROVE \A i \in Jobs : JobInv(i)'
  <2>1. Reported(j)'
    BY <1>0, <1>3, <1>7, <1>9 DEF Raise, JobInv
  <2>2. JobInv(j)'
    BY <1>7, <1>9, <2>1 DEF Raise, JobInv
  <2>3. QED
    BY <1>2, <1>7, <1>9, <2>2 DEF Raise
<1>10. ASSUME NEW j \in Jobs, Defer(j) PROVE \A i \in Jobs : JobInv(i)'
  <2>1. JobInv(j)'
    BY <1>0, <1>7, <1>10 DEF Defer, JobInv
  <2>2. QED
    BY <1>2, <1>7, <1>10, <2>1 DEF Defer
<1>11. ASSUME NEW k \in DeadLetterKey, NEW s \in Marks, Triage(k, s) PROVE \A i \in Jobs : JobInv(i)'
  BY <1>0, <1>1, <1>11, OtherJobs DEF Triage
<1>12. ASSUME NEW k \in DeadLetterKey, NEW j \in Jobs, ReplayLetter(k, j)
       PROVE  \A i \in Jobs : JobInv(i)'
  <2>1. JobInv(j)'
    BY <1>0, <1>12 DEF ReplayLetter, JobInv, JobTypeOK
  <2>2. QED
    BY <1>2, <1>12, <2>1 DEF ReplayLetter, JobTypeOK
<1>13. QED
  BY <1>4, <1>5, <1>6, <1>8, <1>9, <1>10, <1>11, <1>12 DEF JobNext, Ends

(* A job is put on the queue.                                              *)
LEMMA EnqueueStep ==
  ASSUME JobTypeOK, JobsInv, NEW j \in Jobs, NEW c \in Correlations, Enqueue(j, c)
  PROVE  JobsInv'
<1>1. \A i \in Jobs : JobInv(i)
  BY DEF JobsInv
<1>2. JobInv(j)'
  BY <1>1 DEF Enqueue, JobInv, JobTypeOK
<1>3. \A i \in Jobs \ {j} : JobInv(i)'
  BY <1>1, OtherJobs DEF Enqueue, JobTypeOK
<1>4. QED
  BY <1>2, <1>3 DEF JobsInv

(* run ends, as retryable only when another attempt is left.               *)
LEMMA PhaseStep ==
  ASSUME JobTypeOK, JobsInv, NEW j \in Jobs, NEW p, phase[j] = "running", Phase(j, p),
         p \in {"succeeded", "permanent", "other"} \/ (p = "retryable" /\ try[j] < MaxTries)
  PROVE  JobsInv'
<1>1. \A i \in Jobs : JobInv(i)
  BY DEF JobsInv
<1>2. JobInv(j)'
  BY <1>1 DEF Phase, JobInv, JobTypeOK
<1>3. \A i \in Jobs \ {j} : JobInv(i)'
  BY <1>1, OtherJobs DEF Phase, JobTypeOK
<1>4. QED
  BY <1>2, <1>3 DEF JobsInv

(* And so does every step of the whole.                                    *)
LEMMA JobsStep == TypeOK /\ JobsInv /\ [Next]_vars => JobsInv'
<1> SUFFICES ASSUME TypeOK, JobsInv, [Next]_vars PROVE JobsInv'
  OBVIOUS
<1>0. JobTypeOK
  BY DEF TypeOK
<1>1. CASE JobNext
  BY <1>0, <1>1, JobStep
<1>2. ASSUME NEW j \in Jobs, Run(j) PROVE JobsInv'
  <2>1. phase[j] = "running"
    BY <1>2 DEF Run, Succeed, RowMissing, RetryLater, DeadLetter, Unclassified
  <2>2. PICK p : Phase(j, p) /\ (p \in {"succeeded", "permanent", "other"} \/ (p = "retryable" /\ try[j] < MaxTries))
    BY <1>2 DEF Run, Succeed, RowMissing, RetryLater, MayRetry, DeadLetter, Unclassified
  <2>3. QED
    BY <1>0, <2>1, <2>2, PhaseStep
<1>3. ASSUME NEW e \in Events, NEW j \in Jobs, Accept(e, j) \/ EnqueueReplay(e, j) PROVE JobsInv'
  BY <1>0, <1>3, EnqueueStep DEF Accept, EnqueueReplay, Events
<1>4. CASE UNCHANGED jobvars
  BY <1>4 DEF jobvars, JobsInv, JobInv, Reported
<1>5. QED
  BY <1>1, <1>2, <1>3, <1>4 DEF Next, PrepareForReplay, TriageEvent, Cleanup, Day, vars

-----------------------------------------------------------------------------
(* The dead letter of an event stays, and a row that was purged never      *)
(* comes back.                                                             *)
LEMMA LetterStays ==
  ASSUME TypeOK, [Next]_vars, NEW e \in Events, letter[e] # "none"
  PROVE  letter'[e] # "none"
<1> USE DEF eventvars
<1>1. ASSUME NEW j \in Jobs, Run(j) PROVE letter'[e] # "none"
  BY <1>1 DEF Run, Succeed, RowMissing, RetryLater, DeadLetter, Unclassified, TypeOK
<1>2. ASSUME NEW q \in Events, NEW s \in Marks, TriageEvent(q, s) PROVE letter'[e] # "none"
  BY <1>2, TriesAssumption DEF TriageEvent, TypeOK
<1>3. QED
  BY <1>1, <1>2 DEF Next, Accept, EnqueueReplay, PrepareForReplay, Cleanup, Day, vars

(* A row that has come to an end was processed or is in the dead letters,  *)
(* and the cleanup takes from such rows only.                              *)
SettledInv == TerminalIsSettled /\ CleanedIsSettled

(* Rows that have ended, or were cleaned, stay settled: a replay takes an  *)
(* event back to enqueued, not out of done or the dead letters.            *)
LEMMA SettledStep == TypeOK /\ SettledInv /\ [Next]_vars => SettledInv'
<1> SUFFICES ASSUME TypeOK, SettledInv, [Next]_vars, NEW e \in Events
             PROVE  /\ row'[e] \in Terminal => e \in done' \/ letter'[e] # "none"
                    /\ row'[e] # "absent" /\ ~ raw'[e] => e \in done' \/ letter'[e] # "none"
  BY DEF SettledInv, TerminalIsSettled, CleanedIsSettled
<1> DEFINE Goal == /\ row'[e] \in Terminal => e \in done' \/ letter'[e] # "none"
                   /\ row'[e] # "absent" /\ ~ raw'[e] => e \in done' \/ letter'[e] # "none"
<1> USE DEF eventvars
<1>1. /\ row[e] \in Terminal => e \in done \/ letter[e] # "none"
      /\ row[e] # "absent" /\ ~ raw[e] => e \in done \/ letter[e] # "none"
  BY DEF SettledInv, TerminalIsSettled, CleanedIsSettled
<1>2. letter[e] # "none" => letter'[e] # "none"
  BY LetterStays
<1>3. ASSUME UNCHANGED <<row, raw, done>> PROVE Goal
  BY <1>1, <1>2, <1>3
<1>4. ASSUME NEW j \in Jobs, Succeed(j) PROVE Goal
  BY <1>1, <1>2, <1>4 DEF Succeed, Exists, TypeOK
<1>5. ASSUME NEW j \in Jobs, NEW error, DeadLetter(j, error) PROVE Goal
  BY <1>1, <1>2, <1>5 DEF DeadLetter, Exists, TypeOK
<1>6. ASSUME NEW j \in Jobs, NEW error, RetryLater(j, error) \/ Unclassified(j) \/ RowMissing(j)
      PROVE  Goal
  BY <1>3, <1>6 DEF RetryLater, Unclassified, RowMissing
<1>7. ASSUME NEW q \in Events, NEW j \in Jobs, Accept(q, j) PROVE Goal
  BY <1>1, <1>7 DEF Accept, TypeOK, Terminal
<1>8. ASSUME NEW q \in Events, PrepareForReplay(q) PROVE Goal
  BY <1>1, <1>8 DEF PrepareForReplay, Exists, TypeOK, Terminal
<1>9. CASE Cleanup
  BY <1>1, <1>9 DEF Cleanup, Scrubbable, Purgeable, TypeOK, Terminal
<1>10. QED
  BY <1>3, <1>4, <1>5, <1>6, <1>7, <1>8, <1>9, RunSteps
     DEF Next, RunStep, EnqueueReplay, TriageEvent, Day, vars

-----------------------------------------------------------------------------
(* Nobody is stranded.  Whoever carries an event goes on carrying it until *)
(* the row has come to its end, unless a replay hands it to another job.   *)
LEMMA CarriesOn ==
  ASSUME TypeOK, JobsInv, [Next]_vars, NEW e \in Events, NEW j \in Jobs, Carries(j, e),
         row[e] = "enqueued", row'[e] = "enqueued"
  PROVE  Carries(j, e)'
<1> USE DEF eventvars
<1>0. JobTypeOK /\ JobInv(j)
  BY DEF TypeOK, JobsInv
<1>2. ASSUME UNCHANGED <<status[j], about[j], phase[j], last[j]>> PROVE Carries(j, e)'
  BY <1>2 DEF Carries
<1>3. CASE JobNext /\ UNCHANGED eventvars
  <2>1. ASSUME NEW i \in Jobs, i # j, Take(i) \/ Drop(i) \/ Ends(i) \/ TimeOut(i) \/ Interrupt(i) PROVE Carries(j, e)'
    BY <1>0, <1>2, <2>1 DEF Take, Drop, Ends, FireAlertHooks, Complete, Raise, Defer, RaiseOther,
                            TimeOut, Interrupt, Return, JobTypeOK
  <2>2. CASE Take(j)
    BY <1>0, <2>2 DEF Take, Carries, JobTypeOK
  <2>3. CASE Drop(j)
    <3>1. last[j] = "cut"
      BY <1>0, <2>3, TriesAssumption DEF Drop, JobInv, JobTypeOK
    <3>2. QED
      BY <1>0, <2>3, <3>1 DEF Drop, Carries, JobTypeOK
  <2>4. CASE FireAlertHooks(j)
    <3>1. phase[j] = "retryable" /\ status[j] = "running"
      BY <1>0, <2>4 DEF FireAlertHooks, Carries, JobInv
    <3>2. QED
      BY <1>0, <2>4, <3>1 DEF FireAlertHooks, Carries, JobTypeOK
  <2>5. CASE Interrupt(j) \/ TimeOut(j) \/ Defer(j)
    BY <1>0, <2>5 DEF Interrupt, TimeOut, Defer, Return, Carries, JobTypeOK
  <2>6. CASE RaiseOther(j)
    BY <1>0, <2>6 DEF RaiseOther, Return, Carries, JobTypeOK
  <2>7. ~ Complete(j) /\ ~ Raise(j)
    BY <1>0 DEF Complete, Raise, Carries, JobInv
  <2>8. ASSUME NEW k \in DeadLetterKey, NEW s \in Marks, Triage(k, s) PROVE Carries(j, e)'
    BY <1>2, <2>8 DEF Triage
  <2>9. ASSUME NEW k \in DeadLetterKey, NEW i \in Jobs, ReplayLetter(k, i) PROVE Carries(j, e)'
    <3>1. i # j
      BY <2>9 DEF ReplayLetter, Carries
    <3>2. QED
      BY <1>0, <1>2, <2>9, <3>1 DEF ReplayLetter, JobTypeOK
  <2>10. QED
    BY <1>3, <2>1, <2>2, <2>3, <2>4, <2>5, <2>6, <2>7, <2>8, <2>9 DEF JobNext, Ends
<1>4. ASSUME NEW i \in Jobs, Run(i) PROVE Carries(j, e)'
  <2>1. PICK p : Phase(i, p)
    BY <1>4 DEF Run, Succeed, RowMissing, RetryLater, DeadLetter, Unclassified
  <2>2. CASE i # j
    BY <1>0, <1>2, <2>1, <2>2 DEF Phase, JobTypeOK
  <2>3. CASE i = j
    <3>1. about[j] = e /\ status[j] = "running"
      BY <1>0, <1>4, <2>3 DEF Run, Succeed, RowMissing, RetryLater, DeadLetter, Unclassified,
                              Carries, JobInv
    <3>2. ~ Succeed(j) /\ ~ RowMissing(j) /\ \A error : ~ DeadLetter(j, error)
      BY <3>1 DEF Succeed, RowMissing, DeadLetter, TypeOK
    <3>3. Unclassified(j) \/ \E error : RetryLater(j, error)
      BY <1>4, <2>3, <3>2 DEF Run
    <3>4. QED
      BY <1>0, <3>1, <3>3 DEF RetryLater, Unclassified, Phase, Carries, JobTypeOK
  <2>4. QED
    BY <2>2, <2>3
<1>5. ASSUME NEW q \in Events, NEW i \in Jobs, Accept(q, i) \/ EnqueueReplay(q, i) PROVE Carries(j, e)'
  <2>1. i # j
    <3>1. CASE status[j] = "free"
      BY <3>1 DEF Carries
    <3>2. CASE status[j] # "free"
      BY <1>5, <3>2 DEF Accept, EnqueueReplay, Enqueue
    <3>3. QED
      BY <3>1, <3>2
  <2>2. QED
    BY <1>0, <1>2, <1>5, <2>1 DEF Accept, EnqueueReplay, Enqueue, JobTypeOK
<1>6. CASE UNCHANGED jobvars
  BY <1>2, <1>6 DEF jobvars
<1>7. QED
  BY <1>3, <1>4, <1>5, <1>6 DEF Next, PrepareForReplay, TriageEvent, Cleanup, Day, vars

(* An event that is enqueued finds somebody who carries it after every     *)
(* step.                                                                   *)
LEMMA CarriedStep == TypeOK /\ JobsInv /\ OneCarries /\ [Next]_vars => OneCarries'
<1> SUFFICES ASSUME TypeOK, JobsInv, OneCarries, [Next]_vars,
                    NEW e \in Events, row'[e] = "enqueued", e \notin replaying'
             PROVE  \E j \in Jobs : Carries(j, e)'
  BY DEF OneCarries
<1> USE DEF eventvars
<1>1. CASE row[e] = "enqueued" /\ e \notin replaying
  <2>1. PICK j \in Jobs : Carries(j, e)
    BY <1>1 DEF OneCarries
  <2>2. QED
    BY <1>1, <2>1, CarriesOn
<1>2. ASSUME NEW j \in Jobs, Enqueue(j, e) PROVE Carries(j, e)'
  BY <1>2 DEF Enqueue, Carries, TypeOK, JobTypeOK
<1>3. ASSUME NEW q \in Events, NEW j \in Jobs, Accept(q, j) \/ EnqueueReplay(q, j),
             ~ (row[e] = "enqueued" /\ e \notin replaying)
      PROVE  Carries(j, e)'
  <2>1. q = e
    BY <1>3 DEF Accept, EnqueueReplay, TypeOK
  <2>2. QED
    BY <1>2, <1>3, <2>1 DEF Accept, EnqueueReplay
<1>4. ASSUME ~ (row[e] = "enqueued" /\ e \notin replaying)
      PROVE  \E q \in Events : \E j \in Jobs : Accept(q, j) \/ EnqueueReplay(q, j)
  <2>1. ASSUME NEW j \in Jobs PROVE ~ Run(j)
    BY <1>4 DEF Run, Succeed, RowMissing, RetryLater, DeadLetter, Unclassified, TypeOK
  <2>2. ASSUME NEW q \in Events PROVE ~ PrepareForReplay(q)
    BY <1>4 DEF PrepareForReplay, TypeOK
  <2>3. ~ Cleanup
    BY <1>4 DEF Cleanup, Purgeable, TypeOK, Terminal
  <2>4. QED
    BY <1>4, <2>1, <2>2, <2>3 DEF Next, TriageEvent, Day, vars
<1>5. QED
  BY <1>1, <1>3, <1>4

-----------------------------------------------------------------------------
(* The parts of the invariant hold before the first event.                 *)
LEMMA Starts == Init => TypeOK /\ JobsInv /\ SettledInv /\ OneCarries
<1> SUFFICES ASSUME Init PROVE TypeOK /\ JobsInv /\ SettledInv /\ OneCarries
  OBVIOUS
<1> USE TriesAssumption, PolicyAssumption DEF Init, JobInit
<1>1. JobTypeOK
  BY DEF JobTypeOK, LetterStatus
<1>2. TypeOK
  BY <1>1 DEF TypeOK, LetterStatus
<1>3. JobsInv
  BY DEF JobsInv, JobInv
<1>4. SettledInv /\ OneCarries
  BY DEF SettledInv, TerminalIsSettled, CleanedIsSettled, OneCarries, Terminal
<1>5. QED
  BY <1>2, <1>3, <1>4

(* Every variable of the jobs and of the events keeps to its type, and the *)
(* parts of the inductive invariant hold together.                         *)
THEOREM Invariance == Spec => []IInv
<1>1. JobsInv => PhaseMatches
  BY DEF JobsInv, JobInv, PhaseMatches
<1>2. TypeOK /\ JobsInv /\ SettledInv /\ OneCarries => IInv
  BY DEF JobsInv, JobInv, SettledInv, IInv, PhaseMatches, RetriesAreLeft, ReportedBeforeReturn
<1>3. QED
  BY <1>1, <1>2, Starts, TypeStep, JobsStep, SettledStep, CarriedStep, PTL DEF Spec

(* Types of the jobs, of their dead letters and of the events.             *)
THEOREM TypeCorrect == Spec => []TypeOK
<1>1. IInv => TypeOK
  BY DEF IInv
<1>2. QED
  BY <1>1, Invariance, PTL

(* A job that was given up after a classified error has told its hooks,    *)
(* and is in the ledger unless the insert failed.                          *)
THEOREM GivingUpIsReported == Spec => []GivenUpIsReported
<1>1. IInv => GivenUpIsReported
  BY DEF IInv, ReportedBeforeReturn, Reported, GivenUpIsReported
<1>2. QED
  BY <1>1, Invariance, PTL

(* No event stays enqueued without a job or a known reason.                *)
THEOREM NobodyIsStranded == Spec => []NothingStranded
<1>1. IInv => NothingStranded
  BY DEF IInv, OneCarries, Carries, NothingStranded, Live
<1>2. QED
  BY <1>1, Invariance, PTL

(* Scrubbing and purging take only what is settled.                        *)
THEOREM CleanupTakesSettled == Spec => []CleanedIsSettled
<1>1. IInv => CleanedIsSettled
  BY DEF IInv
<1>2. QED
  BY <1>1, Invariance, PTL
=============================================================================
