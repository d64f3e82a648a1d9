----------------------------- MODULE JobRetries -----------------------------
(* A WorkerJob under ARQ: the attempts of its execute, the alert hooks and  *)
(* the dead letters of jobs (core/worker/jobs.py, retry.py, dead_letter.py, *)
(* replay.py).  ARQ counts an attempt when it starts one, so an attempt     *)
(* that a crash or a shutdown cuts short is counted too.  What run does is  *)
(* left to the module that extends this one: it moves a job's phase from    *)
(* "running" to the way run has ended.                                      *)
EXTENDS Integers

CONSTANTS
  Jobs,          \* ARQ job ids (bounds how many are ever enqueued)
  Correlations,  \* correlation ids of the envelopes
  MaxTries,      \* JobRetryPolicy.max_tries
  Marks          \* the marks operators put on dead letters (nothing reads them)

ASSUME TriesAssumption ==
  MaxTries \in Nat \ {0} /\ Marks \subseteq {"retrying", "resolved", "archived"}

VARIABLES
  status,  \* job |-> "free", "queued", "running", "complete" or "failed"
  try,     \* job |-> ARQ's job_try
  about,   \* job |-> the correlation id of its envelope
  phase,   \* job |-> where execute is
  last,    \* job |-> how its last attempt ended
  alerts,  \* job |-> what its alert hooks were told
  letters  \* dead_letter_record, namespace "jobs": key |-> status

jobvars == <<status, try, about, phase, last, alerts, letters>>

Live(j) == status[j] \in {"queued", "running"}
LetterStatus == {"none", "dead_lettered"} \cup Marks

(* lost: the hook could not write the dead letter.                         *)
Alert == [attempt : 1 .. MaxTries, final : BOOLEAN, lost : BOOLEAN]

(* job_name is the same for all; a second record of a key is refused.      *)
DeadLetterKey == Correlations \X (1 .. MaxTries)

JobTypeOK ==
  /\ status \in [Jobs -> {"free", "queued", "running", "complete", "failed"}]
  /\ try \in [Jobs -> 0 .. MaxTries + 1]
  /\ about \in [Jobs -> Correlations]
  /\ phase \in [Jobs -> {"idle", "running", "succeeded", "retryable", "permanent",
                         "other", "deferring", "raising"}]
  /\ last \in [Jobs -> {"none", "cut", "timeout", "complete", "retryable", "permanent", "other"}]
  /\ alerts \in [Jobs -> SUBSET Alert]
  /\ letters \in [DeadLetterKey -> LetterStatus]
  /\ \A j \in Jobs : status[j] = "running" => try[j] \in 1 .. MaxTries

JobInit ==
  /\ status = [j \in Jobs |-> "free"]
  /\ try = [j \in Jobs |-> 0]
  /\ about \in [Jobs -> Correlations]
  /\ phase = [j \in Jobs |-> "idle"]
  /\ last = [j \in Jobs |-> "none"]
  /\ alerts = [j \in Jobs |-> {}]
  /\ letters = [k \in DeadLetterKey |-> "none"]
-----------------------------------------------------------------------------
Enqueue(j, c) ==
  /\ status[j] = "free"
  /\ status' = [status EXCEPT ![j] = "queued"]
  /\ about' = [about EXCEPT ![j] = c]
  /\ UNCHANGED <<try, phase, last, alerts, letters>>

(* Mutant of Take: the attempts before a crash do not count.               *)
TakeForgets(j) ==
  /\ status[j] = "queued" /\ try[j] < MaxTries
  /\ status' = [status EXCEPT ![j] = "running"]
  /\ try' = [try EXCEPT ![j] = IF last[j] = "cut" THEN @ ELSE @ + 1]
  /\ phase' = [phase EXCEPT ![j] = "running"]
  /\ UNCHANGED <<about, last, alerts, letters>>

Take(j) ==
  /\ status[j] = "queued" /\ try[j] < MaxTries
  /\ status' = [status EXCEPT ![j] = "running"]
  /\ try' = [try EXCEPT ![j] = @ + 1]
  /\ phase' = [phase EXCEPT ![j] = "running"]
  /\ UNCHANGED <<about, last, alerts, letters>>

(* One start more than max_tries: ARQ fails the job without calling it.    *)
Drop(j) ==
  /\ status[j] = "queued" /\ try[j] = MaxTries
  /\ try' = [try EXCEPT ![j] = @ + 1]
  /\ status' = [status EXCEPT ![j] = "failed"]
  /\ UNCHANGED <<about, phase, last, alerts, letters>>

IsFinal(j) == try[j] >= MaxTries

(* Mutant of GivesUp: a permanent error is no reason to.                   *)
GivesUpLast(j) == IsFinal(j)

GivesUp(j) == phase[j] = "permanent" \/ IsFinal(j)

(* The hooks are awaited before the exception leaves execute.  One of them *)
(* dead-letters the job on its last attempt; the insert may raise, because *)
(* the key has a record already or for any error of the database, and what *)
(* a hook raises is only logged.                                           *)
FireAlertHooks(j) ==
  /\ phase[j] \in {"retryable", "permanent"}
  /\ LET final == GivesUp(j)
         key == <<about[j], try[j]>>
     IN \E lost \in {FALSE, final} :
          /\ alerts' = [alerts EXCEPT ![j] =
                          @ \cup {[attempt |-> try[j], final |-> final, lost |-> lost]}]
          /\ letters' = IF final /\ ~ lost /\ letters[key] = "none"
                        THEN [letters EXCEPT ![key] = "dead_lettered"] ELSE letters
  /\ phase' = [phase EXCEPT ![j] = IF phase[j] = "permanent" THEN "raising" ELSE "deferring"]
  /\ UNCHANGED <<status, try, about, last>>

(* The attempt of j is over; the job goes to s.                            *)
Return(j, s, how) ==
  /\ status' = [status EXCEPT ![j] = s]
  /\ phase' = [phase EXCEPT ![j] = "idle"]
  /\ last' = [last EXCEPT ![j] = how]
  /\ UNCHANGED <<try, about, alerts, letters>>

Complete(j) == phase[j] = "succeeded" /\ Return(j, "complete", "complete")
Raise(j) == phase[j] = "raising" /\ Return(j, "failed", "permanent")

(* Retry, on the last attempt as well: ARQ then drops the job.             *)
Defer(j) == phase[j] = "deferring" /\ Return(j, "queued", "retryable")

(* Any other exception passes through execute without a hook being told.   *)
RaiseOther(j) == phase[j] = "other" /\ Return(j, "failed", "other")

(* ARQ cancels the attempt at timeout_seconds, wherever execute is, and    *)
(* fails the job; no except of execute or of the hooks stops a             *)
(* CancelledError.                                                         *)
TimeOut(j) == status[j] = "running" /\ Return(j, "failed", "timeout")

(* The worker crashes or shuts down.                                       *)
Interrupt(j) == status[j] = "running" /\ Return(j, "queued", "cut")

Ends(j) ==
  FireAlertHooks(j) \/ Complete(j) \/ Raise(j) \/ Defer(j) \/ RaiseOther(j)

(* mark_retrying, mark_resolved, mark_archived: whatever the status was.   *)
Triage(k, s) ==
  /\ letters[k] \notin {"none", s}
  /\ letters' = [letters EXCEPT ![k] = s]
  /\ UNCHANGED <<status, try, about, phase, last, alerts>>

(* replay_dead_lettered_job passes payload= and correlation_id= where      *)
(* execute takes an envelope: the call itself raises TypeError, so the job *)
(* fails on its first attempt and run never sees it.                       *)
ReplayLetter(k, j) ==
  /\ letters[k] # "none"
  /\ status[j] = "free"
  /\ status' = [status EXCEPT ![j] = "failed"]
  /\ try' = [try EXCEPT ![j] = 1]
  /\ about' = [about EXCEPT ![j] = k[1]]
  /\ last' = [last EXCEPT ![j] = "other"]
  /\ UNCHANGED <<phase, alerts, letters>>

JobNext ==
  \/ \E j \in Jobs : Take(j) \/ Drop(j) \/ Ends(j) \/ TimeOut(j) \/ Interrupt(j)
  \/ \E k \in DeadLetterKey :
       \/ \E s \in Marks : Triage(k, s)
       \/ \E j \in Jobs : ReplayLetter(k, j)
-----------------------------------------------------------------------------
(* A job that is given up after an error its code classified - raised as   *)
(* permanent, or as retryable on what ARQ will find was the last attempt - *)
(* has told its hooks so, and is in the ledger under the key of that       *)
(* attempt unless just that insert failed (execute, IsFinal against ARQ's  *)
(* Drop).  Of an attempt that times out or crashes the hooks hear nothing. *)
GivenUpIsReported ==
  \A j \in Jobs :
    status[j] = "failed" /\ last[j] \in {"retryable", "permanent"} =>
      \E a \in alerts[j] : a.final /\ (a.lost \/ letters[<<about[j], a.attempt>>] # "none")

(* Every queued job ends, however often its worker dies.                   *)
JobsEnd == \A j \in Jobs : status[j] = "queued" ~> status[j] \in {"complete", "failed"}
=============================================================================
