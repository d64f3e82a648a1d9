------------------------- MODULE WebhookProcessing -------------------------
(* The life of a webhook_event row after intake has committed it: the       *)
(* worker job that processes it, its dead letter, the operator's replay and *)
(* the retention cleanup (webhooks/processing.py, dead_letter.py,           *)
(* replay_tooling.py, retention.py).  The processing job is the             *)
(* application's; it is taken to call these parts in the order their        *)
(* docstrings give, with one transaction per attempt.                       *)
EXTENDS JobRetries

CONSTANTS
  Errors,           \* classes of error the handler may raise
  PermanentErrors,  \* decide_retry's permanent_errors
  RetryableErrors,  \* decide_retry's retryable_errors; {} for any
  RetentionDays,    \* WEBHOOK_PAYLOAD_RETENTION_DAYS
  ArchiveDays,      \* WebhookRetentionPolicy.archive_days
  MaxDays,          \* bounds the age of a row
  MaxReplays        \* bounds the operator's replays

ASSUME PolicyAssumption ==
  /\ RetentionDays \in Nat /\ ArchiveDays \in Nat /\ RetentionDays <= ArchiveDays
  /\ MaxDays \in Nat /\ MaxReplays \in Nat

(* An event is known by its correlation id.                                *)
Events == Correlations

VARIABLES
  row,       \* event |-> status of its row, "absent" or "purged"
  raw,       \* event |-> raw_payload is still there
  days,      \* event |-> full days since received_at
  letter,    \* dead_letter_record, namespace "webhooks": event |-> status
  replaying, \* events prepared for replay and not yet enqueued
  replays,   \* how many replays there have been
  done       \* history: events that were once committed as processed

eventvars == <<row, raw, days, letter, replaying, replays, done>>
vars == <<jobvars, eventvars>>

Terminal == {"processed", "failed", "rejected"}

TypeOK ==
  /\ JobTypeOK
  /\ row \in [Events -> {"absent", "purged", "enqueued"} \cup Terminal]
  /\ raw \in [Events -> BOOLEAN]
  /\ days \in [Events -> 0 .. MaxDays]
  /\ letter \in [Events -> LetterStatus]
  /\ replaying \subseteq Events /\ done \subseteq Events
  /\ replays \in 0 .. MaxReplays

Init ==
  /\ JobInit
  /\ row = [e \in Events |-> "absent"]
  /\ raw = [e \in Events |-> FALSE]
  /\ days = [e \in Events |-> 0]
  /\ letter = [e \in Events |-> "none"]
  /\ replaying = {} /\ done = {}
  /\ replays = 0
-----------------------------------------------------------------------------
(* What WebhookIntake leaves behind: the row, and a job that carries the   *)
(* WebhookProcessingJobRequest.                                            *)
Accept(e, j) ==
  /\ row[e] = "absent"
  /\ Enqueue(j, e)
  /\ row' = [row EXCEPT ![e] = "enqueued"]
  /\ raw' = [raw EXCEPT ![e] = TRUE]
  /\ UNCHANGED <<days, letter, replaying, replays, done>>

Phase(j, p) ==
  /\ phase' = [phase EXCEPT ![j] = p]
  /\ UNCHANGED <<status, try, about, last, alerts, letters>>

Exists(e) == row[e] \notin {"absent", "purged"}

(* mark_processed and its commit; the job has yet to return.               *)
Succeed(j) ==
  /\ phase[j] = "running" /\ Exists(about[j])
  /\ row' = [row EXCEPT ![about[j]] = "processed"]
  /\ done' = done \cup {about[j]}
  /\ Phase(j, "succeeded")
  /\ UNCHANGED <<raw, days, letter, replaying, replays>>

(* Mutant of MayRetry: an attempt more than there is.                      *)
MayRetryOnce(attempt, error) ==
  /\ error \notin PermanentErrors
  /\ attempt <= MaxTries
  /\ RetryableErrors = {} \/ error \in RetryableErrors

(* decide_retry says retry; its other answers are all to dead-letter.      *)
MayRetry(attempt, error) ==
  /\ error \notin PermanentErrors
  /\ attempt < MaxTries
  /\ RetryableErrors = {} \/ error \in RetryableErrors

RetryLater(j, error) ==
  /\ phase[j] = "running" /\ Exists(about[j])
  /\ MayRetry(try[j], error)
  /\ Phase(j, "retryable")
  /\ UNCHANGED eventvars

(* mark_failed and the dead letter, in one transaction.                    *)
DeadLetter(j, error) ==
  /\ phase[j] = "running" /\ Exists(about[j])
  /\ ~ MayRetry(try[j], error)
  /\ letter[about[j]] = "none"
  /\ letter' = [letter EXCEPT ![about[j]] = "dead_lettered"]
  /\ row' = [row EXCEPT ![about[j]] = "failed"]
  /\ Phase(j, "permanent")
  /\ UNCHANGED <<raw, days, replaying, replays, done>>

(* The row was purged before the job read it.                              *)
RowMissing(j) ==
  /\ phase[j] = "running" /\ row[about[j]] = "purged"
  /\ Phase(j, "permanent")
  /\ UNCHANGED eventvars

(* Whatever else run may raise, at any point of its one transaction: an    *)
(* error of the database, of a row purged before its UPDATE, of code that  *)
(* raises neither job error, or the IntegrityError of a second dead letter *)
(* (its key is the event, and a replayed event that fails again has one),  *)
(* which takes the failed mark with it.                                    *)
Unclassified(j) ==
  /\ phase[j] = "running"
  /\ Phase(j, "other")
  /\ UNCHANGED eventvars

Run(j) ==
  \/ Succeed(j) \/ RowMissing(j) \/ Unclassified(j)
  \/ \E error \in Errors : RetryLater(j, error) \/ DeadLetter(j, error)
-----------------------------------------------------------------------------
(* prepare_for_replay asks nothing of the event it resets.                 *)
PrepareForReplay(e) ==
  /\ Exists(e) /\ replays < MaxReplays
  /\ row' = [row EXCEPT ![e] = "enqueued"]
  /\ replaying' = replaying \cup {e}
  /\ replays' = replays + 1
  /\ UNCHANGED <<jobvars, raw, days, letter, done>>

(* "The caller is responsible for actually enqueuing."                     *)
EnqueueReplay(e, j) ==
  /\ e \in replaying
  /\ Enqueue(j, e)
  /\ replaying' = replaying \ {e}
  /\ UNCHANGED <<row, raw, days, letter, replays, done>>

TriageEvent(e, s) ==
  /\ letter[e] \notin {"none", s}
  /\ letter' = [letter EXCEPT ![e] = s]
  /\ UNCHANGED <<jobvars, row, raw, days, replaying, replays, done>>

(* Mutant of Scrubbable: the age alone decides.                            *)
ScrubbableByAge(e) == RetentionDays > 0 /\ raw[e] /\ days[e] > RetentionDays

Scrubbable(e) ==
  /\ RetentionDays > 0
  /\ raw[e] /\ row[e] \in Terminal /\ days[e] > RetentionDays

Purgeable(e) == row[e] \in Terminal /\ days[e] > ArchiveDays

(* run_full_cleanup: both statements, one transaction.                     *)
Cleanup ==
  /\ \E e \in Events : Scrubbable(e) \/ Purgeable(e)
  /\ raw' = [e \in Events |-> raw[e] /\ ~ Scrubbable(e) /\ ~ Purgeable(e)]
  /\ row' = [e \in Events |-> IF Purgeable(e) THEN "purged" ELSE row[e]]
  /\ replaying' = {e \in replaying : ~ Purgeable(e)}
  /\ UNCHANGED <<jobvars, days, letter, replays, done>>

Day ==
  /\ \E e \in Events : Exists(e) /\ days[e] < MaxDays
  /\ days' = [e \in Events |-> IF Exists(e) /\ days[e] < MaxDays THEN days[e] + 1 ELSE days[e]]
  /\ UNCHANGED <<jobvars, row, raw, letter, replaying, replays, done>>

Next ==
  \/ JobNext /\ UNCHANGED eventvars
  \/ \E j \in Jobs : Run(j)
  \/ \E e \in Events :
       \/ PrepareForReplay(e)
       \/ \E j \in Jobs : Accept(e, j) \/ EnqueueReplay(e, j)
       \/ \E s \in Marks \ {"retrying"} : TriageEvent(e, s)
  \/ Cleanup \/ Day

Spec == Init /\ [][Next]_vars

(* ARQ starts or drops what is queued, and an attempt comes to its end.    *)
Works(j) == Run(j) \/ ((Take(j) \/ Drop(j) \/ Ends(j)) /\ UNCHANGED eventvars)

FairSpec == Spec /\ \A j \in Jobs : WF_vars(Works(j))
-----------------------------------------------------------------------------
(* An event that is enqueued, has no job left and is not being replayed,    *)
(* has had a job that nobody could report on: one whose last attempt was    *)
(* cut short by a crash or by ARQ's job timeout, or raised neither job      *)
(* error, or was replayed as a job.  No event is stranded by a job that     *)
(* completed, or that gave it up in the regular way, for which decide_retry *)
(* and ARQ have to agree on which attempt is the last.                      *)
NothingStranded ==
  \A e \in Events : row[e] = "enqueued" /\ e \notin replaying =>
    \E j \in Jobs :
      /\ about[j] = e
      /\ \/ Live(j)
         \/ status[j] = "failed" /\ last[j] \in {"cut", "timeout", "other"}

(* Neither the scrubbing of payloads nor the purge takes anything from an  *)
(* event that was never processed and never dead-lettered, although replay *)
(* moves events back and forth (WebhookRetentionPolicy.scrub_statuses).    *)
CleanedIsSettled ==
  \A e \in Events : row[e] # "absent" /\ ~ raw[e] => e \in done \/ letter[e] # "none"

(***************** the inductive invariant of the two above ****************)

(* An attempt is under way exactly while execute is somewhere.             *)
PhaseMatches == \A j \in Jobs : status[j] = "running" <=> phase[j] # "idle"

(* Only an attempt that may be followed by another ends as retryable, so   *)
(* what ARQ drops had its last attempt cut short.                          *)
RetriesAreLeft ==
  \A j \in Jobs :
    /\ phase[j] \in {"retryable", "deferring"} => try[j] < MaxTries
    /\ status[j] = "free" => try[j] = 0 /\ last[j] = "none"
    /\ status[j] = "queued" =>
         \/ last[j] = "none" /\ try[j] = 0
         \/ last[j] = "retryable" /\ try[j] < MaxTries
         \/ last[j] = "cut"

Reported(j) ==
  \E a \in alerts[j] : a.final /\ (a.lost \/ letters[<<about[j], a.attempt>>] # "none")

(* Whoever gives up has reported it before it returns.                     *)
ReportedBeforeReturn ==
  \A j \in Jobs :
    /\ phase[j] = "raising" => Reported(j)
    /\ status[j] = "failed" => last[j] # "retryable" /\ (last[j] = "permanent" => Reported(j))

(* j will come back to event e, or has given it up for a known reason.     *)
Carries(j, e) ==
  /\ about[j] = e
  /\ \/ status[j] = "queued"
     \/ status[j] = "running" /\ phase[j] \in {"running", "retryable", "deferring", "other"}
     \/ status[j] = "failed" /\ last[j] \in {"cut", "timeout", "other"}

OneCarries ==
  \A e \in Events : row[e] = "enqueued" /\ e \notin replaying => \E j \in Jobs : Carries(j, e)

TerminalIsSettled ==
  \A e \in Events : row[e] \in Terminal => e \in done \/ letter[e] # "none"

IInv ==
  /\ TypeOK /\ PhaseMatches /\ RetriesAreLeft /\ ReportedBeforeReturn
  /\ OneCarries /\ TerminalIsSettled /\ CleanedIsSettled
=============================================================================
