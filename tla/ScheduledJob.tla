---------------------------- MODULE ScheduledJob ----------------------------
(***************************************************************************)
(* core/worker/scheduler.py: one ScheduledJob fired by several worker      *)
(* processes.  _execute_wrapper takes a Redis lock that expires, looks at  *)
(* the time of the last run, runs the job and deletes the lock; each await *)
(* in it is a step here.                                                   *)
(*                                                                         *)
(* Time is relative, so that no clock has to be bounded: age counts a      *)
(* worker's ticks since it fired, lock_left those until Redis expires the  *)
(* lock, last_age those since the recorded last run.  Redis stores "1" in  *)
(* the lock; owner and outlived are history.                               *)
(***************************************************************************)
EXTENDS Integers

CONSTANTS
  Workers,
  LockTTL,         \* lock_ttl_seconds
  Timeout,         \* timeout_seconds: ARQ cancels the wrapper at this age
  ReleaseDelay,    \* ticks a cancelled wrapper may take to delete its lock
  DriftTolerance,  \* clock_drift_tolerance_seconds
  Skew,            \* worker |-> how far its clock is ahead
  NoWorker

ASSUME SchedulerAssumption ==
  /\ LockTTL \in Nat \ {0} /\ Timeout \in Nat
  /\ ReleaseDelay \in Nat /\ DriftTolerance \in Nat
  /\ Skew \in [Workers -> Nat]
  /\ NoWorker \notin Workers

VARIABLES
  pc,         \* worker |-> the await its wrapper is suspended at
  age,        \* worker |-> ticks since its scheduled_at
  lock_left,  \* ticks until the lock key expires; 0 when there is no key
  owner,      \* history: who set the lock key last
  outlived,   \* history: a lock has expired under a wrapper still at work,
              \* and no lock was taken since with nobody else at work
  last_age    \* age of the last_run key's timestamp; Forgotten when too old

scheduler_vars == <<pc, age, lock_left, owner, outlived, last_age>>

(* Where a wrapper has taken the lock and not given it back. *)
Holding == {"checking", "recording", "running", "releasing"}

(* Bound on last_age: a run this old no longer matters to any wrapper.     *)
Forgotten == DriftTolerance + Timeout + ReleaseDelay

SchedulerInit ==
  /\ pc = [w \in Workers |-> "idle"]
  /\ age = [w \in Workers |-> 0]
  /\ lock_left = 0
  /\ owner = NoWorker
  /\ outlived = FALSE
  /\ last_age = Forgotten

Go(w, to) == pc' = [pc EXCEPT ![w] = to]

(* ARQ's cron starts the wrapper, which reads the clock. *)
Fire(w) ==
  /\ pc[w] = "idle"
  /\ Go(w, "locking")
  /\ age' = [age EXCEPT ![w] = 0]
  /\ UNCHANGED <<lock_left, owner, outlived, last_age>>

Take(w) ==
  /\ lock_left' = LockTTL
  /\ owner' = w
  /\ outlived' = (outlived /\ \E v \in Workers : pc[v] \in Holding)

(* Mutant of Lock: who is refused the lock releases it, too. *)
LockReleasing(w) ==
  /\ pc[w] = "locking"
  /\ IF lock_left = 0
     THEN Take(w) /\ Go(w, "checking")
     ELSE Go(w, "releasing") /\ UNCHANGED <<lock_left, owner, outlived>>
  /\ UNCHANGED <<age, last_age>>

(* SET NX EX: taken, or skipped_duplicate. *)
Lock(w) ==
  /\ pc[w] = "locking"
  /\ IF lock_left = 0
     THEN Take(w) /\ Go(w, "checking")
     ELSE Go(w, "idle") /\ UNCHANGED <<lock_left, owner, outlived>>
  /\ UNCHANGED <<age, last_age>>

(* scheduled_at minus the recorded timestamp, both by hosts' clocks. *)
Elapsed(w) == last_age - age[w] + Skew[w]

(* Mutant of TooSoon: any earlier run will do. *)
BeforeLastRun(w) == Elapsed(w) < 0

TooSoon(w) == Elapsed(w) < DriftTolerance

(* The drift guard: skipped_clock_drift releases the lock again.           *)
CheckDrift(w) ==
  /\ pc[w] = "checking"
  /\ Go(w, IF DriftTolerance = 0 THEN "running"
           ELSE IF TooSoon(w) THEN "releasing" ELSE "recording")
  /\ UNCHANGED <<age, lock_left, owner, outlived, last_age>>

(* The timestamp written is scheduled_at: the run's start, by w's clock.   *)
RecordRun(w) == last_age' = age[w] - Skew[w]

Record(w) ==
  /\ pc[w] = "recording"
  /\ RecordRun(w)
  /\ Go(w, "running")
  /\ UNCHANGED <<age, lock_left, owner, outlived>>

(* run returned, raised, or was cancelled at the timeout: to the finally.  *)
RunEnds(w) ==
  /\ pc[w] = "running"
  /\ Go(w, "releasing")
  /\ UNCHANGED <<age, lock_left, owner, outlived, last_age>>

(* DEL of the key, whoever set it; an error of Redis is swallowed.         *)
Release(w) ==
  /\ pc[w] = "releasing"
  /\ lock_left' \in {0, lock_left}
  /\ Go(w, "idle")
  /\ UNCHANGED <<age, owner, outlived, last_age>>

(* The wrapper ends where it stands: its process dies, or Redis raises, or *)
(* ARQ cancels it, at an await before the try.  The command it waited for  *)
(* may have reached Redis.                                                 *)
Abandon(w) ==
  /\ pc[w] # "idle"
  /\ Go(w, "idle")
  /\ \/ UNCHANGED <<lock_left, owner, outlived, last_age>>
     \/ pc[w] = "locking" /\ lock_left = 0 /\ Take(w) /\ UNCHANGED last_age
     \/ pc[w] = "recording" /\ RecordRun(w) /\ UNCHANGED <<lock_left, owner, outlived>>
  /\ UNCHANGED age

(* ARQ cancels at Timeout, and the finally takes ReleaseDelay at most.     *)
Deadline(w) == IF pc[w] = "releasing" THEN Timeout + ReleaseDelay ELSE Timeout

Older(a) == IF a < Forgotten THEN a + 1 ELSE a

(* Time passes for the wrappers and the record of the last run. *)
Aging ==
  /\ \A w \in Workers : pc[w] # "idle" => age[w] < Deadline(w)
  /\ age' = [w \in Workers |-> IF pc[w] = "idle" THEN 0 ELSE age[w] + 1]
  /\ last_age' = Older(last_age)
  /\ UNCHANGED <<pc, owner>>

(* Mutant of Tick: SET without EX. *)
TickWithoutExpiry == Aging /\ UNCHANGED <<lock_left, outlived>>

(* ... and for the lock, whether its holder is through or not: nothing     *)
(* relates lock_ttl_seconds to timeout_seconds.                            *)
Tick ==
  /\ Aging
  /\ lock_left' = IF lock_left > 0 THEN lock_left - 1 ELSE 0
  /\ outlived' = \/ outlived
                 \/ lock_left = 1 /\ \E w \in Workers : owner = w /\ pc[w] \in Holding

Proceed(w) ==
  \/ Lock(w)
  \/ CheckDrift(w)
  \/ Record(w)
  \/ RunEnds(w)
  \/ Release(w)

SchedulerNext ==
  \/ \E w \in Workers : Fire(w) \/ Proceed(w) \/ Abandon(w)
  \/ Tick

SchedulerSpec == SchedulerInit /\ [][SchedulerNext]_scheduler_vars

(* Redis answers, run ends or is cancelled, and time passes. *)
SchedulerFairSpec ==
  /\ SchedulerSpec
  /\ \A w \in Workers : WF_scheduler_vars(Proceed(w))
  /\ WF_scheduler_vars(Tick)

-----------------------------------------------------------------------------
SchedulerTypeOK ==
  /\ pc \in [Workers -> {"idle", "locking", "checking", "recording",
                         "running", "releasing"}]
  /\ age \in [Workers -> 0 .. Timeout + ReleaseDelay]
  /\ lock_left \in 0 .. LockTTL
  /\ owner \in Workers \cup {NoWorker}
  /\ outlived \in BOOLEAN
  /\ last_age \in Int /\ last_age <= Forgotten

(* Two workers never run the job at once, whoever crashes, is cancelled or *)
(* loses Redis, unless a lock has expired under a wrapper still at work.   *)
(* Then the late one deletes its successor's lock, that one the lock of    *)
(* the next, and exclusion is back only when a run finds nobody at work.   *)
MutualExclusion ==
  ~ outlived => \A v, w \in Workers : pc[v] = "running" /\ pc[w] = "running" => v = w

(* What the drift guard found is still true when the new timestamp is      *)
(* written, although the two are commands of their own: unless a lock was  *)
(* outlived, a recorded run started DriftTolerance or more, by the hosts'  *)
(* clocks, after the recorded start - not the completion - of the run      *)
(* before it.                                                              *)
RunsKeepApart ==
  [][~ outlived => \A w \in Workers : pc[w] = "recording" /\ pc'[w] = "running"
       => Elapsed(w) >= DriftTolerance]_scheduler_vars

(* Whoever dies, fails or is cancelled, also between SET and try where no  *)
(* finally deletes the key, the lock gets free again and again.            *)
LockNeverStuck == []<>(lock_left = 0)

(* The inductive invariant: unless a lock was outlived, a wrapper past     *)
(* SET NX has the lock, which is still there, and what the drift guard     *)
(* found stays true until the new timestamp is written.                    *)
OwnsLock(w) == pc[w] \in Holding => owner = w /\ lock_left > 0

InTime(w) == pc[w] # "idle" => age[w] <= Deadline(w)

StillApart(w) == pc[w] = "recording" => Elapsed(w) >= DriftTolerance

LockInv ==
  \A w \in Workers : InTime(w) /\ (~ outlived => OwnsLock(w) /\ StillApart(w))

(* Where the lock is given time enough it is never outlived.               *)
TTLCoversTimeout == LockTTL > Timeout + ReleaseDelay

TimeLeft == \A w \in Workers : pc[w] \in Holding => lock_left + age[w] >= LockTTL
=============================================================================
