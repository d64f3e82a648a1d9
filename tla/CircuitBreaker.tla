--------------------------- MODULE CircuitBreaker ---------------------------
(***************************************************************************)
(* integrations/http_client/circuit_breaker.py: one CircuitBreaker shared  *)
(* by concurrent calls of an adapter.  A call is check, then the request   *)
(* (an await, so other calls run meanwhile), then record_success or        *)
(* record_failure.                                                         *)
(*                                                                         *)
(* since is the time since _last_failure_time, up to RecoveryTimeout, and  *)
(* failure_count stops at FailureThreshold: no comparison of the code      *)
(* tells larger values apart.                                              *)
(***************************************************************************)
EXTENDS Naturals

CONSTANTS
  Calls,             \* concurrent callers
  FailureThreshold,  \* config.failure_threshold
  RecoveryTimeout    \* config.recovery_timeout_seconds

ASSUME BreakerAssumption ==
  /\ FailureThreshold \in Nat \ {0}
  /\ RecoveryTimeout \in Nat \ {0}

VARIABLES
  _state,         \* "closed", "open" or "half_open"
  failure_count,  \* _failure_count, up to FailureThreshold
  since,          \* ticks since the last failure, up to RecoveryTimeout
  in_flight       \* calls that were admitted and have no answer yet

vars == <<_state, failure_count, since, in_flight>>

Init ==
  /\ _state = "closed"
  /\ failure_count = 0
  /\ since = RecoveryTimeout
  /\ in_flight = {}

(* Mutant of Recovered: the recovery timeout is not waited for. *)
RecoveredAtOnce == _state = "open"

(* The state property: reading it turns OPEN into HALF_OPEN when due.      *)
Recovered == _state = "open" /\ since >= RecoveryTimeout

StateNow == IF Recovered THEN "half_open" ELSE _state

(* Any other reader of the property: diagnostics, metrics. *)
ReadState ==
  /\ _state' = StateNow
  /\ UNCHANGED <<failure_count, since, in_flight>>

(* Mutant of Check: a rejected call counts as a failure in time. *)
CheckPostpones(c) ==
  /\ c \notin in_flight
  /\ _state' = StateNow
  /\ IF StateNow = "open"
     THEN since' = 0 /\ UNCHANGED in_flight
     ELSE in_flight' = in_flight \cup {c} /\ UNCHANGED since
  /\ UNCHANGED failure_count

(* check raises HttpCircuitOpenError when the state it reads is OPEN; any  *)
(* other state lets the call through.                                      *)
Check(c) ==
  /\ c \notin in_flight
  /\ _state' = StateNow
  /\ IF StateNow = "open"
     THEN UNCHANGED in_flight
     ELSE in_flight' = in_flight \cup {c}
  /\ UNCHANGED <<failure_count, since>>

Answered(c) ==
  /\ c \in in_flight
  /\ in_flight' = in_flight \ {c}

RecordSuccess(c) ==
  /\ Answered(c)
  /\ failure_count' = 0
  /\ _state' = "closed"
  /\ UNCHANGED since

Counted == IF failure_count < FailureThreshold THEN failure_count + 1
           ELSE FailureThreshold

RecordFailure(c) ==
  /\ Answered(c)
  /\ failure_count' = Counted
  /\ since' = 0
  /\ _state' = IF _state = "half_open" \/ Counted >= FailureThreshold
               THEN "open" ELSE _state

(* A call that is cancelled, or whose error its adapter does not record.   *)
Unrecorded(c) ==
  /\ Answered(c)
  /\ UNCHANGED <<_state, failure_count, since>>

(* reset sets _last_failure_time to zero: long ago. *)
Reset ==
  /\ _state' = "closed"
  /\ failure_count' = 0
  /\ since' = RecoveryTimeout
  /\ UNCHANGED in_flight

Tick ==
  /\ since < RecoveryTimeout
  /\ since' = since + 1
  /\ UNCHANGED <<_state, failure_count, in_flight>>

Next ==
  \/ \E c \in Calls : Check(c) \/ RecordSuccess(c) \/ RecordFailure(c) \/ Unrecorded(c)
  \/ ReadState
  \/ Reset
  \/ Tick

Spec == Init /\ [][Next]_vars

-----------------------------------------------------------------------------
TypeOK ==
  /\ _state \in {"closed", "open", "half_open"}
  /\ failure_count \in 0 .. FailureThreshold
  /\ since \in 0 .. RecoveryTimeout
  /\ in_flight \in SUBSET Calls

(* Whatever the order of answers, late ones included, the breaker is       *)
(* closed exactly while the run of failures is short of the threshold: it  *)
(* never opens early, and never stays closed over a full run of failures.  *)
ClosedBelowThreshold ==
  _state = "closed" <=> failure_count < FailureThreshold

(* After a full run of failures no call is let through before the last of  *)
(* these failures - a late one from before the opening too - is            *)
(* RecoveryTimeout old.                                                    *)
CoolsDown ==
  [][\A c \in Calls : c \notin in_flight /\ c \in in_flight'
       => failure_count < FailureThreshold \/ since >= RecoveryTimeout]_vars

(* An open breaker does not stay open for good while calls are attempted.  *)
Recovers == _state = "open" ~> _state # "open"

(* The inductive invariant: half open means that the recovery timeout has  *)
(* passed since every failure.                                             *)
IInv ==
  /\ ClosedBelowThreshold
  /\ _state = "half_open" => since >= RecoveryTimeout

=============================================================================
