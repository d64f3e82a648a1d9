------------------------------- MODULE Inbox -------------------------------
(***************************************************************************)
(* What webhook intake promises a provider and the workers, as if each     *)
(* delivery were judged in one step: it gets one verdict, of several with  *)
(* one key at most one is accepted, one is a repetition only of what has   *)
(* been accepted, and the job of what is accepted was handed over before.  *)
(* A worker may look for the event too early, but never sees half of it.   *)
(***************************************************************************)
CONSTANT Requests

VARIABLES
  key,      \* delivery |-> what it may be accepted once for; it never changes
  kin,      \* delivery |-> the deliveries it may be a repetition of; the same
  verdict,  \* delivery |-> "none", "accepted", "duplicate" or "declined"
  handed,   \* deliveries whose job has been handed over
  seen      \* delivery |-> "none", or what its job found: "missing" or "there"

vars == <<key, kin, verdict, handed, seen>>
identity == <<key, kin>>

Init ==
  /\ verdict = [r \in Requests |-> "none"]
  /\ handed = {}
  /\ seen = [r \in Requests |-> "none"]

Judge(r, v) ==
  /\ verdict[r] = "none"
  /\ verdict' = [verdict EXCEPT ![r] = v]
  /\ UNCHANGED <<identity, handed, seen>>

Accept(r) ==
  /\ r \in handed
  /\ \A s \in Requests : verdict[s] = "accepted" => key[s] # key[r]
  /\ Judge(r, "accepted")

Repeat(r) ==
  /\ \E s \in kin[r] : verdict[s] = "accepted"
  /\ Judge(r, "duplicate")

(* It is no good, or something broke: the provider may send it again. *)
Decline(r) == Judge(r, "declined")

HandOver(r) ==
  /\ verdict[r] = "none"
  /\ handed' = handed \cup {r}
  /\ UNCHANGED <<identity, verdict, seen>>

Look(r) ==
  /\ r \in handed /\ seen[r] = "none"
  /\ seen' = [seen EXCEPT ![r] = IF verdict[r] = "accepted" THEN "there" ELSE "missing"]
  /\ UNCHANGED <<identity, verdict, handed>>

Next == \E r \in Requests : Accept(r) \/ Repeat(r) \/ Decline(r) \/ HandOver(r) \/ Look(r)

Spec == Init /\ [][Next]_vars
=============================================================================
