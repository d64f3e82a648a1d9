--------------------------- MODULE RefreshRotation ---------------------------
(***************************************************************************)
(* What core/security.py and domain/auth_service.py promise of refresh     *)
(* tokens, as a store that trades a token in one step would keep it: a     *)
(* valid token is traded, revoked or expires, a traded one owes one pair,  *)
(* and a spent one never becomes valid again.  Requests, their awaits and  *)
(* the table of revoked tokens are left to the implementation.             *)
(***************************************************************************)
CONSTANT Refresh

VARIABLES
  state,   \* token |-> "none", "valid", "owing", "spent" or "expired"
  parent   \* token |-> the token it was traded for, itself after a login

vars == <<state, parent>>

Init ==
  /\ state = [t \in Refresh |-> "none"]
  /\ parent = [t \in Refresh |-> t]

(* How a token begins: a lifetime of zero is over at once. *)
Fresh == {"valid", "expired"}

Login(t) ==
  /\ state[t] = "none"
  /\ \E fresh \in Fresh : state' = [state EXCEPT ![t] = fresh]
  /\ parent' = [parent EXCEPT ![t] = t]

Move(t, from, to) ==
  /\ state[t] = from
  /\ state' = [state EXCEPT ![t] = to]
  /\ UNCHANGED parent

Trade(t) == Move(t, "valid", "owing")

(* A logout. *)
Revoke(t) == Move(t, "valid", "spent")

(* The rotation is cut off before it has made its pair. *)
Default(t) == Move(t, "owing", "spent")

(* The pair a traded token owes.  One that expires while it is traded is   *)
(* still honoured, and nothing is promised of it.                          *)
Pay(t, new) ==
  /\ state[t] \in {"owing", "expired"} /\ state[new] = "none"
  /\ \E fresh \in Fresh :
       state' = [state EXCEPT ![new] = fresh,
                              ![t] = IF state[t] = "owing" THEN "spent" ELSE "expired"]
  /\ parent' = [parent EXCEPT ![new] = t]

Expire ==
  /\ \E ended \in SUBSET {t \in Refresh : state[t] # "none"} :
       state' = [t \in Refresh |-> IF t \in ended THEN "expired" ELSE state[t]]
  /\ UNCHANGED parent

Next ==
  \/ \E t \in Refresh :
       \/ Login(t) \/ Trade(t) \/ Revoke(t) \/ Default(t)
       \/ \E new \in Refresh : Pay(t, new)
  \/ Expire

Spec == Init /\ [][Next]_vars
=============================================================================
