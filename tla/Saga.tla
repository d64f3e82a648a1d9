-------------------------------- MODULE Saga --------------------------------
(***************************************************************************)
(* What the saga pattern of core/worker/workflow.py promises, without      *)
(* sessions, attempts or clocks: a set of steps goes forward until it is   *)
(* committed or some step gives up; from then on nothing goes forward, and *)
(* the saga may only be reported failed once every completed step that can *)
(* be compensated has had its compensation called, the latest step first.  *)
(***************************************************************************)
EXTENDS Naturals

CONSTANTS Steps, Compensable

VARIABLES
  phase,   \* "forward", "undoing", "committed" or "aborted"
  done,    \* the steps whose execute succeeded
  undone   \* the steps whose compensate was called

vars == <<phase, done, undone>>

Init ==
  /\ phase = "forward"
  /\ done = {}
  /\ undone = {}

Do(s) ==
  /\ phase = "forward"
  /\ done' = done \cup {s}
  /\ UNCHANGED <<phase, undone>>

(* The step that completes the saga may be one that was skipped. *)
Commit ==
  /\ phase = "forward"
  /\ phase' = "committed"
  /\ \/ UNCHANGED done
     \/ \E s \in Steps : done' = done \cup {s}
  /\ UNCHANGED undone

Undo(s) ==
  /\ phase \in {"forward", "undoing"}
  /\ s \in Compensable \ undone
  /\ \A t \in (done \cap Compensable) \ undone : t <= s
  /\ phase' = "undoing"
  /\ undone' = undone \cup {s}
  /\ UNCHANGED done

Abort ==
  /\ phase \in {"forward", "undoing"}
  /\ done \cap Compensable \subseteq undone
  /\ phase' = "aborted"
  /\ UNCHANGED <<done, undone>>

Next ==
  \/ \E s \in Steps : Do(s) \/ Undo(s)
  \/ Commit
  \/ Abort

Spec == Init /\ [][Next]_vars
=============================================================================
