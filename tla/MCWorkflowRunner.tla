-------------------------- MODULE MCWorkflowRunner --------------------------
(* Instances of WorkflowRunner for TLC. *)
EXTENDS WorkflowRunner

MCCompensable == {1, 3}
MCMaxAttempts == [s \in Steps |-> IF s = 2 THEN 1 ELSE 2]

(* Branches that only go forward: step 1 may jump over step 2, step 2 may  *)
(* name a step that does not exist.                                        *)
MCForward == [s \in Steps |-> CASE s = 1 -> {3} [] s = 2 -> {UnknownStep} [] OTHER -> {}]
=============================================================================
