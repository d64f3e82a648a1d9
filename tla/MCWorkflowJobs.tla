--------------------------- MODULE MCWorkflowJobs ---------------------------
(* Instances of WorkflowJobs for TLC. *)
EXTENDS WorkflowJobs

MCCompensable == {1, 2}
MCNoOverrides == [s \in Steps |-> {}]
MCJump == [s \in Steps |-> CASE s = 1 -> {3} [] s = 2 -> {1, UnknownStep} [] OTHER -> {}]
MCMixedAttempts == [s \in Steps |-> IF s = 1 THEN 2 ELSE 1]
MCTwoAttempts == [s \in Steps |-> 2]
=============================================================================
