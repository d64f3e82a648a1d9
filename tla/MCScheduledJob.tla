--------------------------- MODULE MCScheduledJob ---------------------------
(* Instances of ScheduledJob for TLC. *)
EXTENDS ScheduledJob

CONSTANTS w1, w2, w3

MCThreeWorkers == {w1, w2, w3}

(* One host's clock is a tick ahead. *)
MCSkew == [w \in Workers |-> IF w = w1 THEN 1 ELSE 0]
=============================================================================
