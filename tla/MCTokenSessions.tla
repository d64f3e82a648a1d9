-------------------------- MODULE MCTokenSessions --------------------------
(* Instances of TokenSessions for TLC. *)
EXTENDS TokenSessions, TLC

MCUTC == 0
MCWest == -1

MCSymmetry == Permutations(Refresh) \cup Permutations(Requests)
=============================================================================
