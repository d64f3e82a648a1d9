------------------------- MODULE MCIntegrationCalls -------------------------
(* Two tasks of an application, with different patterns of resilience.     *)
EXTENDS IntegrationCalls, TLC

CONSTANTS c1, c2

MCCalls == {c1, c2}
MCKinds == (c1 :> {"saga", "context", "bulk"}) @@ (c2 :> {"read", "deferred"})
=============================================================================
