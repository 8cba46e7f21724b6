------------------------------ MODULE MCGateway -------------------------------
(* A registered agent, an id that is still to be drawn, a caller who is not *)
(* registered, and a request with ids that do not fit in the audit log.     *)
EXTENDS Gateway, TLC

CONSTANTS a1, a2, a3, x, d1, d2, d3, r1, r2, r3

MCDidOf == a1 :> d1
=============================================================================
