-------------------------- MODULE MCSigningOrders --------------------------
(* Values for TLC: two orders of one session.                              *)
EXTENDS SigningOrders

CONSTANTS o1, o2, s1

MCSessionOf == (o1 :> s1) @@ (o2 :> s1)
=============================================================================
