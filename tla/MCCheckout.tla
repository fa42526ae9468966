------------------------------ MODULE MCCheckout ------------------------------
(* A small instance of Checkout: one customer who can pay for one purchase,  *)
(* so that concurrent requests compete for the balance, and one adjustment   *)
(* that may make it two purchases or none.                                   *)
EXTENDS Checkout

CONSTANTS u1, r1, r2

MCOpening == [u \in EndUsers |-> 2]
=============================================================================
