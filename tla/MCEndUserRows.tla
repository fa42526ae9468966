----------------------------- MODULE MCEndUserRows -----------------------------
(* A small instance of EndUserRows: one customer, two handler runs, a wallet *)
(* adjustment and an admin who blocks and unblocks.                          *)
EXTENDS EndUserRows

CONSTANTS u1, t1, t2

MCOpening == [u \in EndUsers |-> 1]
=============================================================================
