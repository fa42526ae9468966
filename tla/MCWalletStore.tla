---------------------------- MODULE MCWalletStore ----------------------------
(* A small instance of WalletStore: two customers, one with an opening       *)
(* balance, two payments, and adjustments up to MaxTx rows per customer.     *)
EXTENDS WalletStore

CONSTANTS u1, u2, p1, p2

MCOpening == [u \in EndUsers |-> IF u = u1 THEN 2 ELSE 0]
=============================================================================
