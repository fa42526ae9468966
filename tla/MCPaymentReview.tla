---------------------------- MODULE MCPaymentReview ----------------------------
(* A small instance of PaymentReview: two customers and one receipt under    *)
(* concurrent reviews, with a wallet adjustment in between.                  *)
EXTENDS PaymentReview

CONSTANTS u1, u2, p1, v1, v2

MCOpening == [u \in EndUsers |-> 0]
=============================================================================
