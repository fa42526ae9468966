------------------------------- MODULE Purchase -------------------------------
(***************************************************************************)
(* What buying a plan from the wallet promises a customer: a request is    *)
(* charged before anything is delivered, and a charge is answered by the   *)
(* service or by the money, never by both and never twice.                 *)
(***************************************************************************)
CONSTANT Requests

VARIABLE phase    \* how far each request has come

Phases == {"open", "charged", "delivered", "refunded"}

Init == phase = [r \in Requests |-> "open"]

Charge(r) ==
  phase[r] = "open" /\ phase' = [phase EXCEPT ![r] = "charged"]

Deliver(r) ==
  phase[r] = "charged" /\ phase' = [phase EXCEPT ![r] = "delivered"]

Refund(r) ==
  phase[r] = "charged" /\ phase' = [phase EXCEPT ![r] = "refunded"]

Next == \E r \in Requests : Charge(r) \/ Deliver(r) \/ Refund(r)

Spec == Init /\ [][Next]_phase
=============================================================================
