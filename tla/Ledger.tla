------------------------------- MODULE Ledger -------------------------------
(***************************************************************************)
(* What a customer wallet promises, whatever the code behind it: a balance *)
(* moves only by posting one entry to the customer's history, the entry    *)
(* says by how much and what is left, and what is left is never negative.  *)
(* The store (module WalletStore) and the modules that compose it are      *)
(* shown to implement this specification.                                  *)
(***************************************************************************)
EXTENDS Integers, Sequences

CONSTANTS
  Users,      \* the customers
  Deltas,     \* the amounts one posting may add or remove
  Memos       \* what a posting is for: a reason and a reference

VARIABLES
  balance,    \* the spendable amount of each customer
  history     \* the postings of each customer, oldest first

ledgerVars == <<balance, history>>

Entries == [delta : Deltas, after : Nat, memo : Memos]

TypeOK ==
  /\ balance \in [Users -> Nat]
  /\ history \in [Users -> Seq(Entries)]

\* A wallet starts empty, or with the one posting that explains its balance.
Opened(u) ==
  \/ balance[u] = 0 /\ history[u] = <<>>
  \/ /\ balance[u] \in Deltas
     /\ \E m \in Memos :
          history[u] = <<[delta |-> balance[u], after |-> balance[u], memo |-> m]>>

Init == TypeOK /\ \A u \in Users : Opened(u)

Post(u, d, m) ==
  LET left == balance[u] + d
  IN  /\ left \in Nat
      /\ balance' = [balance EXCEPT ![u] = left]
      /\ history' = [history EXCEPT
                       ![u] = Append(@, [delta |-> d, after |-> left, memo |-> m])]

Next == \E u \in Users, d \in Deltas, m \in Memos : Post(u, d, m)

Spec == Init /\ [][Next]_ledgerVars

-----------------------------------------------------------------------------
\* The amount that was left before posting i of a history.
Before(h, i) == IF i = 1 THEN 0 ELSE h[i - 1].after

\* Every posting starts from what the previous one left.
Chained(h) == \A i \in 1..Len(h) : h[i].after = Before(h, i) + h[i].delta

\* The balance is what the last posting left.
Explained(h, b) == b = IF h = <<>> THEN 0 ELSE h[Len(h)].after

\* The history accounts for every amount that entered or left the balance.
HistoryExplainsBalance ==
  \A u \in Users : Chained(history[u]) /\ Explained(history[u], balance[u])
=============================================================================
