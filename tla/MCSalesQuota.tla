---------------------------- MODULE MCSalesQuota -----------------------------
(* TLC instance of SalesQuota. *)
EXTENDS SalesQuota, TLC

Symmetric == Permutations(Accounts) \cup Permutations(Runs)
=============================================================================
