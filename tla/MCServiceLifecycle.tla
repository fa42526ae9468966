-------------------------- MODULE MCServiceLifecycle --------------------------
(* A small instance of ServiceLifecycle: three runs, two of them at a time,   *)
(* around the last day of a plan with two units of traffic.                   *)
EXTENDS ServiceLifecycle, TLC

MCSymmetry == Permutations(Runs)
=============================================================================
