-------------------------- MODULE MC_GovernedPlan --------------------------
(* Instances of GovernedPlan for TLC. *)
EXTENDS GovernedPlan, TLC

CONSTANTS p1, p2, c1, c2

PlanSymmetry == Permutations(Procs) \cup Permutations(Calls)
============================================================================
