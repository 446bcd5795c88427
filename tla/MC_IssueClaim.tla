--------------------------- MODULE MC_IssueClaim ---------------------------
(* Instances of IssueClaim for TLC: every claim is made by an agent of its  *)
(* own, so that claims and agents are permuted together.                    *)
EXTENDS IssueClaim, TLC

OwnAgent == [c \in Claims |-> c]
Symmetry == Permutations(Claims)
=============================================================================
