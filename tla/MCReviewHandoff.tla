-------------------------- MODULE MCReviewHandoff --------------------------
(* Model-checking instance of ReviewHandoff by itself. *)
EXTENDS ReviewHandoff, TLC

Spec == ReviewInit /\ [][ReviewNext]_reviewVars

Symmetry == Permutations(Handoffs)
=============================================================================
