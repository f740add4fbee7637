---------------------------- MODULE MCFairQueue ----------------------------
(* Symmetry for model-checking FairQueue. *)
EXTENDS FairQueue, TLC

Symmetry == Permutations(Lanes)
=============================================================================
