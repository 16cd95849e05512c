-------------------------- MODULE MCMediaLifecycle --------------------------
(* Instances of MediaLifecycle for TLC. *)
EXTENDS MediaLifecycle, TLC

Symmetry == Permutations(Users) \cup Permutations(Sweepers)
=============================================================================
