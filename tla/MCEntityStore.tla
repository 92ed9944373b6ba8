---------------------------- MODULE MCEntityStore ----------------------------
(* Symmetry for TLC. *)
EXTENDS EntityStore, TLC

Symmetry == Permutations(Entity \ {Root}) \cup Permutations(Comp)
=============================================================================
