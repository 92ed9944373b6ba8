------------------------------ MODULE MCCanvas ------------------------------
(* Canvas for TLC: the brushes are interchangeable. *)
EXTENDS Canvas

BrushSymmetry == Permutations(Brush)
=============================================================================
