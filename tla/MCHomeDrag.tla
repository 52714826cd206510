----------------------------- MODULE MCHomeDrag -----------------------------
(* HomeDrag for TLC: the applications are interchangeable. *)
EXTENDS HomeDrag

Symmetry == Permutations(Apps)
=============================================================================
