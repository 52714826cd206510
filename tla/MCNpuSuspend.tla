---------------------------- MODULE MCNpuSuspend ----------------------------
(* NpuSuspend for TLC: nodes and shells are interchangeable. *)
EXTENDS NpuSuspend, TLC

Symmetry == Permutations(Nodes) \cup Permutations(Shells)
=============================================================================
