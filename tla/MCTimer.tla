------------------------------- MODULE MCTimer ------------------------------
(* The instances of Timer that TLC checks. *)
EXTENDS Timer, TLC

Symmetry == Permutations(Conns) \cup Permutations(Nodes)
=============================================================================
