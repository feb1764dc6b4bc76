---------------------------- MODULE MCConnTable ----------------------------
(* The instance of ConnTable that TLC checks. *)
EXTENDS ConnTable, TLC

(* Connections, descriptors and loops are interchangeable. *)
Symmetry == Permutations(Conns) \cup Permutations(Fds) \cup Permutations(Loops)
============================================================================
