------------------------------- MODULE MCTSO -------------------------------
(* Small instances of TSO for TLC. *)
EXTENDS TSO, TLC

Symmetry == Permutations(Clients)
=============================================================================
