------------------------------ MODULE MCReads ------------------------------
(* Small instances of Reads for TLC. *)
EXTENDS Reads, TLC

Symmetry == Permutations(Readers) \cup Permutations(Keys)
=============================================================================
