---------------------------- MODULE MCProposals ----------------------------
(* Small instances of Proposals for TLC. *)
EXTENDS Proposals, TLC

Symmetry == Permutations(Clients)
=============================================================================
