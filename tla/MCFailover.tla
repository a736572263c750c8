----------------------------- MODULE MCFailover -----------------------------
(* Small instances of Failover for TLC. *)
EXTENDS Failover, TLC

Members == Permutations(Nodes)
=============================================================================
