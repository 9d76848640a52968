------------------------------- MODULE MCRaft -------------------------------
(* Raft on small clusters: servers are interchangeable. *)
EXTENDS Raft

Symmetry == Permutations(Server)
=============================================================================
