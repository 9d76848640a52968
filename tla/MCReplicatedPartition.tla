------------------------ MODULE MCReplicatedPartition ------------------------
(* Replicas and writes are interchangeable. *)
EXTENDS ReplicatedPartition, TLC

Symmetry == Permutations(Replica) \cup Permutations(Write)
=============================================================================
