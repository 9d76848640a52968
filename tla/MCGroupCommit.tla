---------------------------- MODULE MCGroupCommit ----------------------------
(* GroupCommit on small instances: the producers are interchangeable. *)
EXTENDS GroupCommit, TLC

Symmetry == Permutations(Producers)
=============================================================================
