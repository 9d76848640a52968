----------------------------- MODULE MCProducers -----------------------------
EXTENDS Producers, TLC

\* Requests under way are interchangeable.
Symmetry == Permutations(Request)
=============================================================================
