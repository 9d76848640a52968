------------------------------ MODULE SetOrder ------------------------------
(* Finite sets of numbers in ascending order. *)
EXTENDS Integers, FiniteSets

\* The members of S from the least to the greatest.
Ascending(S) ==
    CHOOSE s \in [1..Cardinality(S) -> S] :
       \A i, j \in 1..Cardinality(S) : i < j => s[i] < s[j]
=============================================================================
