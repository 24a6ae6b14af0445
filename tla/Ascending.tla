------------------------------ MODULE Ascending ------------------------------
(***************************************************************************)
(* Sorting a finite set of numbers, as Vec::sort does for positions in an  *)
(* order.                                                                  *)
(***************************************************************************)
EXTENDS Naturals, FiniteSets

\* The members of S in ascending order.
Sorted(S) ==
    CHOOSE q \in [1..Cardinality(S) -> S] : \A i, j \in 1..Cardinality(S) : i < j => q[i] < q[j]
=============================================================================
