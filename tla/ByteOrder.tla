----------------------------- MODULE ByteOrder -------------------------------
(***************************************************************************)
(* The order of byte slices and of strings: lexicographic, a proper prefix *)
(* first.  Bytes are natural numbers.                                      *)
(***************************************************************************)
EXTENDS Integers, Sequences

Before(a, b) ==
    \E i \in 0..Len(a) :
        /\ i <= Len(b)
        /\ \A j \in 1..i : a[j] = b[j]
        /\ IF i = Len(a) THEN i < Len(b) ELSE i < Len(b) /\ a[i + 1] < b[i + 1]
=============================================================================
