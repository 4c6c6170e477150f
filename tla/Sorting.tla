------------------------------ MODULE Sorting -------------------------------
(* slice::sort_by of the standard library, as the scheduler and the bucket   *)
(* list use it.                                                              *)
EXTENDS Integers, FiniteSets

\* S sorted by a strict total order, a set of pairs: the place of an element
\* is the number of elements before it.
sort_by(S, order) ==
    [p \in 1 .. Cardinality(S) |->
        CHOOSE x \in S : Cardinality({y \in S : <<y, x>> \in order}) = p - 1]
=============================================================================
