------------------------------- MODULE Ranking -------------------------------
(* The elements of a finite set in an order: what Go's sort and a loop     *)
(* that filters a slice make of a set of positions.                        *)
EXTENDS Integers, FiniteSets

(* Before is a strict total order on S: the k-th element has k - 1 before  *)
(* it.                                                                     *)
Ranked(S, Before(_, _)) ==
    [k \in 1..Cardinality(S) |->
        CHOOSE x \in S : Cardinality({y \in S : Before(y, x)}) = k - 1]

(* Numbers from the least to the greatest.                                 *)
Ascending(S) == Ranked(S, LAMBDA i, j : i < j)

=============================================================================
