------------------------------- MODULE Orders --------------------------------
(* Sorting, as ORDER BY and sorted() do it: `before` is the set of the pairs *)
(* <<x, y>> of members of S where x comes before y.                         *)
EXTENDS Naturals, FiniteSets

Ahead(S, before, x) == {y \in S : <<y, x>> \in before}

InOrder(S, before) ==
  [n \in 1..Cardinality(S) |-> CHOOSE x \in S : Cardinality(Ahead(S, before, x)) = n - 1]
=============================================================================
