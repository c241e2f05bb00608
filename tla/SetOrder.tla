------------------------------ MODULE SetOrder ------------------------------
(***************************************************************************)
(* Finite sets in an order, for what the code reads one after the other.   *)
(* An order is a relation on the set.                                      *)
(***************************************************************************)
EXTENDS Integers, FiniteSets

\* The k-th element: the one that k elements come up to.
Nth(S, order, k) == CHOOSE x \in S : Cardinality({y \in S : <<y, x>> \in order}) = k

Ascending(S) == {r \in S \X S : r[1] <= r[2]}

\* The order in which nested loops come to pairs of numbers.
NestedOrder(S) ==
  {r \in S \X S : \/ r[1][1] < r[2][1]
                  \/ r[1][1] = r[2][1] /\ r[1][2] <= r[2][2]}

=============================================================================
