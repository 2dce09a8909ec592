------------------------------- MODULE Positions ------------------------------
(***************************************************************************)
(* Taking elements in their order: what SelectSeq and SetToSortSeq of the  *)
(* libraries do, in terms of what comes before each element, so that facts *)
(* about it can be proved.                                                 *)
(***************************************************************************)
EXTENDS Naturals, Sequences, FiniteSets

\* How many elements of S there are up to n.
Rank(S, n) == Cardinality({m \in S : m <= n})

\* The elements of a set of numbers, the least first.
InOrder(S) == [n \in 1..Cardinality(S) |-> CHOOSE m \in S : Rank(S, m) = n]

\* The elements of a sequence that are at the places in S.
Selected(seq, S) == [n \in 1..Cardinality(S) |-> seq[InOrder(S)[n]]]

=============================================================================
