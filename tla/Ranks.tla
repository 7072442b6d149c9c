-------------------------------- MODULE Ranks --------------------------------
(***************************************************************************)
(* Numbering the elements of a finite set of positions from the first on.  *)
(***************************************************************************)
EXTENDS FiniteSets, Integers

\* How many elements of S are at k or before it: the number of k in S.
Rank(S, k) == Cardinality({j \in S : j <= k})

\* The elements of S, from the first on.
InOrder(S) == [n \in 1..Cardinality(S) |-> CHOOSE k \in S : Rank(S, k) = n]

=============================================================================
