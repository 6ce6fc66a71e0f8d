----------------------------- MODULE Enumeration -----------------------------
(***************************************************************************)
(* A finite set put in order, a selection from a sequence and a sum, by    *)
(* counting.  They do what SetToSortSeq, SelectSeq and MapThenSumSet do    *)
(* and are defined without recursion and without operator parameters, so   *)
(* that EnumerationProofs can say what they return for every set.          *)
(***************************************************************************)
EXTENDS Naturals, Sequences, FiniteSets

\* R, a set of pairs, orders the members of S, no two of them alike.
StrictlyOrders(R, S) ==
  /\ \A x \in S : <<x, x>> \notin R
  /\ \A x, y, z \in S : <<x, y>> \in R /\ <<y, z>> \in R => <<x, z>> \in R
  /\ \A x, y \in S : x # y => <<x, y>> \in R \/ <<y, x>> \in R

\* How many members of S come before x.
Rank(S, R, x) == Cardinality({y \in S : <<y, x>> \in R})

\* The members of S, the first of R first.
Enumerate(S, R) == [k \in 1..Cardinality(S) |-> CHOOSE x \in S : Rank(S, R, x) = k - 1]

Ascending(T) == {pair \in T \X T : pair[1] < pair[2]}

\* The elements of s at the positions T, in their order.
Picked(s, T) == [k \in 1..Cardinality(T) |-> s[Enumerate(T, Ascending(T))[k]]]

\* As many units of each member of S as f says.
Units(f, S) == UNION {{x} \X (1..f[x]) : x \in S}

\* The sum of the numbers f[x] over S.
SumOf(f, S) == Cardinality(Units(f, S))
=============================================================================
