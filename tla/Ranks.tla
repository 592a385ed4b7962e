------------------------------- MODULE Ranks -------------------------------
(***************************************************************************)
(* Sequences in the order of numbers, as sort and filter leave them.       *)
(***************************************************************************)
EXTENDS Integers, Sequences, FiniteSets

Before(sort, a, b) == IF sort = "asc" THEN a < b ELSE a > b
Rank(S, sort, k) == Cardinality({j \in S : Before(sort, j, k)})

\* The numbers of a set in the order asked for: each has its rank.
Sorted(S, sort) == [i \in 1 .. Cardinality(S) |-> CHOOSE k \in S : Rank(S, sort, k) = i - 1]

\* What s has at the positions S.
Selected(s, S) == LET at == Sorted(S, "asc") IN [i \in 1 .. Cardinality(S) |-> s[at[i]]]
=============================================================================
