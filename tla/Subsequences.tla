---------------------------- MODULE Subsequences ----------------------------
(* What is left of a list when some of its entries are taken out of it, in  *)
(* a form the provers can reason about: by positions, without recursion.    *)
EXTENDS Integers, Sequences, FiniteSets

\* The members of a finite set of numbers, from the least to the greatest.
Ascending(I) ==
    CHOOSE f \in [1..Cardinality(I) -> I] :
        \A k, l \in 1..Cardinality(I) : k < l => f[k] < f[l]

\* The entries of s at the positions I, in their order.
At(s, I) == [k \in 1..Cardinality(I) |-> s[Ascending(I)[k]]]

\* s without the entries in R.
Without(s, R) == At(s, {i \in DOMAIN s : s[i] \notin R})
=============================================================================
