----------------------------- MODULE Subsequences -----------------------------
(* What remains of a sequence when a filter or an expiry drops elements. *)
EXTENDS Integers, Sequences, FiniteSets

\* The place in I, in ascending order, that is the n-th.
Nth(I, n) == CHOOSE i \in I : Cardinality({j \in I : j <= i}) = n

\* The elements of s whose places are in I, in their order.
Picked(s, I) == [n \in 1..Cardinality(I) |-> s[Nth(I, n)]]
================================================================================
