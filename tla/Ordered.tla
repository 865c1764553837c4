------------------------------ MODULE Ordered ------------------------------
(* Positions in their order, and the parts of a sequence at some of them.   *)
EXTENDS Naturals, Sequences, FiniteSets

IsList(s) == s \in Seq({s[i] : i \in DOMAIN s})

(* The elements of a finite set of numbers, the smallest first: the one at  *)
(* k has k elements up to it.                                               *)
Ascending(S) ==
    [k \in 1..Cardinality(S) |-> CHOOSE x \in S : Cardinality({y \in S : y <= x}) = k]

(* What s has at the positions K.                                           *)
Picked(s, K) == [k \in 1..Cardinality(K) |-> s[Ascending(K)[k]]]
=============================================================================
