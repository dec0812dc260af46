---------------------------- MODULE Subsequences ----------------------------
(***************************************************************************)
(* What a filter leaves of a sequence, by the places of the elements it    *)
(* lets through.                                                           *)
(***************************************************************************)
EXTENDS Naturals, Sequences, FiniteSets

Places(s, S) == {i \in DOMAIN s : s[i] \in S}

Rank(places, i) == Cardinality({j \in places : j <= i})

Nth(places, n) == CHOOSE i \in places : Rank(places, i) = n

\* The elements of s that are in S, in their order.
Kept(s, S) == [n \in 1..Cardinality(Places(s, S)) |-> s[Nth(Places(s, S), n)]]
=============================================================================
