---------------------------- MODULE Subsequences ----------------------------
(* The entries of a sequence that a loop keeps, in their order.             *)
EXTENDS Naturals, Sequences, FiniteSets

\* How many of a set of numbers are not above one of them, and the one with n such.
Rank(places, i) == Cardinality({j \in places : j <= i})
Nth(places, n) == CHOOSE i \in places : Rank(places, i) = n

\* What a sequence holds at some of its places.
Picked(s, places) == [n \in 1 .. Cardinality(places) |-> s[Nth(places, n)]]
=============================================================================
