------------------------------- MODULE Tally -------------------------------
(* Sums, without an order in which to add: how many items there are if     *)
(* there are f[s] of every s.                                              *)
EXTENDS Integers, FiniteSets

Items(f) == UNION {{s} \X (1..f[s]) : s \in DOMAIN f}

Total(f) == Cardinality(Items(f))

=============================================================================
