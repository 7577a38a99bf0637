------------------------------- MODULE Lists -------------------------------
(***************************************************************************)
(* What a list is after Vec::retain, or a filter: the entries at some of   *)
(* its positions, in the order in which they were.                         *)
(***************************************************************************)
EXTENDS Naturals, Sequences, FiniteSets

\* The position in the list of the n-th entry that is kept.
KeptAt(positions, n) ==
    CHOOSE k \in positions : Cardinality({j \in positions : j <= k}) = n

Retained(list, positions) ==
    [n \in 1 .. Cardinality(positions) |-> list[KeptAt(positions, n)]]
=============================================================================
