-------------------------------- MODULE Places --------------------------------
(***************************************************************************)
(* Lists are filtered by the places that stay: those of the list, in order. *)
(***************************************************************************)
EXTENDS Naturals, FiniteSets

\* The members of a finite set of places, ascending.
InOrder(S) ==
  [n \in 1..Cardinality(S) |-> CHOOSE k \in S : Cardinality({j \in S : j <= k}) = n]
=============================================================================
