-------------------------------- MODULE Common --------------------------------
(***************************************************************************)
(* What the component models of this project share: the value of a field,  *)
(* row or reply that is not there, and the rows of a table that a query    *)
(* keeps.                                                                  *)
(***************************************************************************)
EXTENDS Naturals, FiniteSets

CONSTANT None

\* The elements at some places, in their order.
PickedFrom(series, places) ==
    [n \in 1..Cardinality(places) |->
        series[CHOOSE i \in places : Cardinality({j \in places : j < i}) = n - 1]]
=============================================================================
