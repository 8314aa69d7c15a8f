------------------------------ MODULE Ordered -------------------------------
(***************************************************************************)
(* What a loop leaves that goes over a list from its beginning and keeps   *)
(* some of the positions.                                                  *)
(***************************************************************************)
EXTENDS Integers, FiniteSets

\* The numbers of a finite set in ascending order.
InOrder(S) ==
  [k \in 1 .. Cardinality(S) |-> CHOOSE i \in S : Cardinality({j \in S : j <= i}) = k]
=============================================================================
