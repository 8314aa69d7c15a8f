------------------------------ MODULE MCStream ------------------------------
(***************************************************************************)
(* Constants for checking MeasuredStream: every frame timestamped, and one *)
(* in two.                                                                 *)
(***************************************************************************)
EXTENDS MeasuredStream

MCEvery == {1, 2}
MCSampled == {2}
=============================================================================
