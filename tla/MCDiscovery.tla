---------------------------- MODULE MCDiscovery ----------------------------
(***************************************************************************)
(* Three switches in a line, with and without a foreign device at the end. *)
(***************************************************************************)
EXTENDS Discovery

MCTargets == <<"SW1", "SW2", "SW3">>
MCTwo     == <<"SW1", "SW2">>
MCThreeSw == {"SW1", "SW2", "SW3"}
MCTwoSw   == {"SW1", "SW2"}
MCReads   == <<"bridges", "lldp">>
MCDocs    == <<"topology", "capabilities">>

Line(s, foreign) ==
  [n \in s |-> CASE n = "SW1" -> {"SW2"}
                 [] n = "SW2" -> {"SW1"} \cup ({"SW3"} \cap s) \cup foreign
                 [] n = "SW3" -> {"SW2"}]
MCWirings3 == {Line(MCThreeSw, {}), Line(MCThreeSw, {"foreign"})}
MCWirings2 == {Line(MCTwoSw, {}), Line(MCTwoSw, {"foreign"})}
=============================================================================
