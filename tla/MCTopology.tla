----------------------------- MODULE MCTopology -----------------------------
(***************************************************************************)
(* Two switches, an endpoint at the first and two devices that SYSTEM.md   *)
(* does not list at the second.  One of these is of the switches' vendor.  *)
(* The second switch announces another address than the one listed, and    *)
(* the endpoint another name.                                              *)
(***************************************************************************)
EXTENDS Topology

MCCables == {{<<"SW1", "2">>, <<"SW2", "1">>}, {<<"SW1", "1">>, <<"UP1", "0">>},
             {<<"SW2", "2">>, <<"X", "0">>}, {<<"SW2", "3">>, <<"Y", "0">>}}
MCListed == <<"SW1", "SW2", "UP1">>
MCMac    == [SW1 |-> "k1", SW2 |-> "k9", UP1 |-> "u1", X |-> "k5", Y |-> "y1"]
MCListedMac == [SW1 |-> "k1", SW2 |-> "k2", UP1 |-> "u1"]
MCOui    == [k1 |-> "k", k2 |-> "k", k5 |-> "k", k9 |-> "k", u1 |-> "u", y1 |-> "y"]
MCHost   == [SW1 |-> "SW1", SW2 |-> "kontron", UP1 |-> "box", X |-> "X", Y |-> "Y"]
MCPortId == [p \in {"0", "1", "2", "3"} |->
               CASE p = "0" -> "id0" [] p = "1" -> "id1" [] p = "2" -> "id2" [] OTHER -> "id3"]
MCPaths  == {<<"SW1", "1", "UP1">>, <<"SW2", "1", "UP1">>}
MCForms  == {{"mac", "desc"}, {"mac"}, {"name", "ip", "desc"}, {"name"}}
MCFull   == {{"mac", "name", "desc"}}
=============================================================================
