---------------------------- MODULE MCCliSession ----------------------------
(***************************************************************************)
(* A switch with two ports.  The interface table fits on a screen; the     *)
(* gate table does not and names one port only, so the other one is asked  *)
(* for on its own; the firmware has no stream filters.  One row of most    *)
(* tables is really indented, in different places.                         *)
(***************************************************************************)
EXTENDS CliSession

MCGlobals == <<"interface-status", "tas-status", "psfp-status">>
MCPerPort == <<"tas-status">>
MCPorts   == {"Gi 1/1", "Gi 1/2"}

R(p)  == [port |-> p, deep |-> FALSE]
In(p) == [port |-> p, deep |-> TRUE]
MCRows ==
  [c \in Commands |->
     CASE c.key = "interface-status"          -> <<R("Gi 1/1"), In("Gi 1/2")>>
       [] c.key = "tas-status" /\ c.port = None -> <<R("Gi 1/1"), R(None), In(None)>>
       [] c.key = "psfp-status"               -> << >>
       [] c.port = "Gi 1/1"                   -> <<R(c.port), R(None), R(None)>>
       [] OTHER                               -> <<R(c.port), In(None), R(None)>>]
MCRejected == {[key |-> "psfp-status", port |-> None]}
=============================================================================
