----------------------------- MODULE MCCampaign -----------------------------
(***************************************************************************)
(* Constants for checking Campaign: one QoS mode with one unloaded point,  *)
(* with two of them, or with an unloaded and a loaded one.                 *)
(***************************************************************************)
EXTENDS Campaign

MCIdle == <<0>>
MCUnloaded == <<0, 0>>
MCLoads == <<0, 50>>
MCDot1p == <<"dot1p">>
=============================================================================
