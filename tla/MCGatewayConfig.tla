-------------------------- MODULE MCGatewayConfig --------------------------
(* Instances of GatewayConfig for TLC: an onboarding window of two boots   *)
(* and enough boots to open it, spend it, close it and come back once more. *)
EXTENDS GatewayConfig
CONSTANTS s0, s1   \* two contents of the settings section

MCSettings == {s0, s1}
=============================================================================
