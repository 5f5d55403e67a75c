---------------------------- MODULE MCUsdcBridge ----------------------------
(* Instances of UsdcBridge for TLC. *)
EXTENDS UsdcBridge

CONSTANT adm
=============================================================================
