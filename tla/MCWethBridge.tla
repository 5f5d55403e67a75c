---------------------------- MODULE MCWethBridge ----------------------------
(* Instances of WethBridge for TLC. *)
EXTENDS WethBridge
=============================================================================
