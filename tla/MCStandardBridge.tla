-------------------------- MODULE MCStandardBridge --------------------------
(* Instances of StandardBridge for TLC. *)
EXTENDS StandardBridge, TLC

CONSTANTS ta, tb

OneTokenWithFee == (ta :> 1) @@ (tb :> 0)
=============================================================================
