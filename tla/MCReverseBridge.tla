-------------------------- MODULE MCReverseBridge --------------------------
(* Instances of ReverseBridge for TLC. *)
EXTENDS ReverseBridge
=============================================================================
