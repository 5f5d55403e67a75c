---------------------------- MODULE MCOrbitFees ----------------------------
(* Instances of OrbitFees for TLC. *)
EXTENDS OrbitFees
=============================================================================
