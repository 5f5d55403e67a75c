------------------- MODULE MCImplementationUpgrades -------------------
(* Instances of ImplementationUpgrades for TLC. *)
EXTENDS ImplementationUpgrades
=============================================================================
