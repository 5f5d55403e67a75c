--------------------------- MODULE MCCustomBridge ---------------------------
(* Instances of CustomBridge for TLC. *)
EXTENDS CustomBridge, TLC

CONSTANTS alice, bob, t1, t2, x1, x2

NoFee == [t \in L1Tokens |-> 0]
UnitFee == [t \in L1Tokens |-> 1]
\* Nothing tells two contracts on L2 apart before they are registered.
L2Symmetry == Permutations(L2Tokens)
=============================================================================
