------------------------ MODULE MCBridgeCreation ------------------------
(* Instances of BridgeCreation for TLC. *)
EXTENDS BridgeCreation, TLC

CONSTANTS exec, execAlias, other, otherAlias

AliasOf == (exec :> execAlias) @@ (other :> otherAlias)
ForeignArgs == [l1 : {2}, code : {1}, owner : {other}]
BothVersions ==
  {[l1 |-> v, code |-> v, gas |-> (v = 1)] : v \in Versions}
OtherDeployment == {<<2, 1>>}
=============================================================================
