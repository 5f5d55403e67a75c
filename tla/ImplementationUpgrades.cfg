CONSTANTS
  Contracts = {"RollupAdminFacet", "RollupUserFacet", "Challenge", "L1GatewayRouter"}
  Names = {"RollupAdminFacet", "RollupUserFacet", "Challenge", "L1GatewayRouter", "L2GatewayRouter", "Inbox"}
  Layer = 1
  Signers = {owner, other}
  ProxyAdminOwner = owner
  NoLogic = NoLogic
  NoFile = NoFile
  MaxLogic = 3
SPECIFICATION Spec
INVARIANTS ImplementationsFit NothingForgotten RecordsMatchChain
PROPERTIES OneVerifiedUpgrade
