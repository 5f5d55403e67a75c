CONSTANTS
  exec = exec
  execAlias = execAlias
  other = other
  otherAlias = otherAlias
  Versions = {1, 2}
  NoVersion = NoVersion
  NoTicket = NoTicket
  Redeemed = Redeemed
  Executors = {exec}
  OtherAccounts = {other}
  ContractOwners = {exec}
  Alias <- AliasOf
  Creator = Creator
  RetryableSender = RetryableSender
  Outsiders = {bot}
  OutsiderArgs <- ForeignArgs
  TemplateSets <- BothVersions
  Overrides <- OtherDeployment
  Ids = {i1, i2}
SPECIFICATION CreationSpec
INVARIANTS FactoryIsCanonical SidesAreWired ReportedIsDeployed WethRouteOnWiredPair
PROPERTIES EventuallyDeployed
