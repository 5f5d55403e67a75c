CONSTANTS
  std = std
  cust = cust
  std2 = std2
  cust2 = cust2
  ta = ta
  tb = tb
  adm = adm
  Tokens = {ta}
  ArbEnabled = {ta}
  Gateways = {std, cust}
  L2Gateways = {std2, cust2}
  Counterpart <- CounterpartOf
  Handled <- AllHandled
  Admins = {adm}
  ZERO = ZERO
  DISABLED = DISABLED
  Default = Default
  MaxUpdates = 3
  MaxDeposits = 2
SPECIFICATION FairSpec
INVARIANTS RoutersAgree EachGatewayBacked
PROPERTIES OwnerlessRoutesStand TransfersSettle
CHECK_DEADLOCK FALSE
