CONSTANTS
  Users = {alice}
  Contracts = {token, executor}
  UpgradeExecutor = executor
  GatewayAccount = GatewayAccount
  Router = Router
  Fees = {0, 1, 3}
  NativeAmounts = {2}
  Balance = 5
  NativeDecimals = {0, 1, 2, 3}
  EtherDecimals = 2
  GasCosts = {0, 1, 99, 100, 101}
  MaxTickets = 3
SPECIFICATION FeesSpec
INVARIANTS FeesFromCallers ScaledFeesSuffice
CHECK_DEADLOCK FALSE
