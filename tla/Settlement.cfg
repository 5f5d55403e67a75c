CONSTANTS
  alice = alice
  bob = bob
  t1 = t1
  t2 = t2
  x1 = x1
  x2 = x2
  Users = {alice, bob}
  L1Tokens = {t1}
  L2Tokens = {x1}
  Zero = Zero
  NoCode = NoCode
  NotArbToken = NotArbToken
  Admins = {alice}
  Amounts = {2}
  WithdrawAmounts = {1}
  MaxAmount = 2
  InitialBalance = 2
  TransferFee <- UnitFee
  ArbEnabled = {t1}
  TradedExits = {0}
  MaxTickets = 3
  MaxExits = 1
  TicketsExpire = TRUE
SPECIFICATION FairSpec
INVARIANTS OnlyHoldersTradeExits
PROPERTIES ImplementsCanonicalBridge EventuallySettled
