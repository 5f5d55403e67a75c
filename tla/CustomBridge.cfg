CONSTANTS
  alice = alice
  bob = bob
  t1 = t1
  t2 = t2
  x1 = x1
  x2 = x2
  Users = {alice}
  L1Tokens = {t1, t2}
  L2Tokens = {x1, x2}
  Zero = Zero
  NoCode = NoCode
  NotArbToken = NotArbToken
  Admins = {alice}
  Amounts = {2}
  WithdrawAmounts = {1}
  MaxAmount = 2
  InitialBalance = 4
  TransferFee <- UnitFee
  ArbEnabled = {t1}
  TradedExits = {}
  MaxTickets = 3
  MaxExits = 1
  TicketsExpire = TRUE
SPECIFICATION Spec
INVARIANTS TypeOK Solvent ExitNumsUnique SelfRegistrationsAgree MintedUnderRegistration
SYMMETRY L2Symmetry
