CONSTANTS
  L2Tokens = {x1, x2}
  Zero = Zero
  Amounts = {1, 2}
  MaxSupply = 4
  TransferFee = 1
  MaxMessages = 4
  MaxRegistrations = 2
SPECIFICATION ReverseFairSpec
INVARIANTS BackedOnL2
PROPERTIES ReverseTransfersSettle
CHECK_DEADLOCK FALSE
