CONSTANTS
  Amounts = {1, 2}
  EthOnL1 = 4
  MaxMessages = 4
SPECIFICATION WethFairSpec
INVARIANTS FullyCollateralized
PROPERTIES WethTransfersSettle
CHECK_DEADLOCK FALSE
