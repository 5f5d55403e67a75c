CONSTANTS
  Scripts = {"creator", "usdc"}
  MaxRuns = 2
SPECIFICATION ScriptsSpec
CHECK_DEADLOCK FALSE
INVARIANTS NothingTakenOver RegisteredOnBothSides
PROPERTIES EarlyDepositsMinted
