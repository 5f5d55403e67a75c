CONSTANTS
  ta = ta
  tb = tb
  Tokens = {ta, tb}
  Gateway = Gateway
  Outsiders = {bot}
  NoProxy = NoProxy
  Amounts = {1, 2}
  Wallet = 3
  TokenFee <- OneTokenWithFee
  MaxMessages = 3
SPECIFICATION FairSpec
INVARIANTS AuthenticTokens Backed
PROPERTIES TransfersSettle
