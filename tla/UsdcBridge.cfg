CONSTANTS
  adm = adm
  Amounts = {1, 2}
  Wallet = 3
  Admins = {adm}
  NoAdmin = NoAdmin
  MaxMessages = 3
SPECIFICATION FairSpec
INVARIANTS Conservation ExitsStayPayable
PROPERTIES TransfersSettle
