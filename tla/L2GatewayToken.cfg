CONSTANTS
  Accounts = {alice, bob}
  Spenders = {bob}
  Amounts = {1, 2}
  MaxUint = 3
  MaxGranted = 4
  MaxNonce = 1
SPECIFICATION Spec
INVARIANTS SupplyIsSum SpendingGranted OnePermitPerNonce
