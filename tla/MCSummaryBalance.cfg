CONSTANTS
  alice = alice
  bob = bob
  Users <- MCUsers
  None = None
  Windows <- MCWindows
  Kinds <- MCKinds
  Balances <- MCBalances
  Now = 5
  Days = 2
  Limit = 1
  MaxAccounts = 2
  MaxRows = 3
SYMMETRY Symmetry
SPECIFICATION Spec
INVARIANTS StoredBalanceIsCurrent
