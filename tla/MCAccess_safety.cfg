SPECIFICATION BoundedSpec
CONSTANTS
  Browsers = {b1, b2}
  MaxAccounts = 2
  MaxSecrets = 4
  b1 = b1
  b2 = b2
SYMMETRY Symmetry
INVARIANTS
  DelegationStands
  ConnectedOnce
  SessionProven
CHECK_DEADLOCK FALSE
