CONSTANTS
  Accounts = {a1, a2}
  MaxFaults = 0
  MaxEdits = 2
SPECIFICATION Spec
INVARIANT NoRevokedAccount
CHECK_DEADLOCK FALSE
