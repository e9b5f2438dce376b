CONSTANTS
  Accounts = {a1, a2}
  Calls = {c1, c2}
  MaxSecrets = 2
  MaxCrashes = 2
SPECIFICATION Spec
CHECK_DEADLOCK FALSE
SYMMETRY Symmetry
INVARIANTS
  OneDefault
  AccountsKeepSecrets
  SecretsAreAccounted
