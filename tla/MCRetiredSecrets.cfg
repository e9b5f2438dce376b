CONSTANTS
  Accounts = {a1}
  Calls = {c1, c2}
  MaxSecrets = 2
  MaxCrashes = 0
SPECIFICATION Spec
CHECK_DEADLOCK FALSE
PROPERTY
  OldReferencesAreRetired
