CONSTANTS
  Profiles = {p1, p2}
  Repositories = {r1}
  Calls = {c1, c2}
  Names = {"ann"}
  Contents <- MCContents
  MaxEdits = 1
  MaxCrashes = 1
SPECIFICATION Spec
CHECK_DEADLOCK FALSE
SYMMETRY Symmetry
INVARIANTS
  RowsAndFilesAgree
  CommitsKeepTheirIdentity
  NoCircularWait
PROPERTIES
  FailuresRestore
