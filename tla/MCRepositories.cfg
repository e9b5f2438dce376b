CONSTANTS
  Paths = {"f", "g"}
  Contents = {1, 2}
  Dashed = {2}
  Dirs = {"outer", "home", "a", "b", "c", "d", "e"}
  Children <- MCChildren
  Excluded = {"e"}
  ScanDepth = 2
  EntryLimit = 7
  Calls = {c1}
  Workers = {w1}
  Roots = {"home", "e"}
  Disks <- MCDisks
  Trees <- MCTrees
  Opened = {"a"}
  Edits <- MCEdits
  Requests = {{}, {"f"}}
  ReadLimit = 1
  MaxCalls = 1
  MaxScans = 1
  MaxEdits = 1
  MaxTicks = 1
  DefaultExcludes <- MCDefaultExcludes
  Devices <- MCDevices
  Letters = {"n", "u"}
  Upper <- MCUpper
  MaxDepth = 2
  MaxLines = 6
  MaxBytes = 8
  Header <- MCHeader
SPECIFICATION RepositoriesSpec
CHECK_DEADLOCK FALSE
INVARIANTS
  StoredIsCurrent
  DiffNamesTheSelection
  ScanIsComplete
  HoldersAreAtWork
