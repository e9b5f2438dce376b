CONSTANTS
  Calls = {c1, c2}
  Plugins = {p1, p2}
  Accounts = {a1}
  OperationIds = {o1}
  Queries = {"all", "last"}
  Wanted <- MCWanted
  Size <- MCSize
  Layouts <- MCLayouts
  Locals <- MCLocals
  Refusals = {"InvalidResponse"}
  RateStates = {Nothing}
  GlobalLimit = 2
  AccountLimit = 2
  Concurrency = 1
  CursorCapacity = 1
  MaxPages = 2
  MaxAttempts = 2
  MaxCalls = 2
  MaxDrains = 1
  Nothing = Nothing
  Lower <- MCLower
  Bracketed = {"[::1]"}
  Bare <- MCBare
  r1 = r1
  r2 = r2
  r3 = r3
  r4 = r4
  r5 = r5
  r6 = r6
SPECIFICATION DiscoverySpec
SYMMETRY MCSymmetry
INVARIANTS
  PagesAddUp
  SuggestionsAreEarned
  DrainsAreComplete
CHECK_DEADLOCK FALSE
