CONSTANTS
  None = None
  Calls = {1, 2, 3}
  Methods <- MCMethods
  Ids = {o1, o2}
  Intents = {1}
  Manifests <- MCManifests
  NetworkLimit = 2
  MaxPending = 2
  MaxPerPlugin = 2
  MaxRemembered = 1
  MaxIntents = 1
SPECIFICATION Spec
SYMMETRY MCSymmetry
INVARIANTS
  CanceledStaysAtHome
  PromptsAreWaitedFor
  NothingRunsUnasked
  SlotsAreGivenBack
  IntentsAreSpentOnce
CHECK_DEADLOCK FALSE
