CONSTANTS
  JobIds = {j1, j2}
  TransportKinds = {fetch}
  OtherKinds = {echo}
  Echo = echo
  FullProgress = 3
SPECIFICATION Spec
INVARIANTS
  NoJobLeftBehind
PROPERTIES
  ImplementsLifecycle
  SweepIsComplete
  EveryTaskEnds
