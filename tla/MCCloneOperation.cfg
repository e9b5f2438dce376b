CONSTANTS
  JobIds = {1, 2}
  Ids = {1, 2}
  TransportKinds = {clone}
  OtherKinds = {}
  FullProgress = 1
  Resources = {p1}
  Plugins = {git}
  Domains = {Repositories}
  Guards = {1, 2}
  Foreign = Foreign
  None = None
SPECIFICATION Spec
INVARIANTS
  ClosedLeavesNothing
  OneStory
  OffersAreSound
PROPERTY
  FinalIsKept
CHECK_DEADLOCK FALSE
