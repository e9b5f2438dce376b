CONSTANTS
  JobIds = {1, 2}
  Ids = {1, 2}
  TransportKinds = {push}
  SnapshotKinds = {push}
  OtherKinds = {}
  FullProgress = 1
  Resources = {r1}
  Plugins = {git}
  Domains = {Repositories}
  Guards = {1, 2}
  Writers = {w1}
  None = None
SPECIFICATION Spec
INVARIANTS
  RepositoryExclusive
  GapIsCovered
  OpenJobsHaveCalls
  VerdictMatchesJob
PROPERTIES
  ImplementsLease
  EveryCallEnds
CHECK_DEADLOCK FALSE
