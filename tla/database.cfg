SPECIFICATION MCSpec
CONSTANTS
  Runners = {a, b}
  Deployments <- DeploymentSet
  CrashCap = 2
  Requests = {r1, r2}
  Rows = {a1, a2, a3, a4, a5}
  Limit = 3
  Window = 3
INVARIANTS
  ReadyMeansComplete
  OneVersion
  BoundedFailures
PROPERTIES
  EventuallyReady
  LockEnds
CHECK_DEADLOCK FALSE
