SPECIFICATION Spec
CONSTANTS
  A = A
  B = B
  Nodes <- MCNodes
  Config <- MCBriefEndpoints
  Horizon = 4
  Store = "memory"
  Lead = 1
  Window = 1
  Retention = 1
  HeartbeatEvery = 1
  ReportMatch = 2
  Observations <- MCPrimary
  Movers <- MCNone
  Sleepers <- MCOne
  MaxFailures = 0
INVARIANTS
  OneOpenAttempt
PROPERTIES
  EligibleIsServed
  OffersExplained
