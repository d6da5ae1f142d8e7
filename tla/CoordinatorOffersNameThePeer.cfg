SPECIFICATION Spec
CONSTANTS
  A = A
  B = B
  Nodes <- MCNodes
  Config <- MCBudget
  Horizon = 4
  Store = "memory"
  Lead = 1
  Window = 1
  Retention = 1
  HeartbeatEvery = 1
  ReportMatch = 2
  Observations <- MCPrimary
  Movers <- MCNone
  Sleepers <- MCNone
  MaxFailures = 2
INVARIANTS
  OffersNameThePeer
