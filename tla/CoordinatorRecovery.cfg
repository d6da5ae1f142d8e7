SPECIFICATION FairSpec
CONSTANTS
  A = A
  B = B
  Nodes <- MCNodes
  Config <- MCNoRefill
  Horizon = 4
  Store = "sqlite"
  Lead = 1
  Window = 1
  Retention = 1
  HeartbeatEvery = 1
  ReportMatch = 2
  Observations <- MCPrimary
  Movers <- MCNone
  Sleepers <- MCNone
  MaxFailures = 2
INVARIANTS
  OpenTogether
  HeldIsKnown
PROPERTIES
  ImplementsRendezvous
  RecoveryGoesOn
