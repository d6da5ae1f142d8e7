CONSTANTS
  Callers = {c1, c2}
  n1 = n1
  n2 = n2
  k1 = k1
  k2 = k2
  e1 = e1
  NodeIds <- MCNodeIds
  Keys <- MCKeys
  Endpoints <- MCEndpoints
  Prefixes <- MCPrefixes
  Priorities <- MCPriorities
  Requests <- MCRequests
  ExitNodeId = n1
  None = None
  MaxVersion = 4
SPECIFICATION Spec
INVARIANTS TypeOK UniqueAddresses RoutesDisjoint
PROPERTIES ImplementsRegistry VersionStandsForContent
