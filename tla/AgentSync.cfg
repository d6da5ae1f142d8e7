CONSTANTS
  n1 = n1
  n2 = n2
  NodeIds <- MCNodeIds
  MaxContent = 2
  None = None
  Torn = Torn
SPECIFICATION FairSpec
INVARIANTS TypeOK
PROPERTIES StartsApplied OneNodePerStateFile Converges
