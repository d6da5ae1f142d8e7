SPECIFICATION FairSpec
CONSTANTS
  A = A
  B = B
  t1 = t1
  d1 = d1
  d2 = d2
  Nodes <- MCNodes
  Threads <- MCThreads
  NodeOf <- MCNodeOf
  Candidates <- MCOneDirect
  Capacity = 2
  Failing = {B}
  Unwritable = {A}
  Kinds = {"send", "warmup", "attempt"}
INVARIANTS
  TypeOK
  DirectIsPreferred
PROPERTIES
  FrameNeedsSession
  EveryPathOnce
  DirectRecovers
  RelayCarries
