CONSTANTS
  Server = Server
  Client = Client
  MaxGenerations = 2
  MaxLosses = 1
SPECIFICATION FairSpec
INVARIANTS TypeOK ReleasedWhenEnded HeldByTheLiving NeverCrossed
PROPERTIES GivesUpToTheOld DeviceComesBack BridgeComesBack
CHECK_DEADLOCK FALSE
