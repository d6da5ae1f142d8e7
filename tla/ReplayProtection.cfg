SPECIFICATION Spec
CONSTANTS
  Packets = {p1, p2}
  TTL = 2
  Lead = 0
  MaxTime = 5
INVARIANTS
  AcceptedOnce
