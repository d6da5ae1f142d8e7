SPECIFICATION Spec
CONSTANTS
  p1 = p1
  Peers <- MCPeers
  PeerOf <- MCPeerOf
  Attempts = {a1}
  MaxWorkers = 2
  Transports = {t1, t2}
INVARIANT StaleAttemptCancelled
