SPECIFICATION FairSpec
CONSTANTS
  a = a
  b = b
  c = c
  Peers = {a, b, c}
  Nobody = Nobody
  MAX_FRAME = 1
  MAX_PEERS = 2
  MAX_UPGRADED = 1
  MAX_TUNS = 2
  KeyMax = 4
  QueueMax = 3
  Cases <- MCCases
CHECK_DEADLOCK FALSE
INVARIANTS StreamAligned RightPeer KnownPeersProbed
PROPERTIES RequestServed Resent
