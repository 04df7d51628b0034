SPECIFICATION ProxyFairSpec
INVARIANTS ReturnReleases NodeClosedLast
PROPERTIES ReturnsOnPeerClose ReturnsOnCancel
CONSTANTS
  k1 = k1
  Conn = {k1}
  Modes <- AllModes
CHECK_DEADLOCK FALSE
