CONSTANTS
  p1 = p1
  p2 = p2
  Peers <- MCPeers
  MaxStreams = 3
  MaxEnvSteps = 3
  NoSession = NoSession
SYMMETRY MCSymmetry
SPECIFICATION Spec
CHECK_DEADLOCK FALSE
PROPERTY SessionEndsOnlyWhenDead
