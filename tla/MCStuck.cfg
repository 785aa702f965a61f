CONSTANTS
  p1 = p1
  p2 = p2
  p3 = p3
  p4 = p4
  Peers = {p1, p2, p3, p4}
  LastRound = 2
  Wave = 2
  PeerOrder <- Order
  Failing = {}
  FailRound = 27
SPECIFICATION StuckSpec
CHECK_DEADLOCK FALSE
PROPERTIES
  LastRoundEnds
