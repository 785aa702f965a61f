CONSTANTS
  p1 = p1
  p2 = p2
  p3 = p3
  Peers = {p1, p2, p3}
  LastRound = 5
  Wave = 2
  PeerOrder <- Order
  Failing = {}
  FailRound = 27
SPECIFICATION WavesSpec
CHECK_DEADLOCK FALSE
INVARIANTS
  SocketsAndBlackList
  MissingAreKnown
