CONSTANTS
  p1 = p1
  p2 = p2
  Peers = {p1, p2}
  LastRound = 4
  Wave = 4
  PeerOrder <- Order
  Failing = {p2}
  FailRound = 2
SPECIFICATION VSpec
CHECK_DEADLOCK FALSE
INVARIANTS
  ValidatorsTypeOK
  HeldOnce
PROPERTY
  Spec
