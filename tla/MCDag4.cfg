CONSTANTS
  p1 = p1
  p2 = p2
  p3 = p3
  p4 = p4
  Peers = {p1, p2, p3, p4}
  LastRound = 3
SYMMETRY Symmetry
SPECIFICATION EagerSpec
CHECK_DEADLOCK FALSE
INVARIANTS
  NoneRunsAhead
  CommonReferences
  VotedIsShared
  CommonCore
  NobodyLeftWaiting
