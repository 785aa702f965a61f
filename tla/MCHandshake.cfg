CONSTANTS
  m1 = m1
  m2 = m2
  n1 = n1
  Messages = {m1, m2}
  Noise = {n1}
  Spurious = 2
SPECIFICATION FairSpec
CHECK_DEADLOCK FALSE
INVARIANTS
  TypeOK
PROPERTIES
  ImplementsMailbox
  HeldIsSeen
  WaitingEnds
  ServerStops
