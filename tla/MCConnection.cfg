CONSTANTS
  m1 = m1
  m2 = m2
  r1 = r1
  w1 = w1
  w2 = w2
  w3 = w3
  c1 = c1
  c2 = c2
  v1 = v1
  v2 = v2
  v3 = v3
  v4 = v4
  Clients = {c1, c2}
  Via <- Connections
  Packets = {m1, m2}
  Requests = {r1}
  Size <- Lengths
  Senders = {w1, w2, w3}
  HexHash = 2
  RoundBound = 300
  Arriving <- Batches
  Missing = {v1, v2, v3, v4}
  Full = 4
  StreamSize = 6
  ShortSends = 2
SPECIFICATION MSpec
CHECK_DEADLOCK FALSE
INVARIANTS
  TypeOK
  SplitIsExact
  ResentFits
  Faithful
  NothingLeftBehind
PROPERTIES
  Arrives
