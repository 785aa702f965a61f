CONSTANTS
  self = self
  None = None
  q1 = q1
  c1 = c1
  w1 = w1
  w2 = w2
  Self = self
  Others = {q1}
  LastRound = 1
  Checkers = {c1}
  Workers = {w1, w2}
  Tasks <- Messages
SPECIFICATION FairSpec
CHECK_DEADLOCK FALSE
INVARIANTS
  TypeOK
  MapIsThreadSafe
  InsertsOnlyNew
  NoLostWakeup
PROPERTIES
  ImplementsTaskBag
  TasksAreExecuted
