CONSTANTS
  N = 3
  Wave = 1
  DAGs <- SomeDAGs
SPECIFICATION FairLSpec
CHECK_DEADLOCK FALSE
INVARIANTS
  TypeOK
  IdsAreFresh
  VerdictIsAgreement
PROPERTIES
  LauncherEnds
