SPECIFICATION FairSpec
CONSTANTS
  Key = {k1, k2}
  App = {o1, o2}
  RunID = {r1}
  Nil = Nil
  AppLimit = 0
  MaxConnecting = 2
  MaxSending = 1
CHECK_DEADLOCK FALSE
INVARIANTS
  TypeOK
  TablesAgree
  ConnectedHasHarvest
PROPERTIES
  ImplementsRuns
  EventuallyAnswered
  InactiveRunEnds
