SPECIFICATION FairSpec
CONSTANTS
  Key = {k1}
  App = {o1}
  RunID = {r1}
  Nil = Nil
  AppLimit = 1
  MaxConnecting = 1
  MaxSending = 1
CHECK_DEADLOCK FALSE
PROPERTIES
  CleanExitReturns
