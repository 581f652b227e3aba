SPECIFICATION FairSpec
CONSTANTS
  Thread = {t1, t2}
  App = {a1}
  Address = {"good", "malformed"}
  MaxFd = 2
  MaxCalls = 3
  Nil = Nil
CHECK_DEADLOCK FALSE
INVARIANTS
  TypeOK
  OneConnection
PROPERTY
  CallsReturn
