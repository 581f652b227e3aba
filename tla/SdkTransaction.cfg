SPECIFICATION SdkFairSpec
CONSTANTS
  Seg = {root, s1, s2}
  Root = root
  Context = {main}
  Main = main
  Nil = Nil
  Thread = {t1, t2}
  Kind = {"custom", "datastore", "external"}
  Moved = {"custom"}
  Call = {"start", "set_parent", "set_timing", "end", "end_other", "record", "ignore", "set_name", "end_txn"}
  MaxCalls = 6
CHECK_DEADLOCK FALSE
INVARIANTS
  OwnedIsLive
  NothingLeaks
PROPERTIES
  ImplementsTree
  CallsReturn
