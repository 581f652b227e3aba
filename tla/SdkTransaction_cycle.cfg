SPECIFICATION SdkSpec
CONSTANTS
  Seg = {root, s1, s2}
  Root = root
  Context = {main}
  Main = main
  Nil = Nil
  Thread = {t1, t2}
  Kind = {"datastore", "external"}
  Moved = {"datastore", "external"}
  Call = {"start", "set_parent"}
  MaxCalls = 6
SYMMETRY Symmetry
CHECK_DEADLOCK FALSE
INVARIANT
  Acyclic
