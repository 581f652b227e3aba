SPECIFICATION Spec
CONSTANTS
  Seg = {root, s1, s2, s3, s4}
  Root = root
  Context = {main, async}
  Main = main
  Nil = Nil
SYMMETRY Symmetry
CHECK_DEADLOCK FALSE
INVARIANTS
  TypeOK
  Acyclic
  Rooted
  TreeConsistent
  StackLive
  CountMatches
