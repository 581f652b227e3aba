SPECIFICATION Spec
CONSTANTS
  Thread = {t1, t2}
  App = {a1, a2}
  Address = {"good"}
  MaxFd = 2
  MaxCalls = 4
  Nil = Nil
SYMMETRY Symmetry
CHECK_DEADLOCK FALSE
INVARIANT
  AnswersMatch
