SPECIFICATION Spec
CONSTANTS
  Micros = {0, 1, 2}
  HalfSecond = 2
  Reply <- MCReply
  MaxEdits = 3
  Nil = Nil
INVARIANTS
  NeverMore
  AllowedIsGranted
