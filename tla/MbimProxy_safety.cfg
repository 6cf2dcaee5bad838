CONSTANTS
  Conns = {c1, c2, c3}
  None = None
  CM_MAX_CLIENT = 2
  MaxTid = 1
  RxCap = 1
  HalfClose = TRUE
SYMMETRY ConnSymmetry
SPECIFICATION Spec
INVARIANTS TypeOK AnswersKeptApart NoClientForgotten
