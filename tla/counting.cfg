SPECIFICATION Spec
CONSTANTS
  Tids = {t1, t2}
  Counts = {c1, c2}
  Workers = {w1, w2}
  MaxMoves = 2
SYMMETRY Symmetry
INVARIANTS
  TypeOK
  VarianceRight
PROPERTIES
  FoundStaysFound
CHECK_DEADLOCK FALSE
