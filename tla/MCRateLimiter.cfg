SPECIFICATION Spec
CONSTANTS
  Workers = {w1, w2}
  Sizes = {1, 3}
  Rate = 2
  Window = 1
  MaxTime = 6
INVARIANTS
  WindowCap
  RunCap
CHECK_DEADLOCK FALSE
