SPECIFICATION Spec
CONSTANTS
  Processes = {p1, p2}
  Threads = {t1}
  Paths = {a}
  Data = {x, y}
  Inodes = {1, 2, 3, 4}
  BlockCount = 2
  MaxTickets = 2
  None = None
SYMMETRY Symmetry
INVARIANT NoHalfWrittenFile
CHECK_DEADLOCK FALSE
