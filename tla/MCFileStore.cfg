SPECIFICATION Spec
CONSTANTS
  Processes = {p1}
  Threads = {t1, t2}
  Paths = {a}
  Data = {x, y}
  Inodes = {1, 2, 3}
  BlockCount = 2
  MaxTickets = 2
  None = None
SYMMETRY Symmetry
INVARIANTS
  NoHalfWrittenFile
  NoTempLeft
PROPERTIES
  ImplementsAtomicFiles
CHECK_DEADLOCK FALSE
