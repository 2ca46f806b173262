SPECIFICATION Spec
CONSTANTS
  Procs = {p1, p2}
  Blocks = {b1, b2, b3}
  Values = {0, 1}
  NoValue = NoValue
  LOGSIZE = 8
  nlog = 8
  MAXOPBLOCKS = 4
  OpBlocks = 2
SYMMETRY Symmetry
INVARIANTS QuiescentIsDurable Reserved
PROPERTY AtomicOperations
