CONSTANTS
  p1 = p1
  p2 = p2
  b1 = b1
  b2 = b2
  b3 = b3
  b4 = b4
  b5 = b5
  p3 = p3
  Proc = {p1, p2, p3}
  Block = {b1, b2, b3, b4, b5}
  Data = {0}
  Zero = 0
  Absent = Absent
  MAXOPBLOCKS = 2
  LOGSIZE = 6
  NLOG = 6
  OpBlocks = 2
SPECIFICATION Spec
SYMMETRY Symmetry
INVARIANT NoPanic
