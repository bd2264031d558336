CONSTANTS
  p1 = p1
  p2 = p2
  b1 = b1
  b2 = b2
  Proc = {p1, p2}
  Block = {b1, b2}
  Data = {0, 1}
  Zero = 0
  Absent = Absent
  MAXOPBLOCKS = 3
  LOGSIZE = 6
  NLOG = 6
  OpBlocks = 2
SPECIFICATION FairSpec
INVARIANTS SleeperHasWaker DirtyIsPinned IndInv
PROPERTIES Transactions SleeperWakes
