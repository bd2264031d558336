CONSTANTS
  r1 = r1
  w1 = w1
  r2 = r2
  Reader = {r1, r2}
  Writer = {w1}
  NoProc = NoProc
  Killable = {r1}
  Byte = {0}
  PIPESIZE = 2
  UINT = 4
  MaxCount = 2
SPECIFICATION FairSpec
PROPERTY ClosedEndReturns
