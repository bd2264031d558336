CONSTANTS
  r1 = r1
  w1 = w1
  w2 = w2
  Reader = {r1}
  Writer = {w1, w2}
  NoProc = NoProc
  Killable = {r1}
  Byte = {0, 1}
  PIPESIZE = 2
  UINT = 4
  MaxCount = 3
SPECIFICATION Spec
INVARIANTS TypeOK ReaderNotStranded WriterNotStranded NoUseAfterFree
PROPERTY PipeIsQueue
