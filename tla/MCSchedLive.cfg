CONSTANTS
  c1 = c1
  Cpu = {c1}
  Cpu0 = c1
  NoCpu = NoCpu
  NPROC = 3
SPECIFICATION FairSpec
PROPERTY EveryProcessRuns
