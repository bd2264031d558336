CONSTANTS
  c1 = c1
  c2 = c2
  Cpu = {c1, c2}
  Cpu0 = c1
  NoCpu = NoCpu
  NPROC = 3
SPECIFICATION Spec
INVARIANTS TypeOK SleepLockExcludes OneCpuPerStack NoLostWakeup NoPanic InterruptsRestored NoSpinCycle
