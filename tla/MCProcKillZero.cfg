CONSTANTS
  NPROC = 3
  MaxPid = 3
  KillPids = {0}
SPECIFICATION Spec
INVARIANT UnusedNotKilled
