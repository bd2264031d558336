CONSTANTS
  NPROC = 3
  MaxPid = 3
  KillPids = {2, 3}
SPECIFICATION FairSpec
PROPERTY KillDelivered
