CONSTANTS
  NPROC = 4
  MaxPid = 4
  KillPids = {}
SPECIFICATION FairSpec
 
PROPERTY OrphansReaped
