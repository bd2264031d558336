CONSTANTS
  NPROC = 4
  MaxPid = 5
  KillPids = {2}
SPECIFICATION Spec
INVARIANTS TypeOK NoZombieMissed FreedOffStack ParentAlive PidsAccounted UniquePids
PROPERTY ReapedByParent
