SPECIFICATION Spec
CONSTANTS
  NPROC = 4
  QUANTUM = 1
  NLOCKS = 2
  LockPrios = {0, 1}
  NewPrios = {2}
  Targets = {3}
  MaxLocks <- MCOneLock
  Releases <- MCReleases
  Prio <- MCPrio
  Workload = {"resume", "lcreate", "ldelete", "lock", "releaseall", "chprio", "kill"}
INVARIANTS WaitersQueued LockedMeansHeld OwnPriorityKept
