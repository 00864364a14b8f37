SPECIFICATION Spec
CONSTANTS
  NPROC = 5
  QUANTUM = 1
  NLOCKS = 1
  LockPrios = {0}
  NewPrios = {1}
  Targets = {}
  MaxLocks <- MCOneLock
  Releases <- MCReleaseOne
  Prio <- MCSamePrio
  Workload = {"resume", "lcreate", "lock", "releaseall"}
INVARIANT WriterIsAlone
