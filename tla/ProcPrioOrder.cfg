SPECIFICATION Spec
CONSTANTS
  NPROC = 4
  QUANTUM = 2
  Prios = {1, 2}
  NSTK = 3
  Workload = {"create", "resume", "chprio"}
INVARIANT HighestPriorityRuns
