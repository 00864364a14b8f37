SPECIFICATION Spec
CONSTANTS
  NPROC = 4
  QUANTUM = 2
  Prios = {1, 2}
  NSTK = 3
  Workload = {"create", "resume", "kill", "receive", "exit", "overlap"}
INVARIANT PrcountCountsActive
