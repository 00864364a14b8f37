SPECIFICATION FairSpec
CONSTANTS
  NPROC = 3
  QUANTUM = 2
  Prios = {0, 1, 2}
  NSTK = 3
  Workload = {"create", "resume", "suspend", "kill", "exit", "chprio", "yield", "send", "receive", "recvclr"}
INVARIANTS ProcessesListed StacksOwned NoMessageSleptOn
PROPERTY RoundRobin
