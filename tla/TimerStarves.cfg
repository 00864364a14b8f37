SPECIFICATION FairSpec
CONSTANTS
  NPROC = 3
  QUANTUM = 2
  MSB = 8
  Delays = {3}
  Waits = {0}
  Prio <- MCPrio
  Workload = {"resume", "sleep", "recvtime"}
PROPERTY SleepEnds
