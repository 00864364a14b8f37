SPECIFICATION FairSpec
CONSTANTS
  NPROC = 4
  QUANTUM = 2
  MSB = 4
  Delays = {0, 1, 3}
  Waits = {0, 2}
  Prio <- MCPrio
  Workload = {"resume", "sleep", "recvtime", "receive", "recvclr", "send", "kill"}
INVARIANTS SleepersListed DelaysKept
PROPERTY SleepEndsInTime
