SPECIFICATION FairSpec
CONSTANTS
  NPROC = 4
  QUANTUM = 1
  NSEM = 2
  Counts = {0, 1}
  MaxCount = 1
  Prio <- MCPrio
  Workload = {"resume", "kill", "wait", "signal", "signaln", "semcreate", "semdelete", "semreset"}
INVARIANTS CountIsQueue WaitersQueued FreeSemsEmpty DeferralEnds
PROPERTIES ImplementsCountingSem WaiterServed
