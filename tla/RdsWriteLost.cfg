SPECIFICATION RdSpec
CONSTANTS
  Client = {c1, c2}
  Buf = {b1, b2}
  RdBlock = {1, 2}
  RdData = {0, 1}
  RD_RETRIES = 2
  RdMaxSeq = 2
  Late = FALSE
INVARIANT RdWritesReach
CHECK_DEADLOCK FALSE
