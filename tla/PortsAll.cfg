SPECIFICATION PortsFairSpec
CONSTANTS
  Proc = {p1, p2, p3}
  NPORTS = 2
  NSEM = 3
  PT_MSGS = 3
  Sizes = {2}
  MaxSeq <- MCMaxSeq
  p1 = p1
  p2 = p2
  p3 = p3
INVARIANTS PermitsMatchMessages NoStaleMessages NodesAccounted
PROPERTIES WaitersReleased
CHECK_DEADLOCK FALSE
