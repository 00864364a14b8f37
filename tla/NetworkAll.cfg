SPECIFICATION MCSpec
CONSTANTS
  NetClient = {"c1"}
  NetHost = {"a"}
  iprouter = "r"
  NetBufs = 3
  ARP_SIZ = 1
  ARP_RETRY = 2
  UDP_SLOTS = 1
  UDP_QSIZ = 2
  ICMP_SLOTS = 2
  ICMP_QSIZ = 1
  IP_OQSIZ = 1
  UdpNames <- MCUdpNames
  NetFrame <- MCNetFrame
  EthSender = {"s1", "s2"}
  EthAddr = {"me", "group"}
  EthTxSize = 3
  EthRxSize = 3
  EthMcast = 2
  TftpPort = {"p", "q"}
  TftpSizes = {3, 4, 6, 7}
  TftpRoom = 6
  TFTP_MAXDATA = 2
  TFTP_MAXRETRIES = 2
  TftpWord = 5
  MemMap <- MCMemMap
  MemWord = 64
  MemRequest = {5, 8, 16, 20}
  DhcpServer = {"s1", "s2"}
  DhcpAddr <- MCDhcpAddr
  DhcpForms <- MCDhcpForms
  DhcpXid = 1
  DhcpXids = {1, 2}
  DHCP_RETRY = 2
  BpProc = {"p1", "p2", "p3"}
  NBPOOLS = 2
  BpSizes = {1, 2}
  MkProc = {"p1", "p2", "p3"}
  MkLoc = {"l1", "l2"}
  MAXMARK = 3
INVARIANTS NetBuffersAccounted ArpPendingOwned EndpointsAgree EthRingsAgree TftpPrefix MemListExact
  DhcpUsesItsLease BuffersAccounted MarkedStaysMarked
CHECK_DEADLOCK FALSE
