----------------------------- MODULE MCNetwork -----------------------------
(* The network stack, the Ethernet driver, the TFTP and DHCP clients, the  *)
(* heap, the buffer pools and the marks share no variable: each behaviour  *)
(* moves the one "which" names.                                            *)
EXTENDS Net, EthRings, Tftp, Memory, Dhcp, Buffers, Marks

VARIABLE which

MCMemMap == {[addr |-> 1, len |-> 6], [addr |-> 9, len |-> 4]}

MCDhcpAddr == "s1" :> 10 @@ "s2" :> 20
MCDhcpForm(first, server, sname, mask) == [first |-> first, server |-> server, sname |-> sname, mask |-> mask]
MCDhcpForms ==
  {MCDhcpForm(TRUE, "near", FALSE, TRUE), MCDhcpForm(TRUE, "far", FALSE, FALSE),
   MCDhcpForm(FALSE, "near", TRUE, TRUE), MCDhcpForm(TRUE, "none", TRUE, TRUE)}

MCUdpNames == {[lport |-> 5, rport |-> 0, rip |-> "a"]}
MCFrame(m) == [ethtype |-> "ETH_IP", valid |-> TRUE] @@ m
MCNetFrame ==
  {[ethtype |-> "ETH_ARP", op |-> o, src |-> h, dst |-> "me"] : o \in {"request", "reply"}, h \in NetHost \cup {iprouter}}
  \cup {MCFrame([proto |-> "udp", src |-> "a", dst |-> d, dport |-> 5, sport |-> 5]) : d \in {"me", "bcast"}}
  \cup {MCFrame([proto |-> "icmp", type |-> t, ident |-> 0, src |-> "a", dst |-> "me"]) :
          t \in {"request", "reply", "other"}}
  \cup {MCFrame([proto |-> "tcp", dst |-> "me"]), [ethtype |-> "ETH_IP", valid |-> FALSE],
        [ethtype |-> "ETH_IPv6"]}

PoolVars == <<MemVars, BpVars, MkVars>>
WireVars == <<NetVars, EthVars, TftpVars, DhcpVars>>
MCVars == <<WireVars, PoolVars, which>>
MCInit ==
  /\ NetInit /\ EthInit /\ TftpInit /\ MemInit /\ DhcpInit /\ BpInit /\ MkInit
  /\ which \in {"net", "eth", "tftp", "memory", "dhcp", "buffers", "marks"}
  /\ which = "tftp" \/ tftpsize = 3
  /\ which = "marks" \/ \A l \in MkLoc : mkloc[l] = 0
  /\ \/ which = "dhcp"
     \/ /\ dhnet = {DhcpOther(DhcpXid, MCDhcpForm(TRUE, "near", FALSE, TRUE))}
        /\ \A s \in DhcpServer : dhform[s] = MCDhcpForm(TRUE, "near", FALSE, TRUE)
WireNext ==
  \/ which = "net" /\ NetNext /\ UNCHANGED <<EthVars, TftpVars, DhcpVars>>
  \/ which = "eth" /\ EthNext /\ UNCHANGED <<NetVars, TftpVars, DhcpVars>>
  \/ which = "tftp" /\ TftpNext /\ UNCHANGED <<NetVars, EthVars, DhcpVars>>
  \/ which = "dhcp" /\ DhcpNext /\ UNCHANGED <<NetVars, EthVars, TftpVars>>
PoolNext ==
  \/ which = "memory" /\ MemNext /\ UNCHANGED <<BpVars, MkVars>>
  \/ which = "buffers" /\ BpNext /\ UNCHANGED <<MemVars, MkVars>>
  \/ which = "marks" /\ MkNext /\ UNCHANGED <<MemVars, BpVars>>
MCNext ==
  /\ UNCHANGED which
  /\ \/ WireNext /\ UNCHANGED PoolVars
     \/ PoolNext /\ UNCHANGED WireVars
MCSpec == MCInit /\ [][MCNext]_MCVars
=============================================================================
