-------------------------------- MODULE Net --------------------------------
(***************************************************************************)
(* The network stack: netin() and the demultiplexing of ip_in(), the ARP   *)
(* cache, UDP and ICMP endpoints, ip_send() of the clients, the output     *)
(* queue and ipout(), and the pool of network buffers they share.          *)
(*                                                                         *)
(* Interrupts are disabled in every function, so a process is cut only     *)
(* where it waits: for a buffer, a frame, a packet to send, or a message   *)
(* in recvtime(); and where send(), signal() or write() give the CPU away. *)
(* Any process may send a message to any other, and a client may be killed *)
(* while it waits.                                                         *)
(***************************************************************************)
EXTENDS Integers, FiniteSets, Queues

CONSTANTS NetClient,     \* processes that use endpoints
          NetHost,       \* hosts of the local network
          iprouter,      \* the default router, or "none"
          NetBufs,       \* buffers of netbufpool
          ARP_SIZ, ARP_RETRY,
          UDP_SLOTS, UDP_QSIZ,
          ICMP_SLOTS, ICMP_QSIZ,
          IP_OQSIZ,
          UdpNames,      \* what may be registered: [lport, rport, rip], 0 and "any" for any
          NetFrame       \* frames that may arrive

ASSUME NetAssumption ==
  /\ {ARP_SIZ, UDP_SLOTS, UDP_QSIZ, ICMP_SLOTS, ICMP_QSIZ, IP_OQSIZ, NetBufs} \subseteq Nat \ {0}
  /\ ICMP_SLOTS >= ICMP_QSIZ
  /\ IsFiniteSet(NetClient)

VARIABLES netfree,   \* free buffers of the pool
          netproc,   \* where each process is
          netmsg,    \* the message that waits for it, and what it is about
          ipvalid,   \* NetData.ipvalid
          arpcache, udptab, icmptab,
          ipoqueue,  \* iqbuf with iqhead and iqtail, and the count of iqsem
          netgone,   \* history: buffers that were in the hands of killed processes
          netlost    \* history: a queue was overrun, or read where nothing is

NetHist == <<netgone, netlost>>
NetVars == <<netfree, netproc, netmsg, ipvalid, arpcache, udptab, icmptab, ipoqueue, NetHist>>

NetProc == NetClient \cup {"netin", "ipout"}
ArpSlot == 0 .. ARP_SIZ - 1
UdpSlot == 0 .. UDP_SLOTS - 1
IcSlot  == 0 .. ICMP_SLOTS - 1
NoPacket == [proto |-> "none"]
Packet(m) == [proto |-> m.proto]     \* all that is kept of a packet delivered
First(S) == CHOOSE s \in S : \A t \in S : s <= t

(* A circular queue of n packets; the place of one taken is cleared, which *)
(* the code has no need to do.                                             *)
Ring(n) == [q |-> [i \in 0 .. n - 1 |-> NoPacket], head |-> 0, tail |-> 0, count |-> 0]
Wraps(i, n) == IF i + 1 >= n THEN 0 ELSE i + 1
Put(r, x, n) == [q |-> [r.q EXCEPT ![r.tail] = x], head |-> r.head,
                 tail |-> Wraps(r.tail, n), count |-> r.count + 1]
Get(r, n) == [r EXCEPT !.q = [@ EXCEPT ![r.head] = NoPacket], !.head = Wraps(@, n), !.count = @ - 1]
InOrder(r, n) == \A i \in 0 .. r.count - 1 : r.q[(r.head + i) % n] # NoPacket

NoMsg == [val |-> "none"]

ArpFree == [state |-> "AR_FREE"]
UdpFree == [state |-> "UDP_FREE"]
IcFree  == [state |-> "ICMP_FREE"]

NetInit ==
  /\ netfree = NetBufs
  /\ netproc = [p \in NetProc |-> [pc |-> CASE p = "netin" -> "getbuf" [] p = "ipout" -> "wait"
                                            [] OTHER -> "idle"]]
  /\ netmsg = [p \in NetProc |-> NoMsg]
  /\ ipvalid = FALSE
  /\ arpcache = [s \in ArpSlot |-> ArpFree]
  /\ udptab = [s \in UdpSlot |-> UdpFree]
  /\ icmptab = [s \in IcSlot |-> IcFree]
  /\ ipoqueue = [ring |-> Ring(IP_OQSIZ), sem |-> 0]
  /\ netgone = 0 /\ netlost = FALSE

-----------------------------------------------------------------------------
(* What a process does once it is done with a packet. *)
Resumes(p) == [pc |-> CASE p = "netin" -> "getbuf" [] p = "ipout" -> "wait" [] OTHER -> "idle"]
Goes(p, k) == netproc' = [netproc EXCEPT ![p] = k]

(* What a process waits for in recvtime(); send() leaves its message with  *)
(* a process that has none.  A message counts for a process that waits:    *)
(* recvclr() clears the others before the wait.                            *)
Waits(p) == netproc[p].pc \in {"arp", "udp", "icmp"}
About(p) == [kind |-> netproc[p].pc, slot |-> netproc[p].slot]
Sent(p, m) == IF Waits(p) /\ netmsg[p] = NoMsg THEN [netmsg EXCEPT ![p] = m] ELSE netmsg
Told(p, kind, s) == Sent(p, [val |-> "OK", of |-> [kind |-> kind, slot |-> s]])
(* A message from elsewhere, OK or another: send() by anyone, or by kill() *)
(* of a child.  arp_resolve() treats the two alike.                        *)
Stray(p, val) ==
  /\ Waits(p) /\ netmsg[p] = NoMsg
  /\ val = "OK" => netproc[p].pc # "arp"
  /\ netmsg' = Sent(p, [val |-> val, of |-> [kind |-> "else"]])
  /\ UNCHANGED <<netfree, netproc, ipvalid, arpcache, udptab, icmptab, ipoqueue, NetHist>>

(* udp_in(): the first endpoint that matches and has room. *)
UdpMatches(u, m) ==
  /\ u.state # "UDP_FREE" /\ m.dport = u.name.lport
  /\ u.name.rport \in {0, m.sport} /\ u.name.rip \in {"any", m.src}
BugRoom(r) == r.count <= UDP_QSIZ
Room(r) == r.count < UDP_QSIZ
UdpIn(p, m) ==
  LET fits == {s \in UdpSlot : UdpMatches(udptab[s], m) /\ Room(udptab[s].ring)}
      s == First(fits)
  IN /\ Goes(p, Resumes(p))
     /\ \/ /\ fits = {}
           /\ netfree' = netfree + 1 /\ UNCHANGED <<udptab, netmsg>>
        \/ /\ fits # {}
           /\ udptab' = [udptab EXCEPT ![s].ring = Put(@, Packet(m), UDP_QSIZ), ![s].state = "UDP_USED",
                                       ![s].left = FALSE]
           /\ netmsg' = IF udptab[s].state = "UDP_RECV" THEN Told(udptab[s].pid, "udp", s) ELSE netmsg
           /\ UNCHANGED netfree
     /\ UNCHANGED <<ipvalid, arpcache, icmptab, ipoqueue, NetHist>>

(* icmp_in(): an echo request is answered when there is a buffer; a reply  *)
(* goes to the slot its identifier names, whether there is room or not.    *)
IcmpIn(p, m) ==
  LET s   == m.ident
      own == s \in IcSlot /\ icmptab[s].state # "ICMP_FREE" /\ icmptab[s].remip = m.src
  IN /\ \/ /\ m.type = "request"
           /\ Goes(p, [pc |-> "mkpkt", pkt |-> m])
           /\ UNCHANGED <<netfree, icmptab, netmsg, netlost>>
        \/ /\ m.type = "reply" /\ own
           /\ Goes(p, Resumes(p))
           /\ icmptab' = [icmptab EXCEPT ![s].ring = Put(@, Packet(m), ICMP_QSIZ), ![s].state = "ICMP_USED",
                                         ![s].left = FALSE]
           /\ netlost' = (icmptab[s].ring.count >= ICMP_QSIZ)
           /\ netmsg' = IF icmptab[s].state = "ICMP_RECV" THEN Told(icmptab[s].pid, "icmp", s)
                                                          ELSE netmsg
           /\ UNCHANGED netfree
        \/ /\ m.type \notin {"request", "reply"} \/ (m.type = "reply" /\ ~own)
           /\ Goes(p, Resumes(p)) /\ netfree' = netfree + 1
           /\ UNCHANGED <<icmptab, netmsg, netlost>>
     /\ UNCHANGED <<ipvalid, arpcache, udptab, ipoqueue, netgone>>

Drop(p) ==
  /\ netfree' = netfree + 1 /\ Goes(p, Resumes(p))
  /\ UNCHANGED <<netmsg, ipvalid, arpcache, udptab, icmptab, ipoqueue, NetHist>>
(* After send(), signal() or write() of a reply the packet is freed.       *)
NetFrees(p) == netproc[p].pc = "free" /\ Drop(p)

ip_local(p, m) ==
  \/ m.proto = "udp" /\ UdpIn(p, m)
  \/ m.proto = "icmp" /\ IcmpIn(p, m)
  \/ m.proto \notin {"udp", "icmp"} /\ Drop(p)

-----------------------------------------------------------------------------
(* arp_alloc(): a free entry, else a resolved one. *)
BugAlloc(cache) ==
  LET free == {s \in ArpSlot : cache[s].state = "AR_FREE"}
  IN IF free # {} THEN First(free) ELSE First(ArpSlot)
arp_alloc(cache) ==
  LET free     == {s \in ArpSlot : cache[s].state = "AR_FREE"}
      resolved == {s \in ArpSlot : cache[s].state = "AR_RESOLVED"}
  IN IF free # {} THEN First(free) ELSE IF resolved # {} THEN First(resolved) ELSE -1
ArpFind(cache, ip) == {s \in ArpSlot : cache[s].state # "AR_FREE" /\ cache[s].ip = ip}

(* ip_out() hands the packet to the device, which copies it, and frees it. *)
ip_out(p) == Drop(p)

(* Resolved at once, not at all, or after a wait in recvtime(). *)
arp_resolve(p, hop) ==
  LET found == ArpFind(arpcache, hop)
      s     == arp_alloc(arpcache)
  IN \/ found # {} /\ ip_out(p)
     \/ found = {} /\ s = -1 /\ Drop(p)
     \/ /\ found = {} /\ s # -1
        /\ arpcache' = [arpcache EXCEPT ![s] =
                           [state |-> "AR_PENDING", ip |-> hop, pid |-> p, left |-> FALSE]]
        /\ netmsg' = [netmsg EXCEPT ![p] = NoMsg]
        /\ Goes(p, [pc |-> "arp", slot |-> s, ip |-> hop, tries |-> 1])
        /\ UNCHANGED <<netfree, ipvalid, udptab, icmptab, ipoqueue, NetHist>>

(* A process leaves its wait: an entry still marked for it stays marked.   *)
ArpLeft(p) ==
  LET s == netproc[p].slot
  IN IF arpcache[s].state = "AR_PENDING" /\ arpcache[s].pid = p
     THEN [arpcache EXCEPT ![s].left = TRUE] ELSE arpcache

(* Any message ends the wait.  At SYSERR the packet is freed, at any other *)
(* it is sent, to what the entry says, and freed.                          *)
ArpWakes(p) ==
  /\ netproc[p].pc = "arp" /\ netmsg[p] # NoMsg
  /\ netmsg' = [netmsg EXCEPT ![p] = NoMsg]
  /\ arpcache' = ArpLeft(p)
  /\ netfree' = netfree + 1 /\ Goes(p, Resumes(p))
  /\ UNCHANGED <<ipvalid, udptab, icmptab, ipoqueue, NetHist>>
ArpTimesOut(p) ==
  /\ netproc[p].pc = "arp" /\ netmsg[p] = NoMsg
  /\ \/ /\ netproc[p].tries < ARP_RETRY
        /\ Goes(p, [netproc[p] EXCEPT !.tries = @ + 1])
        /\ UNCHANGED <<netfree, arpcache>>
     \/ /\ netproc[p].tries = ARP_RETRY
        /\ arpcache' = [arpcache EXCEPT ![netproc[p].slot] = ArpFree]
        /\ netfree' = netfree + 1 /\ Goes(p, Resumes(p))
  /\ UNCHANGED <<netmsg, ipvalid, udptab, icmptab, ipoqueue, NetHist>>

(* arp_in(): the sender is learnt where it is known, or where it asks for  *)
(* this machine.                                                           *)
arp_in(f) ==
  LET found == ArpFind(arpcache, f.src)
      s     == IF found # {} THEN First(found) ELSE arp_alloc(arpcache)
      known == [state |-> "AR_RESOLVED", ip |-> f.src]
  IN /\ \/ /\ found # {} \/ (f.op = "request" /\ ipvalid /\ f.dst = "me" /\ s # -1)
           /\ arpcache' = [arpcache EXCEPT ![s] = known]
           /\ netmsg' = IF arpcache[s].state = "AR_PENDING" THEN Told(arpcache[s].pid, "arp", s)
                                                            ELSE netmsg
        \/ /\ found = {} /\ (f.op # "request" \/ ~ipvalid \/ f.dst # "me" \/ s = -1)
           /\ UNCHANGED <<arpcache, netmsg>>
     /\ Goes("netin", [pc |-> "free"])
     /\ UNCHANGED <<netfree, ipvalid, udptab, icmptab, ipoqueue, NetHist>>

-----------------------------------------------------------------------------
(* ip_in(): a header that does not check is dropped; before there is an    *)
(* address only UDP is for this machine.                                   *)
ip_in(f) ==
  \/ ~f.valid /\ Drop("netin")
  \/ /\ f.valid /\ (f.dst = "bcast" \/ (IF ipvalid THEN f.dst = "me" ELSE f.proto = "udp"))
     /\ ip_local("netin", f)
  \/ /\ f.valid /\ f.dst # "bcast" /\ ~(IF ipvalid THEN f.dst = "me" ELSE f.proto = "udp")
     /\ Drop("netin")

NetinGetsBuffer ==
  /\ netproc["netin"].pc = "getbuf" /\ netfree > 0
  /\ netfree' = netfree - 1
  /\ Goes("netin", [pc |-> "read"])
  /\ UNCHANGED <<netmsg, ipvalid, arpcache, udptab, icmptab, ipoqueue, NetHist>>

netin(f) ==
  /\ netproc["netin"].pc = "read"
  /\ \/ f.ethtype = "ETH_ARP" /\ arp_in(f)
     \/ f.ethtype = "ETH_IP" /\ ip_in(f)
     \/ f.ethtype \notin {"ETH_ARP", "ETH_IP"} /\ Drop("netin")

icmp_mkpkt(remip, type, ident) ==
  [proto |-> "icmp", type |-> type, src |-> "me", dst |-> remip, ident |-> ident]

(* icmp_in() goes on: icmp_mkpkt() has a buffer, ip_enqueue() takes the    *)
(* reply or drops it.  It asks the semaphore, which counts a packet no more *)
(* from the time ipout() is let through; one put on a full buffer is lost. *)
EchoReplies(p) ==
  /\ netproc[p].pc = "mkpkt" /\ netfree > 0
  /\ LET m     == netproc[p].pkt
         reply == icmp_mkpkt(m.src, "reply", m.ident)
     IN \/ /\ ipoqueue.sem >= IP_OQSIZ
           /\ netproc' = [netproc EXCEPT ![p] = [pc |-> "free"]]
           /\ UNCHANGED <<netfree, ipoqueue, netlost>>
        \/ /\ ipoqueue.sem < IP_OQSIZ
           /\ netfree' = netfree - 1
           /\ ipoqueue' = [ring |-> Put(ipoqueue.ring, reply, IP_OQSIZ), sem |-> ipoqueue.sem + 1]
           /\ netlost' = (ipoqueue.ring.count >= IP_OQSIZ)
           /\ netproc' = [netproc EXCEPT ![p] = [pc |-> "free"],
                                         !["ipout"] = IF ipoqueue.sem < 0 THEN [pc |-> "dequeue"] ELSE @]
  /\ UNCHANGED <<netmsg, ipvalid, arpcache, udptab, icmptab, netgone>>

(* ip_send() and ipout() alike: to this machine, to everybody, to a        *)
(* neighbour, to the router, or nowhere.                                   *)
NextHop(dst) == IF dst \in NetHost THEN dst ELSE iprouter
Route(p, m) ==
  \/ m.dst = "me" /\ ip_local(p, m)
  \/ m.dst # "me" /\ (m.dst = "bcast" \/ NextHop(m.dst) = "none") /\ Drop(p)
  \/ m.dst \notin {"me", "bcast"} /\ NextHop(m.dst) # "none" /\ arp_resolve(p, NextHop(m.dst))

(* wait() on iqsem, and, let through, the packet at the head.              *)
ipout ==
  /\ netproc["ipout"].pc = "wait"
  /\ ipoqueue' = [ipoqueue EXCEPT !.sem = @ - 1]
  /\ Goes("ipout", [pc |-> IF ipoqueue.sem > 0 THEN "dequeue" ELSE "blocked"])
  /\ UNCHANGED <<netfree, netmsg, ipvalid, arpcache, udptab, icmptab, NetHist>>
IpoutTakes ==
  /\ netproc["ipout"].pc = "dequeue"
  /\ ipoqueue' = [ipoqueue EXCEPT !.ring = Get(@, IP_OQSIZ)]
  /\ Goes("ipout", [pc |-> "route", pkt |-> ipoqueue.ring.q[ipoqueue.ring.head]])
  /\ UNCHANGED <<netfree, netmsg, ipvalid, arpcache, udptab, icmptab, NetHist>>
IpoutRoutes == netproc["ipout"].pc = "route" /\ Route("ipout", netproc["ipout"].pkt)

-----------------------------------------------------------------------------
(* UDP.  No function looks at who calls; NetNext has each client use the   *)
(* endpoints it registered ("user", a history field).                      *)
Idle(c) == netproc[c].pc = "idle"
UdpHolds(c, s) == udptab[s].state # "UDP_FREE" /\ udptab[s].user = c
IcHolds(c, s) == icmptab[s].state # "ICMP_FREE" /\ icmptab[s].user = c

udp_register(c, name) ==
  LET free == {s \in UdpSlot : udptab[s].state = "UDP_FREE"}
  IN /\ Idle(c) /\ free # {}
     /\ \A s \in UdpSlot \ free : udptab[s].name # name
     /\ udptab' = [udptab EXCEPT ![First(free)] =
                     [state |-> "UDP_USED", name |-> name, pid |-> -1, ring |-> Ring(UDP_QSIZ),
                      user |-> c, left |-> FALSE]]
     /\ UNCHANGED <<netfree, netproc, netmsg, ipvalid, arpcache, icmptab, ipoqueue, NetHist>>

(* The packets that wait are given up with the endpoint; the mutant keeps  *)
(* their buffers.                                                          *)
BugRelease(c, s) ==
  /\ Idle(c) /\ udptab[s].state # "UDP_FREE"
  /\ udptab' = [udptab EXCEPT ![s] = UdpFree]
  /\ UNCHANGED <<netfree, netproc, netmsg, ipvalid, arpcache, icmptab, ipoqueue, NetHist>>
udp_release(c, s) ==
  /\ Idle(c) /\ udptab[s].state # "UDP_FREE"
  /\ netfree' = netfree + udptab[s].ring.count
  /\ udptab' = [udptab EXCEPT ![s] = UdpFree]
  /\ UNCHANGED <<netproc, netmsg, ipvalid, arpcache, icmptab, ipoqueue, NetHist>>

(* The buffer first, then the way out; udp_send() needs the other end's    *)
(* address in the endpoint, udp_sendto() is told it.                       *)
SendFrom(c, m) ==
  /\ Idle(c) /\ netfree > 0 /\ netfree' = netfree - 1
  /\ Goes(c, [pc |-> "route", pkt |-> m])
  /\ UNCHANGED <<netmsg, ipvalid, arpcache, udptab, icmptab, ipoqueue, NetHist>>
UdpPacket(s, dst, port) ==
  [proto |-> "udp", src |-> "me", sport |-> udptab[s].name.lport, dst |-> dst, dport |-> port]
udp_send(c, s) ==
  /\ udptab[s].state # "UDP_FREE" /\ udptab[s].name.rip # "any"
  /\ SendFrom(c, UdpPacket(s, udptab[s].name.rip, udptab[s].name.rport))
udp_sendto(c, s, dst, port) ==
  udptab[s].state # "UDP_FREE" /\ SendFrom(c, UdpPacket(s, dst, port))
ClientRoutes(c) == netproc[c].pc = "route" /\ Route(c, netproc[c].pkt)

(* udp_recvaddr() returns the sender's address besides.                    *)
udp_recv(c, s) ==
  /\ Idle(c) /\ udptab[s].state = "UDP_USED"
  /\ \/ /\ udptab[s].ring.count = 0
        /\ udptab' = [udptab EXCEPT ![s].state = "UDP_RECV", ![s].pid = c]
        /\ netmsg' = [netmsg EXCEPT ![c] = NoMsg]
        /\ Goes(c, [pc |-> "udp", slot |-> s])
        /\ UNCHANGED netfree
     \/ /\ udptab[s].ring.count > 0
        /\ udptab' = [udptab EXCEPT ![s].ring = Get(@, UDP_QSIZ)]
        /\ netfree' = netfree + 1
        /\ UNCHANGED <<netmsg, netproc>>
  /\ UNCHANGED <<ipvalid, arpcache, icmptab, ipoqueue, NetHist>>
udp_recvaddr(c, s) == udp_recv(c, s)

(* Timed out, told of a packet, or given another message: OK is taken for  *)
(* a packet, whoever sent it.                                              *)
UdpAwakes(c) ==
  /\ netproc[c].pc = "udp"
  /\ LET s == netproc[c].slot
     IN \/ /\ netmsg[c].val # "OK"
           /\ udptab' = [udptab EXCEPT ![s].state = "UDP_USED"]
           /\ UNCHANGED <<netfree, netlost>>
        \/ /\ netmsg[c].val = "OK"
           /\ udptab' = [udptab EXCEPT ![s].state = "UDP_USED", ![s].ring = Get(@, UDP_QSIZ)]
           /\ netlost' = (udptab[s].ring.count = 0)
           /\ netfree' = netfree + 1
  /\ netmsg' = [netmsg EXCEPT ![c] = NoMsg]
  /\ Goes(c, Resumes(c))
  /\ UNCHANGED <<ipvalid, arpcache, icmptab, ipoqueue, netgone>>

(* ICMP *)
icmp_register(c, h) ==
  LET free == {s \in IcSlot : icmptab[s].state = "ICMP_FREE"}
  IN /\ Idle(c) /\ free # {}
     /\ \A s \in IcSlot \ free : icmptab[s].remip # h
     /\ icmptab' = [icmptab EXCEPT ![First(free)] =
                      [state |-> "ICMP_USED", remip |-> h, pid |-> -1, ring |-> Ring(ICMP_QSIZ),
                       user |-> c, left |-> FALSE]]
     /\ UNCHANGED <<netfree, netproc, netmsg, ipvalid, arpcache, udptab, ipoqueue, NetHist>>
icmp_send(c, h, ident) == SendFrom(c, icmp_mkpkt(h, "request", ident))

(* The head goes back to 0 at ICMP_SLOTS: past ICMP_QSIZ the n next packets *)
(* are looked for outside the queue.                                       *)
IcStrays(u, n) == \E i \in 0 .. n - 1 : (u.ring.head + i) % ICMP_SLOTS >= ICMP_QSIZ
icmp_recv(c, s) ==
  /\ Idle(c) /\ icmptab[s].state = "ICMP_USED"
  /\ \/ /\ icmptab[s].ring.count = 0
        /\ icmptab' = [icmptab EXCEPT ![s].state = "ICMP_RECV", ![s].pid = c]
        /\ netmsg' = [netmsg EXCEPT ![c] = NoMsg]
        /\ Goes(c, [pc |-> "icmp", slot |-> s])
        /\ UNCHANGED <<netfree, netlost>>
     \/ /\ icmptab[s].ring.count > 0
        /\ icmptab' = [icmptab EXCEPT ![s].ring = Get(@, ICMP_SLOTS)]
        /\ netlost' = IcStrays(icmptab[s], 1)
        /\ netfree' = netfree + 1
        /\ UNCHANGED <<netmsg, netproc>>
  /\ UNCHANGED <<ipvalid, arpcache, udptab, ipoqueue, netgone>>
IcAwakes(c) ==
  /\ netproc[c].pc = "icmp"
  /\ LET s == netproc[c].slot
     IN \/ /\ netmsg[c].val # "OK"
           /\ icmptab' = [icmptab EXCEPT ![s].state = "ICMP_USED"]
           /\ UNCHANGED <<netfree, netlost>>
        \/ /\ netmsg[c].val = "OK"
           /\ icmptab' = [icmptab EXCEPT ![s].state = "ICMP_USED", ![s].ring = Get(@, ICMP_SLOTS)]
           /\ netlost' = (icmptab[s].ring.count = 0 \/ IcStrays(icmptab[s], 1))
           /\ netfree' = netfree + 1
  /\ netmsg' = [netmsg EXCEPT ![c] = NoMsg]
  /\ Goes(c, Resumes(c))
  /\ UNCHANGED <<ipvalid, arpcache, udptab, ipoqueue, netgone>>
icmp_release(c, s) ==
  /\ Idle(c) /\ icmptab[s].state = "ICMP_USED"
  /\ netfree' = netfree + icmptab[s].ring.count
  /\ netlost' = IcStrays(icmptab[s], icmptab[s].ring.count)
  /\ icmptab' = [icmptab EXCEPT ![s] = IcFree]
  /\ UNCHANGED <<netproc, netmsg, ipvalid, arpcache, udptab, ipoqueue, netgone>>

(* kill() of a client that waits: its entry stays marked, its packet is    *)
(* gone, its endpoints stay; a later process may have its identifier.      *)
NetKilled(c) ==
  LET k == netproc[c]
      Leaves(tab, marked) == IF tab[k.slot].state = marked /\ tab[k.slot].pid = c
                             THEN [tab EXCEPT ![k.slot].left = TRUE] ELSE tab
  IN /\ k.pc \in {"arp", "udp", "icmp", "mkpkt", "free"}
     /\ arpcache' = IF k.pc = "arp" THEN ArpLeft(c) ELSE arpcache
     /\ udptab' = IF k.pc = "udp" THEN Leaves(udptab, "UDP_RECV") ELSE udptab
     /\ icmptab' = IF k.pc = "icmp" THEN Leaves(icmptab, "ICMP_RECV") ELSE icmptab
     /\ netgone' = IF k.pc \in {"arp", "mkpkt", "free"} THEN netgone + 1 ELSE netgone
     /\ netmsg' = [netmsg EXCEPT ![c] = NoMsg]
     /\ Goes(c, Resumes(c))
     /\ UNCHANGED <<netfree, ipvalid, ipoqueue, netlost>>

(* getlocalip() has an address. *)
GetsAddress ==
  /\ ~ipvalid /\ ipvalid' = TRUE
  /\ UNCHANGED <<netfree, netproc, netmsg, arpcache, udptab, icmptab, ipoqueue, NetHist>>

NetNext ==
  /\ ~netlost
  /\ \/ NetinGetsBuffer \/ (\E f \in NetFrame : netin(f)) \/ ipout \/ IpoutTakes \/ IpoutRoutes
     \/ GetsAddress
     \/ \E p \in NetProc :
          \/ ArpWakes(p) \/ ArpTimesOut(p) \/ EchoReplies(p) \/ NetFrees(p)
          \/ \E val \in {"OK", "other"} : Stray(p, val)
     \/ \E c \in NetClient :
          \/ ClientRoutes(c) \/ UdpAwakes(c) \/ IcAwakes(c) \/ NetKilled(c)
          \/ \E n \in UdpNames : udp_register(c, n)
          \/ \E s \in UdpSlot :
               /\ UdpHolds(c, s)
               /\ \/ udp_release(c, s) \/ udp_recv(c, s) \/ udp_recvaddr(c, s) \/ udp_send(c, s)
                  \/ \E dst \in NetHost \cup {"me", "bcast", "far"}, n \in UdpNames :
                       udp_sendto(c, s, dst, n.lport)
          \/ \E h \in NetHost : icmp_register(c, h)
          \/ \E s \in IcSlot :
               /\ IcHolds(c, s)
               /\ \/ icmp_recv(c, s) \/ icmp_release(c, s)
                  \/ \E h \in {icmptab[s].remip, "me"} : icmp_send(c, h, s)

NetSpec == NetInit /\ [][NetNext]_NetVars

-----------------------------------------------------------------------------
(* Every buffer of the pool is free, in one queue, in the hands of one     *)
(* process, or was in those of a process when it was killed: no path of a  *)
(* packet frees it twice or forgets it (net.c:31), until a reply is put on *)
(* a full queue (ip.c:459, icmp.c:87), or taken where none is (icmp.c:201, *)
(* or at an OK that no endpoint sent, udp.c:202).                          *)
NetBuffersAccounted ==
  LET udp  == Places(UdpSlot, [s \in UdpSlot |-> IF udptab[s].state = "UDP_FREE" THEN 0
                                                 ELSE udptab[s].ring.count])
      icmp == Places(IcSlot, [s \in IcSlot |-> IF icmptab[s].state = "ICMP_FREE" THEN 0
                                               ELSE icmptab[s].ring.count])
      held == {p \in NetProc : netproc[p].pc \in {"read", "mkpkt", "route", "arp", "free"}}
  IN netlost \/ netfree + netgone + Cardinality(udp) + Cardinality(icmp) + Cardinality(held)
                  + ipoqueue.ring.count = NetBufs

(* A pending entry has its resolver waiting, unless a message from         *)
(* elsewhere or kill() took it away (arp.c:133); a resolver still without  *)
(* a message has its entry, pending for its own address, so a timeout      *)
(* frees no entry but its own (arp.c:141), also when an entry left behind  *)
(* is resolved and tells a later process of its id.                        *)
ArpPendingOwned ==
  /\ \A s \in ArpSlot : arpcache[s].state = "AR_PENDING" /\ ~arpcache[s].left =>
       LET k == netproc[arpcache[s].pid] IN k.pc = "arp" /\ k.slot = s
  /\ \A p \in NetProc : netproc[p].pc = "arp" /\ netmsg[p] = NoMsg =>
       LET e == arpcache[netproc[p].slot]
       IN e.state = "AR_PENDING" /\ ~e.left /\ e.pid = p /\ e.ip = netproc[p].ip

(* A process that waits at an endpoint without a message has it marked for *)
(* itself, and one that its endpoint told of a packet finds it in the      *)
(* queue; an awaited endpoint has no packet, and has its process waiting   *)
(* unless that was killed; the queues hold what their counts say, within   *)
(* their bounds (udp.c:56, udp.c:65, udp.c:190, icmp.c:86, icmp.c:188).    *)
EndpointsAgree ==
  LET Agrees(kind, tab, slots, recv, free, n) ==
        /\ \A p \in NetProc : netproc[p].pc = kind =>
             LET u == tab[netproc[p].slot]
             IN /\ u.state # free
                /\ netmsg[p] = NoMsg => u.state = recv /\ u.pid = p /\ ~u.left
                /\ netmsg[p] # NoMsg /\ netmsg[p].of = About(p) => u.ring.count > 0
        /\ \A s \in slots : tab[s].state # free =>
             LET u == tab[s]
             IN /\ u.state = recv =>
                     /\ u.ring.count = 0
                     /\ u.left \/ (netproc[u.pid].pc = kind /\ netproc[u.pid].slot = s)
                /\ u.ring.count <= n /\ InOrder(u.ring, n)
                /\ u.ring.tail = (u.ring.head + u.ring.count) % n
  IN netlost \/ /\ Agrees("udp", udptab, UdpSlot, "UDP_RECV", "UDP_FREE", UDP_QSIZ)
                /\ Agrees("icmp", icmptab, IcSlot, "ICMP_RECV", "ICMP_FREE", ICMP_QSIZ)

=============================================================================
