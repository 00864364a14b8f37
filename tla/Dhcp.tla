-------------------------------- MODULE Dhcp -------------------------------
(* getlocalip() (net/dhcp.c): the exchange with DHCP servers, over a       *)
(* network that loses, repeats, delays and reorders broadcasts and carries *)
(* the answers to other machines as well.                                  *)
EXTENDS Naturals, FiniteSets

CONSTANTS
  DhcpServer,      \* the servers
  DhcpAddr,        \* the address each of them offers
  DhcpForms,       \* the forms of an answer, see DhcpForm
  DhcpXid,         \* the transaction number: 4 of the 6 bytes of the MAC address
  DhcpXids,        \* those of other machines, which may have the same 4 bytes
  DHCP_RETRY       \* how often the last message is sent
ASSUME DhcpAssumption == DHCP_RETRY \in Nat \ {0}

DhcpNoAddr == 0
(* first: the message type is the first option; server: the server's       *)
(* identifier is among the options, before or behind the place up to which *)
(* the length of the message sent last reaches, or missing; sname: the     *)
(* name of a boot server is there; mask: so is the subnet mask.            *)
DhcpForm == [first : BOOLEAN, server : {"near", "far", "none"}, sname : BOOLEAN, mask : BOOLEAN]
ASSUME DhcpFormsAssumption == DhcpForms \subseteq DhcpForm

VARIABLES
  dhpc,            \* "start", "recv", "done" or "SYSERR"
  dhtry, dhread,   \* i and j: sends and reads so far
  dhsnd,           \* dmsg_snd
  dhsent,          \* the messages sent, which any server may get at any time
  dhnet,           \* the answers sent, each of which may come at any time, often or never
  dhslot,          \* the UDP slot is registered
  dhdata,          \* NetData: ipucast, ipvalid, whether ipmask is set, bootserver
  dhform,          \* the form of each server's answers
  dhleases         \* what the servers have granted, and under which transaction number
DhcpVars == <<dhpc, dhtry, dhread, dhsnd, dhsent, dhnet, dhslot, dhdata, dhform, dhleases>>

Discover == [type |-> "discover", server |-> "any", addr |-> DhcpNoAddr]
Request(offer) == [type |-> "request", server |-> offer.from, addr |-> offer.yip]
DhcpAnswer(type, s) == [type |-> type, xid |-> DhcpXid, from |-> s, yip |-> DhcpAddr[s], form |-> dhform[s]]
(* An answer to another machine's request.                                *)
DhcpOther(xid, form) == [type |-> "ack", xid |-> xid, from |-> "other", yip |-> 99, form |-> form]
Lease(m) == [xid |-> m.xid, addr |-> m.yip]

DhcpInit ==
  /\ dhpc = "start" /\ dhtry = 0 /\ dhread = 0 /\ dhsnd = Discover /\ dhsent = {}
  /\ dhslot = FALSE
  /\ dhdata = [ipucast |-> DhcpNoAddr, ipvalid |-> FALSE, ipmask |-> FALSE, bootserver |-> "none"]
  /\ dhform \in [DhcpServer -> DhcpForms]
  /\ \E xid \in DhcpXids, form \in DhcpForms :
       dhnet = {DhcpOther(xid, form)} /\ dhleases = {Lease(DhcpOther(xid, form))}

(* A server answers a message that is for it; a lease it has granted, it   *)
(* may confirm again, or refuse.                                           *)
DhcpServes(s) ==
  /\ \E m \in dhsent :
       \/ /\ m.type = "discover" /\ dhnet' = dhnet \cup {DhcpAnswer("offer", s)}
          /\ UNCHANGED dhleases
       \/ /\ m.type = "request" /\ m.server = s
          /\ \/ dhnet' = dhnet \cup {DhcpAnswer("ack", s)} /\ dhleases' = dhleases \cup {Lease(DhcpAnswer("ack", s))}
             \/ dhnet' = dhnet \cup {DhcpAnswer("nak", s)} /\ UNCHANGED dhleases
  /\ UNCHANGED <<dhpc, dhtry, dhread, dhsnd, dhsent, dhslot, dhform, dhdata>>

getlocalip ==
  /\ dhpc = "start"
  /\ \/ dhpc' = "recv" /\ dhslot' = TRUE /\ dhsent' = {dhsnd}
     \/ dhpc' = "SYSERR" /\ UNCHANGED <<dhslot, dhsent>>   \* no slot is free
  /\ UNCHANGED <<dhtry, dhread, dhsnd, dhnet, dhdata, dhform, dhleases>>

(* Three reads, whatever they give, and the last message is sent again.    *)
NextRead(snd) ==
  LET again == dhread = 2
      fails == again /\ dhtry + 1 = DHCP_RETRY
  IN /\ dhread' = IF again THEN 0 ELSE dhread + 1
     /\ dhtry' = IF again THEN dhtry + 1 ELSE dhtry
     /\ dhpc' = IF fails THEN "SYSERR" ELSE "recv"
     /\ dhslot' = ~fails
     /\ dhsnd' = snd
     /\ dhsent' = dhsent \cup (IF snd # dhsnd \/ (again /\ ~fails) THEN {snd} ELSE {})
     /\ UNCHANGED dhdata
DhcpTimesOut == dhpc = "recv" /\ NextRead(dhsnd) /\ UNCHANGED <<dhnet, dhform, dhleases>>
(* udp_recv() fails when a message of another kind wakes it.               *)
DhcpFails ==
  /\ dhpc = "recv" /\ dhpc' = "SYSERR"
  /\ UNCHANGED <<dhtry, dhread, dhsnd, dhsent, dhnet, dhslot, dhdata, dhform, dhleases>>

(* As the code would be if it did not look at the transaction's number.    *)
BugMine(m) == TRUE
(* The hardware address of the answer is not looked at.                    *)
Mine(m) == m.xid = DhcpXid
OfferComes(m) ==
  IF m.form.server = "none"
  THEN dhpc' = "SYSERR" /\ UNCHANGED <<dhtry, dhread, dhsnd, dhsent, dhslot, dhdata>>
  ELSE NextRead(Request(m))
(* The boot server is the one that is named, or else the DHCP server.      *)
Configures(m) ==
  LET boot == IF m.form.sname THEN "named" ELSE IF m.form.server = "near" THEN m.from ELSE "none"
  IN /\ dhdata' = [ipucast |-> m.yip, ipvalid |-> TRUE, ipmask |-> m.form.mask \/ dhdata.ipmask, bootserver |-> boot]
     /\ dhpc' = IF boot = "none" THEN "SYSERR" ELSE "done"
     /\ dhslot' = FALSE /\ UNCHANGED <<dhtry, dhread, dhsnd, dhsent>>
DhcpReceives(m) ==
  /\ dhpc = "recv" /\ UNCHANGED <<dhnet, dhform, dhleases>>
  /\ IF ~Mine(m) THEN NextRead(dhsnd)
     ELSE IF m.type = "offer" THEN OfferComes(m)
     ELSE IF m.type # "ack" \/ ~m.form.first THEN NextRead(dhsnd)
     ELSE Configures(m)

DhcpNext ==
  \/ getlocalip \/ DhcpTimesOut \/ DhcpFails
  \/ \E s \in DhcpServer : DhcpServes(s)
  \/ \E m \in dhnet : DhcpReceives(m)
DhcpSpec == DhcpInit /\ [][DhcpNext]_DhcpVars

(* The machine uses an address only if a server has granted it under the   *)
(* transaction number of this machine, to this one or to another with the  *)
(* same four bytes, whichever answers to earlier messages, of other        *)
(* servers or to other machines come in between; and when it goes on it    *)
(* has a boot server as well (dhcp.c:189).                                 *)
DhcpUsesItsLease ==
  /\ dhdata.ipvalid => [xid |-> DhcpXid, addr |-> dhdata.ipucast] \in dhleases
  /\ dhpc = "done" => dhdata.ipvalid /\ dhdata.bootserver # "none"
=============================================================================
