---------------------------- MODULE NetworkProofs ----------------------------
(***************************************************************************)
(* Theorems about the network code: TFTP, DHCP and the rings of the        *)
(* Ethernet driver; for any number of blocks, servers and frames, and      *)
(* whatever the network does to them.                                      *)
(***************************************************************************)
EXTENDS Tftp, Dhcp, EthRings, SchedProofs

-----------------------------------------------------------------------------
(* What tftpget_mb() stores is the beginning of the file, for every size,  *)
(* block size and room, and whatever the network loses, repeats or delays. *)

(* Where a transfer stands: blocks before the expected one are stored, and *)
(* what the network carries are blocks of the file.                        *)
Sound(d) ==
  d.op = "TFTP_DATA" => \E k \in TftpBlocks : d.blk = k /\ d.bytes = TftpBytes(k)
FirstBytes(n) == [i \in 1 .. n |-> i]
Stored(n) == n \in Nat /\ n <= tftpsize /\ n <= TftpRoom /\ tftpstored = FirstBytes(n)

TftpInv ==
  /\ tftpsize \in TftpSizes
  /\ \A d \in tftpnet : Sound(d)
  /\ expected \in TftpBlocks
  /\ tftppc \in {"idle", "send", "wait", "last", "done", "error"}
  /\ \E n \in Nat : Stored(n)
  /\ tftppc \in {"idle", "send", "wait"} => Stored((expected - 1) * TFTP_MAXDATA)
  /\ tftppc = "last" => Stored(tftpsize)
  /\ tftppc = "done" => Stored(Least(tftpsize, TftpRoom))

-----------------------------------------------------------------------------
(* Arithmetic of blocks. *)
LEMMA Cut == ASSUME NEW k \in Nat, NEW w \in Nat, k < w PROVE k % w = k
  OBVIOUS

LEMMA ProductLess ==
  ASSUME NEW a \in Int, NEW b \in Int, NEW m \in Nat \ {0}, a * m < b * m PROVE a < b
<1>1. SUFFICES ASSUME b <= a PROVE FALSE OBVIOUS
<1>2. (a - b) * m >= 0 BY <1>1
<1>3. (a - b) * m = a * m - b * m OBVIOUS
<1>. QED BY <1>2, <1>3

(* Block numbers are not cut. *)
LEMMA BlockNumber ==
  ASSUME tftpsize \in TftpSizes, NEW k \in TftpBlocks
  PROVE  k \in Nat \ {0} /\ k < TftpWord /\ k % TftpWord = k
<1>1. k \in Nat \ {0} /\ (k - 1) * TFTP_MAXDATA <= tftpsize BY TftpAssumption DEF TftpBlocks
<1>2. (k - 1) * TFTP_MAXDATA < (TftpWord - 1) * TFTP_MAXDATA BY <1>1, TftpAssumption
<1>3. k - 1 < TftpWord - 1 BY <1>1, <1>2, ProductLess, TftpAssumption
<1>4. k < TftpWord BY <1>1, <1>3, TftpAssumption
<1>. QED BY <1>1, <1>4, Cut, TftpAssumption

-----------------------------------------------------------------------------
(* The network: whatever is sent, what comes back is a block of the file.  *)
LEMMA AnswersSound ==
  ASSUME tftpsize \in TftpSizes, NEW out, NEW port, NEW d \in ServerAnswers(out, port)
  PROVE  Sound(d)
<1>1. 1 \in TftpBlocks BY TftpAssumption DEF TftpBlocks
<1>2. ASSUME NEW k \in TftpBlocks, NEW q, d = TftpData(k, q) PROVE Sound(d)
  <2>1. d.blk = k /\ d.bytes = TftpBytes(k) BY <1>2, BlockNumber DEF TftpData
  <2>. QED BY <2>1 DEF Sound
<1>3. CASE d = [op |-> "TFTP_ERROR", port |-> port] BY <1>3 DEF Sound
<1>4. \/ \E k \in TftpBlocks : \E q : d = TftpData(k, q)
      \/ d = [op |-> "TFTP_ERROR", port |-> port]
  <2>1. CASE port = "TFTP_PORT"
    <3>1. \E q \in TftpPort : d = TftpData(1, q) BY <2>1 DEF ServerAnswers
    <3>. QED BY <3>1, <1>1
  <2>2. CASE port # "TFTP_PORT"
    <3>1. \/ \E j \in TftpBlocks : j + 1 \in TftpBlocks /\ d = TftpData(j + 1, port)
          \/ d = [op |-> "TFTP_ERROR", port |-> port] BY <2>2 DEF ServerAnswers
    <3>. QED BY <3>1
  <2>. QED BY <2>1, <2>2
<1>. QED BY <1>2, <1>3, <1>4

LEMMA SendsSound ==
  ASSUME tftpsize \in TftpSizes, tftpsize' = tftpsize, \A d \in tftpnet : Sound(d),
         NEW out, NEW port, TftpSends(out, port)
  PROVE  \A d \in tftpnet' : Sound(d)'
<1>1. TAKE d \in tftpnet'
<1>2. d \in tftpnet \/ d \in ServerAnswers(out, port) BY <1>1 DEF TftpSends
<1>3. Sound(d) BY <1>2, AnswersSound
<1>. QED BY <1>3 DEF Sound, TftpBlocks, TftpBytes

-----------------------------------------------------------------------------
(* A block that is expected continues what is stored. *)
LEMMA Continues ==
  ASSUME NEW n \in Nat, NEW f \in Nat, NEW b \in Nat, f <= b
  PROVE  FirstBytes(n) \o SubSeq([i \in 1 .. b |-> n + i], 1, f) = FirstBytes(n + f)
<1>1. SubSeq([i \in 1 .. b |-> n + i], 1, f) = [i \in 1 .. f |-> n + i] OBVIOUS
<1>2. FirstBytes(n) \o [i \in 1 .. f |-> n + i] = FirstBytes(n + f) BY DEF FirstBytes
<1>. QED BY <1>1, <1>2

LEMMA ReceivesKeeps == ASSUME TftpInv, NEW d \in tftpnet, TftpReceives(d) PROVE TftpInv'
<1>1. tftpsize' = tftpsize /\ tftpnet' = tftpnet /\ tftppc = "wait" BY DEF TftpReceives
<1>2. \A x \in tftpnet' : Sound(x)' BY <1>1 DEF TftpInv, Sound, TftpBlocks, TftpBytes
<1>3. CASE d.op = "TFTP_ERROR"
  <2>1. tftppc' = "error" /\ UNCHANGED <<expected, tftpstored>> BY <1>3 DEF TftpReceives, TftpMatches
  <2>. QED BY <1>1, <1>2, <2>1 DEF TftpInv, Stored, TftpBlocks
<1>4. CASE d.op # "TFTP_ERROR" /\ ~TftpMatches(d)
  <2>1. UNCHANGED <<tftppc, expected, tftpstored>> BY <1>4 DEF TftpReceives
  <2>. QED BY <1>1, <1>2, <2>1 DEF TftpInv, Stored, TftpBlocks
<1>5. CASE TftpMatches(d)
  <2> DEFINE m == TFTP_MAXDATA
  <2>1. /\ Stored((expected - 1) * m) /\ tftpsize \in TftpSizes /\ expected \in TftpBlocks
        /\ m \in Nat \ {0} /\ tftpsize \in Nat /\ TftpRoom \in Nat /\ expected \in Nat \ {0}
    BY <1>1, TftpAssumption DEF TftpInv, TftpBlocks
  <2>2. PICK n \in Nat : n = (expected - 1) * m /\ n <= tftpsize /\ n <= TftpRoom
    BY <2>1 DEF Stored
  <2>3. PICK b \in Nat : b = Least(m, tftpsize - n) BY <2>1, <2>2 DEF Least
  <2>4. b <= m /\ n + b <= tftpsize /\ (b < m => n + b = tftpsize) BY <2>1, <2>2, <2>3 DEF Least
  <2>5. PICK f \in Nat : f = Least(b, TftpRoom - n)
    <3>1. TftpRoom - n \in Nat BY <2>1, <2>2
    <3>2. Least(b, TftpRoom - n) \in Nat BY <3>1 DEF Least
    <3>. QED BY <3>2
  <2>6. f <= b /\ n + f <= TftpRoom /\ (f < b => n + f = TftpRoom) BY <2>1, <2>2, <2>3, <2>5 DEF Least
  <2>7. d.bytes = [i \in 1 .. b |-> n + i]
    <3>1. d.op = "TFTP_DATA" /\ d.blk = expected BY <1>5 DEF TftpMatches
    <3>2. d.bytes = TftpBytes(expected) BY <3>1 DEF TftpInv, Sound
    <3>. QED BY <3>2, <2>2, <2>3 DEF TftpBytes
  <2>8. Len(d.bytes) = b /\ Len(tftpstored) = n /\ tftpstored = FirstBytes(n)
    BY <2>1, <2>2, <2>7 DEF Stored, FirstBytes
  <2> HIDE DEF m
  <2>9. tftpstored' = FirstBytes(n + f)
    <3>1. tftpstored' = tftpstored \o SubSeq(d.bytes, 1, f)
      BY <1>5, <2>8, <2>5 DEF TftpReceives, TftpMatches
    <3>2. FirstBytes(n) \o SubSeq([i \in 1 .. b |-> n + i], 1, f) = FirstBytes(n + f) BY <2>6, Continues
    <3>. QED BY <3>1, <3>2, <2>8, <2>7
  <2>10. Stored(n + f)'
    <3>1. n + f \in Nat /\ n + f <= tftpsize BY <2>1, <2>4, <2>6
    <3>. QED BY <3>1, <2>9, <2>6, <1>1 DEF Stored
  <2>11. \/ f < b /\ tftppc' = "done" /\ expected' = expected
         \/ f = b /\ b < m /\ tftppc' = "last" /\ expected' = expected
         \/ f = b /\ b = m /\ tftppc' = "send" /\ expected' = (expected + 1) % TftpWord
    BY <1>5, <2>8, <2>1, <2>4, <2>5, <2>6 DEF TftpReceives, TftpMatches, m
  <2> DEFINE Rest == /\ (tftpsize \in TftpSizes)' /\ (\A x \in tftpnet : Sound(x))'
                     /\ (\E k \in Nat : Stored(k))'
  <2>12. Rest
    <3>1. n + f \in Nat OBVIOUS
    <3>. QED BY <3>1, <2>10, <2>1, <1>1, <1>2
  <2>13. expected' = expected => (expected \in TftpBlocks)' BY <2>1, <1>1 DEF TftpBlocks
  <2>14. CASE f < b
    <3>1. n + f = Least(tftpsize, TftpRoom) BY <2>14, <2>1, <2>4, <2>6 DEF Least
    <3>2. Stored(Least(tftpsize, TftpRoom))' BY <3>1, <2>10, <1>1 DEF Stored
    <3>3. tftppc' = "done" /\ expected' = expected BY <2>11, <2>14
    <3>. QED BY <3>2, <3>3, <2>12, <2>13 DEF TftpInv
  <2>15. CASE f = b /\ b < m
    <3>1. n + f = tftpsize BY <2>15, <2>1, <2>4
    <3>2. Stored(tftpsize)' BY <3>1, <2>10, <1>1 DEF Stored
    <3>3. tftppc' = "last" /\ expected' = expected BY <2>11, <2>15, <2>1
    <3>. QED BY <3>2, <3>3, <2>12, <2>13 DEF TftpInv
  <2>16. CASE f = b /\ b = m
    <3>1. n + m = expected * m BY <2>1, <2>2
    <3>2. expected * m <= tftpsize BY <3>1, <2>16, <2>4
    <3>3. expected <= tftpsize BY <3>2, <2>1
    <3>4. expected + 1 \in TftpBlocks BY <3>2, <3>3, <2>1 DEF TftpBlocks, m
    <3>5. tftppc' = "send" /\ expected' = (expected + 1) % TftpWord BY <2>11, <2>16, <2>1
    <3>6. expected' = expected + 1 BY <3>4, <3>5, <2>1, BlockNumber
    <3>7. (expected' - 1) * TFTP_MAXDATA = n + f BY <3>6, <3>1, <2>16, <2>1 DEF m
    <3>8. Stored((expected - 1) * TFTP_MAXDATA)' BY <3>7, <2>10 DEF Stored
    <3>9. (expected \in TftpBlocks)' BY <3>4, <3>6, <1>1 DEF TftpBlocks
    <3>. QED BY <3>5, <3>8, <3>9, <2>12 DEF TftpInv
  <2>. QED BY <2>11, <2>14, <2>15, <2>16
<1>. QED BY <1>3, <1>4, <1>5 DEF TftpReceives

-----------------------------------------------------------------------------
LEMMA TftpInitHolds == TftpInit => TftpInv
<1>1. SUFFICES ASSUME TftpInit PROVE TftpInv OBVIOUS
<1>2. tftpsize \in Nat /\ TftpRoom \in Nat /\ TFTP_MAXDATA \in Nat \ {0} BY <1>1, TftpAssumption DEF TftpInit
<1>3. (expected - 1) * TFTP_MAXDATA = 0 /\ expected = 1 BY <1>1, <1>2 DEF TftpInit
<1>4. 1 \in TftpBlocks BY <1>2 DEF TftpBlocks
<1>5. Stored(0) BY <1>1, <1>2 DEF TftpInit, Stored, FirstBytes
<1>. QED BY <1>1, <1>3, <1>4, <1>5 DEF TftpInit, TftpInv

LEMMA TftpStepKeeps == TftpInv /\ [TftpNext]_TftpVars => TftpInv'
<1>. SUFFICES ASSUME TftpInv, [TftpNext]_TftpVars PROVE TftpInv' OBVIOUS
<1>1. CASE tftpget BY <1>1 DEF tftpget, TftpInv, Stored, Sound, TftpBlocks, TftpBytes
<1>2. CASE tftp_send1
  <2>1. \A d \in tftpnet' : Sound(d)' BY <1>2, SendsSound DEF tftp_send1, TftpInv
  <2>. QED BY <1>2, <2>1 DEF tftp_send1, TftpInv, Stored, TftpBlocks
<1>3. CASE TftpTimesOut BY <1>3 DEF TftpTimesOut, TftpInv, Stored, Sound, TftpBlocks, TftpBytes
<1>4. CASE TftpEnds
  <2>1. \A d \in tftpnet' : Sound(d)' BY <1>4, SendsSound DEF TftpEnds, TftpInv
  <2>2. Stored(Least(tftpsize, TftpRoom))
    <3>1. Stored(tftpsize) /\ tftpsize \in Nat /\ TftpRoom \in Nat
      BY <1>4, TftpAssumption DEF TftpEnds, TftpInv
    <3>. QED BY <3>1 DEF Stored, Least
  <2>. QED BY <1>4, <2>1, <2>2 DEF TftpEnds, TftpInv, Stored, TftpBlocks
<1>5. CASE TftpSendFails BY <1>5 DEF TftpSendFails, TftpInv, Stored, Sound, TftpBlocks, TftpBytes
<1>6. CASE \E d \in tftpnet : TftpReceives(d) BY <1>6, ReceivesKeeps
<1>7. CASE UNCHANGED TftpVars BY <1>7 DEF TftpVars, TftpInv, Stored, Sound, TftpBlocks, TftpBytes
<1>. QED BY <1>1, <1>2, <1>3, <1>4, <1>5, <1>6, <1>7 DEF TftpNext

LEMMA TftpInvShows == TftpInv => TftpPrefix
<1>. SUFFICES ASSUME TftpInv PROVE TftpPrefix OBVIOUS
<1>1. ASSUME NEW n \in Nat, Stored(n) PROVE tftpstored = FirstBytes(Len(tftpstored)) /\ Len(tftpstored) = n
  BY <1>1 DEF Stored, FirstBytes
<1>2. PICK n \in Nat : Stored(n) BY DEF TftpInv
<1>3. tftppc = "done" => Len(tftpstored) = Least(tftpsize, TftpRoom) BY <1>1 DEF TftpInv, Stored
<1>. QED BY <1>1, <1>2, <1>3 DEF TftpPrefix, Stored, FirstBytes

(* For every file whose blocks have different numbers, what is stored is   *)
(* its beginning, and all of it, or of the room, when the call succeeds,   *)
(* whatever comes late, twice or out of order (tftp.c:82).                 *)
THEOREM TftpPrefixHolds == TftpSpec => []TftpPrefix
<1>1. TftpInv /\ [TftpNext]_TftpVars => TftpInv' BY TftpStepKeeps
<1>2. TftpInit => TftpInv BY TftpInitHolds
<1>3. TftpInv => TftpPrefix BY TftpInvShows
<1>. QED BY <1>1, <1>2, <1>3, PTL DEF TftpSpec

-----------------------------------------------------------------------------
(* The machine's address is one that a server granted under its            *)
(* transaction number, for any number of servers, whatever forms their     *)
(* answers have.                                                           *)

(* An acknowledgement says what was granted, and leases are never taken    *)
(* back.                                                                   *)
DhcpInv ==
  /\ \A m \in dhnet : m.type = "ack" => Lease(m) \in dhleases
  /\ DhcpUsesItsLease

LEMMA DhcpInitHolds == DhcpInit => DhcpInv
<1>. SUFFICES ASSUME DhcpInit PROVE DhcpInv OBVIOUS
<1>1. \A m \in dhnet : Lease(m) \in dhleases BY DEF DhcpInit
<1>2. ~dhdata.ipvalid /\ dhpc = "start" BY DEF DhcpInit
<1>. QED BY <1>1, <1>2 DEF DhcpInv, DhcpUsesItsLease

(* A server answers: what it acknowledges it grants.                       *)
LEMMA ServesKeeps == ASSUME DhcpInv, NEW s \in DhcpServer, DhcpServes(s) PROVE DhcpInv'
<1>1. dhpc' = dhpc /\ dhdata' = dhdata BY DEF DhcpServes
<1>2. \/ dhleases' = dhleases /\ dhnet' = dhnet \cup {DhcpAnswer("offer", s)}
      \/ dhleases' = dhleases /\ dhnet' = dhnet \cup {DhcpAnswer("nak", s)}
      \/ dhleases' = dhleases \cup {Lease(DhcpAnswer("ack", s))} /\ dhnet' = dhnet \cup {DhcpAnswer("ack", s)}
  BY DEF DhcpServes
<1>3. \A type : DhcpAnswer(type, s).type = type BY DEF DhcpAnswer
<1>4. ASSUME NEW m \in dhnet', m.type = "ack" PROVE Lease(m) \in dhleases'
  <2>1. CASE m \in dhnet BY <1>2, <1>4, <2>1 DEF DhcpInv
  <2>2. CASE m \notin dhnet BY <1>2, <1>3, <1>4, <2>2
  <2>. QED BY <2>1, <2>2
<1>5. dhleases \subseteq dhleases' BY <1>2
<1>. QED BY <1>1, <1>4, <1>5 DEF DhcpInv, DhcpUsesItsLease

(* Another read neither sets the address nor ends the call with success.   *)
LEMMA NextReadKeeps ==
  ASSUME DhcpInv, NEW snd, NextRead(snd), UNCHANGED <<dhnet, dhleases>> PROVE DhcpInv'
<1>1. dhdata' = dhdata /\ dhpc' # "done" BY DEF NextRead
<1>. QED BY <1>1 DEF DhcpInv, DhcpUsesItsLease

LEMMA DhcpReceivesKeeps == ASSUME DhcpInv, NEW m \in dhnet, DhcpReceives(m) PROVE DhcpInv'
<1>1. dhpc = "recv" /\ UNCHANGED <<dhnet, dhleases>> BY DEF DhcpReceives
<1>2. CASE NextRead(dhsnd) \/ NextRead(Request(m)) BY <1>1, <1>2, NextReadKeeps
<1>3. CASE dhpc' = "SYSERR" /\ dhdata' = dhdata BY <1>1, <1>3 DEF DhcpInv, DhcpUsesItsLease
<1>4. CASE Mine(m) /\ m.type = "ack" /\ Configures(m)
  <2>1. dhdata'.ipvalid /\ dhdata'.ipucast = m.yip BY <1>4 DEF Configures
  <2>2. dhpc' = "done" => dhdata'.bootserver # "none" BY <1>4 DEF Configures
  <2>3. [xid |-> DhcpXid, addr |-> m.yip] \in dhleases BY <1>4 DEF DhcpInv, Lease, Mine
  <2>. QED BY <1>1, <2>1, <2>2, <2>3 DEF DhcpInv, DhcpUsesItsLease
<1>5. \/ NextRead(dhsnd) \/ NextRead(Request(m))
      \/ dhpc' = "SYSERR" /\ dhdata' = dhdata
      \/ Mine(m) /\ m.type = "ack" /\ Configures(m)
  BY DEF DhcpReceives, OfferComes
<1>. QED BY <1>2, <1>3, <1>4, <1>5

LEMMA DhcpStepKeeps == DhcpInv /\ [DhcpNext]_DhcpVars => DhcpInv'
<1>. SUFFICES ASSUME DhcpInv, [DhcpNext]_DhcpVars PROVE DhcpInv' OBVIOUS
<1>1. CASE getlocalip
  <2>1. UNCHANGED <<dhnet, dhdata, dhleases>> /\ dhpc' # "done" BY <1>1 DEF getlocalip
  <2>. QED BY <2>1 DEF DhcpInv, DhcpUsesItsLease
<1>2. CASE DhcpTimesOut BY <1>2, NextReadKeeps DEF DhcpTimesOut
<1>6. CASE DhcpFails BY <1>6 DEF DhcpFails, DhcpInv, DhcpUsesItsLease
<1>3. CASE \E s \in DhcpServer : DhcpServes(s) BY <1>3, ServesKeeps
<1>4. CASE \E m \in dhnet : DhcpReceives(m) BY <1>4, DhcpReceivesKeeps
<1>5. CASE UNCHANGED DhcpVars BY <1>5 DEF DhcpVars, DhcpInv, DhcpUsesItsLease
<1>. QED BY <1>1, <1>2, <1>3, <1>4, <1>5, <1>6 DEF DhcpNext

(* For any servers, however often and late each answer comes, and whatever *)
(* other machines are told: an address that is used was granted under this *)
(* machine's transaction number, which another machine may share, and a    *)
(* call that succeeds has it and a boot server (dhcp.c:189).               *)
THEOREM DhcpUsesItsLeaseAlways == DhcpSpec => []DhcpUsesItsLease
<1>1. DhcpInv => DhcpUsesItsLease BY DEF DhcpInv
<1>. QED BY <1>1, DhcpInitHolds, DhcpStepKeeps, PTL DEF DhcpSpec

-----------------------------------------------------------------------------
(* The descriptors that the device has lie between the driver's indices,   *)
(* and each ring's semaphore counts what may be taken from it.             *)

(* Slots of a ring of n by their distance from a slot h.                   *)
RingAt(h, k, n)   == IF h + k < n THEN h + k ELSE h + k - n
RingDist(h, i, n) == IF i >= h THEN i - h ELSE i - h + n

LEMMA EthModulo ==
  ASSUME NEW n \in Nat \ {0}, NEW h \in 0 .. n - 1, NEW k \in 0 .. n
  PROVE  (h + k) % n = RingAt(h, k, n)
<1>1. CASE h + k < n
  BY <1>1 DEF RingAt
<1>2. CASE ~(h + k < n)
  <2>1. PICK x \in 0 .. n - 1 : h + k = n + x
    BY <1>2
  <2>2. (n + x) % n = x
    OBVIOUS
  <2> QED BY <1>2, <2>1, <2>2 DEF RingAt
<1> QED BY <1>1, <1>2

LEMMA RingGap ==
  ASSUME NEW n \in Nat \ {0}, NEW h \in 0 .. n - 1, NEW t \in 0 .. n - 1
  PROVE  (t - h + n) % n = RingDist(h, t, n)
<1>1. CASE t < h
  BY <1>1 DEF RingDist
<1>2. CASE ~(t < h)
  <2>1. PICK x \in 0 .. n - 1 : t - h + n = n + x
    BY <1>2
  <2>2. (n + x) % n = x
    OBVIOUS
  <2> QED BY <1>2, <2>1, <2>2 DEF RingDist
<1> QED BY <1>1, <1>2

LEMMA RingArith ==
  ASSUME NEW n \in Nat \ {0}, NEW h \in 0 .. n - 1
  PROVE  /\ \A i \in 0 .. n - 1 : RingDist(h, i, n) \in 0 .. n - 1 /\ RingAt(h, RingDist(h, i, n), n) = i
         /\ \A k \in 0 .. n - 1 : RingAt(h, k, n) \in 0 .. n - 1 /\ RingDist(h, RingAt(h, k, n), n) = k
         /\ RingAt(h, n, n) = h /\ RingAt(h, 0, n) = h
BY DEF RingAt, RingDist

LEMMA RingPlace ==
  ASSUME NEW n \in Nat \ {0}, NEW h \in 0 .. n - 1, NEW i \in 0 .. n - 1
  PROVE  \E k \in 0 .. n - 1 : k = RingDist(h, i, n) /\ RingAt(h, k, n) = i
BY RingArith

LEMMA RingOneFurther ==
  ASSUME NEW n \in Nat, NEW h \in Nat, NEW l \in Nat, h < n, l + 1 < n
  PROVE  /\ RingAt(RingAt(h, l, n), 1, n) = RingAt(h, l + 1, n)
         /\ RingAt(h, l + 1, n) \in 0 .. n - 1
BY DEF RingAt

LEMMA RingNext ==
  ASSUME NEW n \in Nat \ {0}, NEW h \in 0 .. n - 1, NEW t \in 0 .. n - 1, NEW v, v = RingAt(t, 1, n)
  PROVE  /\ v \in 0 .. n - 1
         /\ v = h => RingDist(h, t, n) = n - 1
         /\ v # h => RingDist(h, v, n) = RingDist(h, t, n) + 1
<1>1. CASE t + 1 < n
  <2>1. v = t + 1
    BY <1>1 DEF RingAt
  <2> QED BY <1>1, <2>1 DEF RingDist
<1>2. CASE ~(t + 1 < n)
  <2>1. t = n - 1 /\ v = 0
    BY <1>2 DEF RingAt
  <2> QED BY <2>1 DEF RingDist
<1> QED BY <1>1, <1>2

(* The head moves by m.                                                    *)
RingMoved(h, m, g, n) ==
  /\ g \in 0 .. n - 1
  /\ \A i \in 0 .. n - 1 : RingDist(g, i, n) = IF RingDist(h, i, n) >= m THEN RingDist(h, i, n) - m
                                               ELSE RingDist(h, i, n) - m + n
  /\ \A k \in 0 .. n - 1 - m : RingAt(g, k, n) = RingAt(h, m + k, n)
LEMMA RingMoves ==
  ASSUME NEW n \in Nat \ {0}, NEW h \in 0 .. n - 1, NEW m \in 0 .. n - 1
  PROVE  RingMoved(h, m, RingAt(h, m, n), n)
BY DEF RingAt, RingDist, RingMoved

-----------------------------------------------------------------------------
(* Transmit: before the ring has been full, the semaphore counts its free  *)
(* descriptors, the DMA's lie between head and tail; once it has been, the *)
(* ring looks empty to ethhandler() and nobody is let in again.            *)
TxTyped ==
  /\ ethtx = [own |-> ethtx.own, head |-> ethtx.head, tail |-> ethtx.tail, dma |-> ethtx.dma]
  /\ ethtx.own \in [TxSlot -> BOOLEAN]
  /\ ethtx.head \in TxSlot /\ ethtx.tail \in TxSlot /\ ethtx.dma \in TxSlot
  /\ ethosem = [count |-> ethosem.count, line |-> ethosem.line, let |-> {}]
  /\ ethosem.count \in Int
TxOpen ==
  "tx" \notin ethfull =>
    /\ ethosem.line = <<>>
    /\ ethosem.count = EthTxSize - RingDist(ethtx.head, ethtx.tail, EthTxSize)
    /\ \A i \in TxSlot : ethtx.own[i] =>
          RingDist(ethtx.head, i, EthTxSize) < RingDist(ethtx.head, ethtx.tail, EthTxSize)
TxShut == "tx" \in ethfull => ethosem.count <= 0 /\ ethtx.tail = ethtx.head /\ ethosem.line \in Seq(EthSender)
TxInv == TxTyped /\ TxOpen /\ TxShut

LEMMA TxSize == EthTxSize \in Nat \ {0} /\ TxSlot = 0 .. EthTxSize - 1
BY EthAssumption DEF TxSlot

LEMMA TxFills ==
  ASSUME TxInv, "tx" \notin ethfull, Fills, ethosem' = [ethosem EXCEPT !.count = ethosem.count - 1]
  PROVE  TxInv'
<1>1. PICK own, h, t, d : ethtx = [own |-> own, head |-> h, tail |-> t, dma |-> d]
  BY DEF TxInv, TxTyped
<1>2. PICK c, l, e : ethosem = [count |-> c, line |-> l, let |-> e] /\ l = <<>> /\ e = {}
  BY DEF TxInv, TxTyped, TxOpen
<1>3. /\ own \in [TxSlot -> BOOLEAN] /\ h \in TxSlot /\ t \in TxSlot /\ d \in TxSlot /\ c \in Int
  BY <1>1, <1>2 DEF TxInv, TxTyped
<1>4. PICK n, u : n = EthTxSize /\ u = RingDist(h, t, n)
  OBVIOUS
<1>5. /\ c = n - u
      /\ \A i \in TxSlot : own[i] => RingDist(h, i, n) < u
  BY <1>1, <1>2, <1>4 DEF TxInv, TxOpen
<1>6. PICK t2, own2 : t2 = (t + 1) % n /\ own2 = [own EXCEPT ![t] = TRUE]
  OBVIOUS
<1>7. ethtx' = [own |-> own2, head |-> h, tail |-> t2, dma |-> d]
  <2>1. ethtx' = [ethtx EXCEPT !.own[t] = TRUE, !.tail = t2]
    BY <1>1, <1>4, <1>6 DEF Fills
  <2> QED BY <1>1, <1>6, <2>1
<1>b. PICK b \in Int : b = c - 1
  BY <1>3
<1>8. ethosem' = [count |-> b, line |-> l, let |-> e]
  <2>1. ethosem.count = c
    BY <1>2
  <2>2. ethosem' = [ethosem EXCEPT !.count = b]
    BY <1>b, <2>1
  <2> QED BY <1>2, <2>2
<1>f. ethosem'.count = b /\ ethosem'.line = l /\ ethosem'.let = e
  <2>1. PICK o : o = ethosem'
    OBVIOUS
  <2>2. o.count = b /\ o.line = l /\ o.let = e
    BY <1>8, <2>1
  <2> QED BY <2>1, <2>2
<1>9. /\ n \in Nat \ {0} /\ TxSlot = 0 .. n - 1 /\ u \in 0 .. n - 1
      /\ t2 = RingAt(t, 1, n) /\ t2 \in 0 .. n - 1
  <2>1. n \in Nat \ {0} /\ TxSlot = 0 .. n - 1
    BY <1>4, TxSize
  <2>2. 1 \in 0 .. n
    BY <2>1
  <2>3. t2 = RingAt(t, 1, n)
    BY <1>3, <1>6, <2>1, <2>2, EthModulo
  <2> QED BY <1>3, <1>4, <2>1, <2>3 DEF RingAt, RingDist
<1>10. ethfull' = IF t2 = h THEN ethfull \cup {"tx"} ELSE ethfull
  <2>1. ethfull' = IF ethtx'.tail = ethtx.head THEN ethfull \cup {"tx"} ELSE ethfull
    BY DEF Fills
  <2>2. ethtx'.tail = t2 /\ ethtx.head = h
    BY <1>1, <1>7
  <2> QED BY <2>1, <2>2
<1>11. TxTyped'
  <2>1. own2 \in [TxSlot -> BOOLEAN]
    BY <1>3, <1>6
  <2>2. /\ ethtx' = [own |-> ethtx'.own, head |-> ethtx'.head, tail |-> ethtx'.tail, dma |-> ethtx'.dma]
        /\ ethtx'.own = own2 /\ ethtx'.head = h /\ ethtx'.tail = t2 /\ ethtx'.dma = d
    BY <1>7
  <2>3. /\ ethosem' = [count |-> ethosem'.count, line |-> ethosem'.line, let |-> e]
        /\ ethosem'.count = b
    BY <1>8, <1>f
  <2> QED BY <1>2, <1>3, <1>9, <2>1, <2>2, <2>3 DEF TxTyped, TxSlot
<1>12. CASE t2 = h
  <2>1. u = n - 1
    BY <1>3, <1>4, <1>9, <1>12, RingNext
  <2>2. b = 0
    BY <1>5, <1>9, <1>b, <2>1
  <2>3. TxShut' /\ TxOpen'
    <3>1. "tx" \in ethfull'
      BY <1>10, <1>12
    <3>2. ethosem'.count = 0 /\ ethosem'.line \in Seq(EthSender)
      <4>1. l \in Seq(EthSender)
        BY <1>2
      <4> QED BY <1>f, <2>2, <4>1
    <3>3. ethtx'.tail = ethtx'.head
      BY <1>7, <1>12
    <3> QED BY <3>1, <3>2, <3>3 DEF TxShut, TxOpen
  <2> QED BY <1>11, <2>3 DEF TxInv
<1>13. CASE t2 # h
  <2>1. RingDist(h, t2, n) = u + 1
    BY <1>3, <1>4, <1>9, <1>13, RingNext
  <2>2. b = n - (u + 1)
    BY <1>5, <1>9, <1>b
  <2>3. ASSUME NEW i \in TxSlot, own2[i] PROVE RingDist(h, i, n) < u + 1
    <3>1. RingDist(h, i, n) \in Int
      BY <1>3, <1>9 DEF RingDist
    <3>2. CASE i = t
      BY <1>4, <1>9, <3>2
    <3>3. CASE i # t
      BY <1>3, <1>5, <1>6, <1>9, <2>3, <3>1, <3>3
    <3> QED BY <3>2, <3>3
  <2>4. TxOpen'
    <3>1. /\ ethosem'.line = <<>> /\ ethosem'.count = b
          /\ ethtx'.head = h /\ ethtx'.tail = t2 /\ ethtx'.own = own2
      BY <1>2, <1>7, <1>8
    <3> QED BY <1>4, <2>1, <2>2, <2>3, <3>1 DEF TxOpen, TxSlot
  <2>5. TxShut'
    BY <1>10, <1>13 DEF TxShut
  <2> QED BY <1>11, <2>4, <2>5 DEF TxInv
<1> QED BY <1>12, <1>13

LEMMA TxSame == ASSUME TxInv, UNCHANGED ethtransmit, ("tx" \in ethfull') <=> ("tx" \in ethfull) PROVE TxInv'
BY DEF TxInv, TxTyped, TxOpen, TxShut, ethtransmit, TxSlot

LEMMA TxWrites == ASSUME TxInv, NEW p \in EthSender, ethwrite(p) PROVE TxInv'
<1>1. PICK c, l, e : ethosem = [count |-> c, line |-> l, let |-> e] /\ e = {} /\ c \in Int
  BY DEF TxInv, TxTyped
<1>2. CASE ethosem.count > 0
  <2>1. "tx" \notin ethfull
    BY <1>1, <1>2 DEF TxInv, TxShut
  <2>2. Fills /\ ethosem' = [ethosem EXCEPT !.count = ethosem.count - 1]
    BY <1>1, <1>2 DEF ethwrite
  <2> QED BY <2>1, <2>2, TxFills
<1>3. CASE ~(ethosem.count > 0)
  <2>1. /\ ethosem' = [ethosem EXCEPT !.count = @ - 1, !.line = Append(@, p)]
        /\ UNCHANGED <<ethtx, ethfull>>
    BY <1>3 DEF ethwrite
  <2>b. PICK b \in Int : b = c - 1
    BY <1>1
  <2>2. PICK m : m = Append(l, p)
    OBVIOUS
  <2>3. ethosem' = [ethosem EXCEPT !.count = b, !.line = m]
    BY <1>1, <2>1, <2>2, <2>b
  <2>4. PICK o : o = ethosem'
    OBVIOUS
  <2>5. o = [count |-> b, line |-> m, let |-> e]
    BY <1>1, <2>3, <2>4
  <2>6. o.count = b /\ o.line = m /\ o.let = e
    BY <2>5
  <2>7. "tx" \in ethfull
    <3>1. SUFFICES ASSUME "tx" \notin ethfull PROVE FALSE
      OBVIOUS
    <3>2. c = EthTxSize - RingDist(ethtx.head, ethtx.tail, EthTxSize)
      BY <1>1, <3>1 DEF TxInv, TxOpen
    <3>3. RingDist(ethtx.head, ethtx.tail, EthTxSize) \in 0 .. EthTxSize - 1
      BY TxSize, RingArith DEF TxInv, TxTyped
    <3> QED BY <1>1, <1>3, <3>2, <3>3, TxSize
  <2>8. c <= 0 /\ ethtx.tail = ethtx.head /\ l \in Seq(EthSender)
    BY <1>1, <2>7 DEF TxInv, TxShut
  <2>9. TxTyped'
    BY <1>1, <2>1, <2>2, <2>4, <2>5, <2>6 DEF TxInv, TxTyped, TxSlot
  <2>10. m \in Seq(EthSender) /\ b <= 0
    BY <1>1, <2>2, <2>b, <2>8
  <2>11. TxOpen' /\ TxShut'
    BY <2>1, <2>4, <2>6, <2>7, <2>8, <2>10 DEF TxOpen, TxShut
  <2> QED BY <2>9, <2>11 DEF TxInv
<1> QED BY <1>2, <1>3

LEMMA TxSends == ASSUME TxInv, DmaSends PROVE TxInv'
<1>1. PICK own, h, t, d : ethtx = [own |-> own, head |-> h, tail |-> t, dma |-> d]
  BY DEF TxInv, TxTyped
<1>2. own \in [TxSlot -> BOOLEAN] /\ h \in TxSlot /\ t \in TxSlot /\ d \in TxSlot
  BY <1>1 DEF TxInv, TxTyped
<1>3. PICK own2, e : own2 = [own EXCEPT ![d] = FALSE] /\ e = (d + 1) % EthTxSize
  OBVIOUS
<1>4. ethtx' = [own |-> own2, head |-> h, tail |-> t, dma |-> e]
  <2>1. ethtx' = [ethtx EXCEPT !.own[d] = FALSE, !.dma = e]
    BY <1>1, <1>3 DEF DmaSends
  <2> QED BY <1>1, <1>3, <2>1
<1>5. /\ own2 \in [TxSlot -> BOOLEAN] /\ \A i \in TxSlot : own2[i] => own[i]
      /\ e \in TxSlot
  BY <1>2, <1>3, TxSize
<1>6. ethosem' = ethosem /\ ethfull' = ethfull
  BY DEF DmaSends
<1>7. PICK x : x = ethtx'
  OBVIOUS
<1>8. x.own = own2 /\ x.head = h /\ x.tail = t /\ x.dma = e
  BY <1>4, <1>7
<1>9. TxTyped'
  BY <1>2, <1>4, <1>5, <1>6, <1>7, <1>8 DEF TxInv, TxTyped, TxSlot
<1>10. TxOpen' /\ TxShut'
  BY <1>1, <1>5, <1>6, <1>7, <1>8 DEF TxInv, TxOpen, TxShut, TxSlot
<1> QED BY <1>9, <1>10 DEF TxInv

LEMMA LeastOf == ASSUME NEW S \in SUBSET Nat, S # {}
                 PROVE  (CHOOSE k \in S : \A j \in S : k <= j) \in {k \in S : \A j \in S : k <= j}
BY Smallest

(* What ethhandler() counts: the descriptors before the first one the DMA  *)
(* has, none when the ring is full.                                        *)
LEMMA TxCounts ==
  ASSUME TxInv, NEW m, m = Reclaims(ethtx)
  PROVE  /\ m \in 0 .. RingDist(ethtx.head, ethtx.tail, EthTxSize)
         /\ \A i \in TxSlot : ethtx.own[i] /\ RingDist(ethtx.head, i, EthTxSize)
                                    < RingDist(ethtx.head, ethtx.tail, EthTxSize)
                             => m <= RingDist(ethtx.head, i, EthTxSize)
<1>1. PICK n, h, t, u : /\ n = EthTxSize /\ h = ethtx.head /\ t = ethtx.tail /\ u = RingDist(h, t, n)
  OBVIOUS
<1>2. n \in Nat \ {0} /\ TxSlot = 0 .. n - 1 /\ h \in 0 .. n - 1 /\ t \in 0 .. n - 1
  BY <1>1, TxSize DEF TxInv, TxTyped
<1>3. (t - h + n) % n = u /\ u \in 0 .. n - 1
  BY <1>1, <1>2, RingGap, RingArith
<1>4. PICK owned : owned = {k \in 0 .. u - 1 : ethtx.own[(h + k) % n]}
  OBVIOUS
<1>5. m = IF owned = {} THEN u ELSE CHOOSE k \in owned : \A j \in owned : k <= j
  <2>1. (ethtx.tail - ethtx.head + EthTxSize) % EthTxSize = u
    BY <1>1, <1>3
  <2>2. owned = {k \in 0 .. u - 1 : ethtx.own[(ethtx.head + k) % EthTxSize]}
    BY <1>1, <1>4
  <2>3. m = LET p == (ethtx.tail - ethtx.head + EthTxSize) % EthTxSize
                w == {k \in 0 .. p - 1 : ethtx.own[(ethtx.head + k) % EthTxSize]}
            IN IF w = {} THEN p ELSE CHOOSE k \in w : \A j \in w : k <= j
    BY DEF Reclaims
  <2> QED BY <2>1, <2>2, <2>3
<1>6. owned \in SUBSET Nat
  BY <1>3, <1>4
<1>7. m \in 0 .. u /\ \A j \in owned : m <= j
  <2>1. CASE owned = {}
    BY <1>3, <1>5, <2>1
  <2>2. CASE owned # {}
    <3>1. m \in owned /\ \A j \in owned : m <= j
      <4>1. (CHOOSE k \in owned : \A j \in owned : k <= j) \in {k \in owned : \A j \in owned : k <= j}
        BY <1>6, <2>2, LeastOf
      <4>2. m \in {k \in owned : \A j \in owned : k <= j}
        BY <1>5, <2>2, <4>1
      <4> QED BY <4>2
    <3> QED BY <1>3, <1>4, <3>1
  <2> QED BY <2>1, <2>2
<1>8. ASSUME NEW i \in TxSlot, ethtx.own[i], RingDist(h, i, n) < u PROVE m <= RingDist(h, i, n)
  <2>0. RingDist(h, i, n) \in 0 .. n - 1 /\ RingAt(h, RingDist(h, i, n), n) = i
    BY <1>2, RingArith
  <2>1. PICK k \in 0 .. n - 1 : k = RingDist(h, i, n) /\ RingAt(h, k, n) = i
    BY <2>0
  <2>k. k < u
    BY <1>8, <2>1
  <2>2. k \in 0 .. u - 1 /\ k \in 0 .. n
    BY <1>2, <1>3, <2>1, <2>k
  <2>3. (h + k) % n = i
    BY <1>2, <2>1, <2>2, EthModulo
  <2>4. k \in owned
    BY <1>4, <1>8, <2>2, <2>3
  <2> QED BY <1>7, <2>1, <2>4
<1> QED BY <1>1, <1>7, <1>8

LEMMA TxReclaims == ASSUME TxInv, TxHandler PROVE TxInv'
<1>1. PICK own, h, t, d : ethtx = [own |-> own, head |-> h, tail |-> t, dma |-> d]
  BY DEF TxInv, TxTyped
<1>2. own \in [TxSlot -> BOOLEAN] /\ h \in TxSlot /\ t \in TxSlot /\ d \in TxSlot
  BY <1>1 DEF TxInv, TxTyped
<1>3. PICK c, l, e : ethosem = [count |-> c, line |-> l, let |-> e] /\ e = {} /\ c \in Int
  BY DEF TxInv, TxTyped
<1>4. PICK n, u, m : n = EthTxSize /\ u = RingDist(h, t, n) /\ m = Reclaims(ethtx)
  OBVIOUS
<1>5. n \in Nat \ {0} /\ TxSlot = 0 .. n - 1 /\ u \in 0 .. n - 1
  BY <1>2, <1>4, TxSize, RingArith
<1>6. m \in 0 .. u /\ \A i \in TxSlot : own[i] /\ RingDist(h, i, n) < u => m <= RingDist(h, i, n)
  BY <1>1, <1>4, TxCounts
<1>7. PICK g : g = (h + m) % n
  OBVIOUS
<1>8. g = RingAt(h, m, n) /\ m \in 0 .. n - 1
  <2>1. m \in 0 .. n /\ m \in 0 .. n - 1
    BY <1>5, <1>6
  <2> QED BY <1>2, <1>5, <1>7, <2>1, EthModulo
<1>9. /\ g \in 0 .. n - 1
      /\ \A i \in 0 .. n - 1 : RingDist(g, i, n) = IF RingDist(h, i, n) >= m THEN RingDist(h, i, n) - m
                                                   ELSE RingDist(h, i, n) - m + n
  <2>1. h \in 0 .. n - 1 /\ m \in 0 .. n - 1
    BY <1>2, <1>5, <1>8
  <2>2. RingMoved(h, m, g, n)
    BY <1>5, <1>8, <2>1, RingMoves
  <2> QED BY <2>2 DEF RingMoved
<1>10. ethtx' = [own |-> own, head |-> g, tail |-> t, dma |-> d] /\ ethfull' = ethfull
  <2>1. ethtx' = [ethtx EXCEPT !.head = g] /\ ethfull' = ethfull
    BY <1>1, <1>4, <1>7 DEF TxHandler
  <2> QED BY <1>1, <2>1
<1>11. PICK b \in Int : b = c + m
  BY <1>3, <1>5, <1>6
<1>12. PICK l2, e2 : /\ l2 = SubSeq(l, m + 1, Len(l))
                     /\ e2 = e \cup ToSet(SubSeq(l, 1, IF m < Len(l) THEN m ELSE Len(l)))
                     /\ ethosem' = [count |-> b, line |-> l2, let |-> e2]
  BY <1>3, <1>4, <1>11 DEF TxHandler
<1>13. PICK x, o : x = ethtx' /\ o = ethosem'
  OBVIOUS
<1>14. /\ x.own = own /\ x.head = g /\ x.tail = t /\ x.dma = d
       /\ o.count = b /\ o.line = l2 /\ o.let = e2
  BY <1>10, <1>12, <1>13
<1>15. CASE "tx" \in ethfull
  <2>1. c <= 0 /\ t = h /\ l \in Seq(EthSender)
    BY <1>1, <1>3, <1>15 DEF TxInv, TxShut
  <2>2. m = 0
    BY <1>2, <1>4, <1>5, <1>6, <2>1 DEF RingDist
  <2>3. g = h /\ b = c
    BY <1>2, <1>3, <1>5, <1>8, <1>11, <2>2, RingArith
  <2>4. l2 = l /\ e2 = {}
    <3>1. SubSeq(l, 1, 0) = <<>> /\ SubSeq(l, 1, Len(l)) = l /\ Len(l) \in Nat
      BY <2>1
    <3>2. ToSet(<<>>) = {}
      BY DEF ToSet
    <3>3. (IF m < Len(l) THEN m ELSE Len(l)) = 0
      BY <2>2, <3>1
    <3>4. l2 = l
      BY <1>12, <2>2, <3>1
    <3>5. e2 = e \cup ToSet(SubSeq(l, 1, 0))
      BY <1>12, <3>3
    <3> QED BY <1>3, <3>1, <3>2, <3>4, <3>5
  <2>5. TxTyped'
    BY <1>2, <1>3, <1>10, <1>12, <1>13, <1>14, <2>3, <2>4 DEF TxTyped, TxSlot
  <2>6. TxOpen' /\ TxShut'
    BY <1>10, <1>13, <1>14, <1>15, <2>1, <2>3, <2>4 DEF TxOpen, TxShut
  <2> QED BY <2>5, <2>6 DEF TxInv
<1>16. CASE "tx" \notin ethfull
  <2>1. l = <<>> /\ c = n - u /\ \A i \in TxSlot : own[i] => RingDist(h, i, n) < u
    BY <1>1, <1>3, <1>4, <1>16 DEF TxInv, TxOpen
  <2>2. l2 = <<>> /\ e2 = {}
    <3>1. Len(l) = 0 /\ m \in Nat
      BY <1>6, <2>1
    <3>2. SubSeq(l, m + 1, 0) = <<>> /\ SubSeq(l, 1, 0) = <<>>
      BY <2>1, <3>1
    <3>3. ToSet(<<>>) = {}
      BY DEF ToSet
    <3>4. (IF m < Len(l) THEN m ELSE Len(l)) = 0
      BY <3>1
    <3> QED BY <1>3, <1>12, <3>1, <3>2, <3>3, <3>4
  <2>3. RingDist(g, t, n) = u - m
    BY <1>2, <1>4, <1>5, <1>6, <1>9
  <2>4. b = n - (u - m)
    BY <1>5, <1>6, <1>11, <2>1
  <2>5. ASSUME NEW i \in TxSlot, own[i] PROVE RingDist(g, i, n) < u - m
    <3>1. PICK r \in 0 .. n - 1 : r = RingDist(h, i, n)
      BY <1>2, <1>5, RingArith
    <3>2. r < u /\ m <= r
      BY <1>6, <2>1, <2>5, <3>1
    <3>3. RingDist(g, i, n) = r - m
      BY <1>5, <1>6, <1>9, <3>1, <3>2
    <3> QED BY <1>5, <1>6, <3>1, <3>2, <3>3
  <2>6. TxTyped'
    BY <1>2, <1>5, <1>9, <1>10, <1>12, <1>13, <1>14, <2>2 DEF TxTyped, TxSlot
  <2>7. TxOpen' /\ TxShut'
    BY <1>4, <1>10, <1>13, <1>14, <1>16, <2>2, <2>3, <2>4, <2>5 DEF TxOpen, TxShut, TxSlot
  <2> QED BY <2>6, <2>7 DEF TxInv
<1> QED BY <1>15, <1>16

-----------------------------------------------------------------------------
(* Receive, before the ring has been full: the frames that ethread() has   *)
(* not looked at lie from the head on, those up to the tail are counted,   *)
(* and the rest of the descriptors are the DMA's.                          *)
RxShape(own, fr, h, t, d, q, r) ==
  /\ own \in [RxSlot -> BOOLEAN] /\ fr = [i \in RxSlot |-> fr[i]]
  /\ h \in RxSlot /\ t \in RxSlot /\ d \in RxSlot
  /\ q \in Seq(EthAddr) /\ Len(q) < EthRxSize /\ r \in 0 .. Len(q)
  /\ \A i \in RxSlot : own[i] <=> RingDist(h, i, EthRxSize) >= Len(q)
  /\ d = RingAt(h, Len(q), EthRxSize)
  /\ t = RingAt(h, r, EthRxSize)
  /\ \A i \in 1 .. Len(q) : fr[RingAt(h, i - 1, EthRxSize)] = q[i]

LEMMA RxSize == EthRxSize \in Nat \ {0} /\ RxSlot = 0 .. EthRxSize - 1
BY EthAssumption DEF RxSlot

(* The DMA puts a frame, and the ring is not full by that.                 *)
LEMMA RxPuts ==
  ASSUME NEW own, NEW fr, NEW h, NEW t, NEW d, NEW q, NEW r, RxShape(own, fr, h, t, d, q, r),
         NEW f \in EthAddr, NEW own2, NEW fr2, NEW d2,
         own2 = [own EXCEPT ![d] = FALSE], fr2 = [fr EXCEPT ![d] = f], d2 = (d + 1) % EthRxSize,
         \E i \in RxSlot : own2[i]
  PROVE  RxShape(own2, fr2, h, t, d2, Append(q, f), r)
<1>1. PICK n, l, s : n = EthRxSize /\ l = Len(q) /\ s = Append(q, f)
  OBVIOUS
<1>2. n \in Nat \ {0} /\ RxSlot = 0 .. n - 1
  BY <1>1, RxSize
<1>3. /\ h \in 0 .. n - 1 /\ d \in 0 .. n - 1 /\ l \in 0 .. n - 1 /\ r \in 0 .. l
      /\ q \in Seq(EthAddr)
  BY <1>1, <1>2 DEF RxShape
<1>4. d = RingAt(h, l, n) /\ RingDist(h, d, n) = l
  <2>1. d = RingAt(h, l, n)
    BY <1>1 DEF RxShape
  <2> QED BY <1>2, <1>3, <2>1, RingArith
<1>5. /\ s \in Seq(EthAddr) /\ Len(s) = l + 1 /\ s[l + 1] = f
      /\ \A i \in 1 .. l : s[i] = q[i]
  BY <1>1, <1>3
<1>6. l + 1 < n
  <2>1. PICK i \in RxSlot : own2[i]
    OBVIOUS
  <2>2. i # d /\ own[i]
    BY <2>1 DEF RxShape
  <2>3. RingDist(h, i, n) >= l
    BY <1>1, <2>2 DEF RxShape
  <2>4. PICK k \in 0 .. n - 1 : k = RingDist(h, i, n) /\ RingAt(h, k, n) = i
    <3>1. i \in 0 .. n - 1
      BY <1>2
    <3> QED BY <1>2, <1>3, <3>1, RingPlace
  <2>5. k # l
    BY <1>4, <2>2, <2>4
  <2> QED BY <1>2, <1>3, <2>3, <2>4, <2>5
<1>7. d2 = RingAt(h, l + 1, n) /\ d2 \in 0 .. n - 1
  <2>1. d2 = RingAt(d, 1, n)
    <3>1. 1 \in 0 .. n
      BY <1>2
    <3> QED BY <1>1, <1>2, <1>3, <3>1, EthModulo
  <2>2. n \in Nat /\ h \in Nat /\ l \in Nat /\ h < n /\ l + 1 < n
    BY <1>2, <1>3, <1>6
  <2>3. d = RingAt(h, l, n)
    BY <1>4
  <2> QED BY <2>1, <2>2, <2>3, RingOneFurther
<1>8. ASSUME NEW i \in RxSlot PROVE own2[i] <=> RingDist(h, i, n) >= l + 1
  <2>1. PICK k \in 0 .. n - 1 : k = RingDist(h, i, n) /\ RingAt(h, k, n) = i
    <3>1. i \in 0 .. n - 1
      BY <1>2
    <3> QED BY <1>2, <1>3, <3>1, RingPlace
  <2>2. own[i] <=> k >= l
    BY <1>1, <2>1 DEF RxShape
  <2>3. i = d <=> k = l
    BY <1>4, <2>1
  <2>4. own2[i] <=> own[i] /\ i # d
    BY DEF RxShape
  <2> QED BY <1>3, <2>1, <2>2, <2>3, <2>4
<1>9. ASSUME NEW i \in 1 .. l + 1 PROVE fr2[RingAt(h, i - 1, n)] = s[i]
  <2>1. PICK k \in 0 .. n - 1 : k = i - 1
    BY <1>2, <1>3, <1>6
  <2>2. RingAt(h, k, n) \in 0 .. n - 1 /\ RingDist(h, RingAt(h, k, n), n) = k
    BY <1>2, <1>3, RingArith
  <2>3. CASE i = l + 1
    <3>1. k = l
      BY <1>3, <2>1, <2>3
    <3> QED BY <1>2, <1>3, <1>4, <1>5, <2>1, <2>3, <3>1 DEF RxShape
  <2>4. CASE i # l + 1
    <3>1. i \in 1 .. l /\ k # l
      BY <1>3, <2>1, <2>4
    <3>2. RingAt(h, k, n) # d
      BY <1>4, <2>2, <3>1
    <3>3. fr[RingAt(h, k, n)] = q[i]
      BY <1>1, <2>1, <3>1 DEF RxShape
    <3>4. fr2[RingAt(h, k, n)] = fr[RingAt(h, k, n)]
      BY <1>2, <2>2, <3>2 DEF RxShape
    <3> QED BY <1>5, <2>1, <3>1, <3>3, <3>4
  <2> QED BY <2>3, <2>4
<1>10. /\ own2 \in [RxSlot -> BOOLEAN] /\ fr2 = [i \in RxSlot |-> fr2[i]]
       /\ t \in RxSlot /\ t = RingAt(h, r, n)
  BY <1>1 DEF RxShape
<1>11. l + 1 < EthRxSize /\ r \in 0 .. l + 1
  BY <1>1, <1>3, <1>6
<1> QED
  <2>1. RxShape(own2, fr2, h, t, d2, s, r)
    <3>1. Len(s) = l + 1 /\ l + 1 \in Nat /\ s \in Seq(EthAddr)
      BY <1>3, <1>5
    <3>2. h \in RxSlot /\ d2 \in RxSlot
      BY <1>2, <1>3, <1>7
    <3>3. /\ \A i \in RxSlot : own2[i] <=> RingDist(h, i, EthRxSize) >= Len(s)
          /\ \A i \in 1 .. Len(s) : fr2[RingAt(h, i - 1, EthRxSize)] = s[i]
      BY <1>1, <1>8, <1>9, <3>1
    <3>4. d2 = RingAt(h, Len(s), EthRxSize) /\ t = RingAt(h, r, EthRxSize)
      BY <1>1, <1>7, <1>10, <3>1
    <3>5. Len(s) < EthRxSize /\ r \in 0 .. Len(s)
      BY <1>11, <3>1
    <3> QED BY <1>10, <3>1, <3>2, <3>3, <3>4, <3>5 DEF RxShape
  <2> QED BY <1>1, <2>1

(* ethhandler() counts the frames it has not counted before.               *)
RxCount(own, t) ==
  LET owned == {k \in 0 .. EthRxSize : own[(t + k) % EthRxSize]}
  IN IF owned = {} THEN EthRxSize + 1 ELSE CHOOSE k \in owned : \A j \in owned : k <= j
LEMMA RxCounts ==
  ASSUME NEW own, NEW fr, NEW h, NEW t, NEW d, NEW q, NEW r, RxShape(own, fr, h, t, d, q, r),
         NEW m, m = RxCount(own, t)
  PROVE  /\ m = Len(q) - r
         /\ RxShape(own, fr, h, (t + m) % EthRxSize, d, q, Len(q))
<1>1. PICK n, l, owned : /\ n = EthRxSize /\ l = Len(q)
                         /\ owned = {k \in 0 .. EthRxSize : own[(t + k) % EthRxSize]}
  OBVIOUS
<1>m. m = IF owned = {} THEN n + 1 ELSE CHOOSE k \in owned : \A j \in owned : k <= j
  BY <1>1 DEF RxCount
<1>2. n \in Nat \ {0} /\ RxSlot = 0 .. n - 1
  BY <1>1, RxSize
<1>3. /\ h \in 0 .. n - 1 /\ t \in 0 .. n - 1 /\ l \in 0 .. n - 1 /\ r \in 0 .. l
      /\ t = RingAt(h, r, n)
  BY <1>1, <1>2 DEF RxShape
<1>4. RingMoved(h, r, t, n)
  <2>1. r \in 0 .. n - 1
    BY <1>2, <1>3
  <2> QED BY <1>2, <1>3, <2>1, RingMoves
<1>5. ASSUME NEW k \in 0 .. l - r
      PROVE  (t + k) % n = RingAt(h, r + k, n) /\ (own[(t + k) % n] <=> k = l - r)
  <2>1. k \in 0 .. n /\ k \in 0 .. n - 1 - r
    BY <1>2, <1>3
  <2>2. (t + k) % n = RingAt(t, k, n)
    BY <1>2, <1>3, <2>1, EthModulo
  <2>3. RingAt(t, k, n) = RingAt(h, r + k, n)
    BY <1>4, <2>1 DEF RingMoved
  <2>4. PICK i \in 0 .. n - 1 : i = r + k
    BY <1>2, <1>3
  <2>5. RingAt(h, i, n) \in RxSlot /\ RingDist(h, RingAt(h, i, n), n) = i
    BY <1>2, <1>3, RingArith
  <2>6. own[RingAt(h, i, n)] <=> i >= l
    BY <1>1, <2>5 DEF RxShape
  <2>7. i >= l <=> k = l - r
    BY <1>3, <2>4
  <2> QED BY <2>2, <2>3, <2>4, <2>6, <2>7
<1>6. PICK b \in 0 .. l : b = l - r
  BY <1>3
<1>7. b \in owned
  <2>1. own[(t + b) % n]
    BY <1>3, <1>5, <1>6
  <2> QED BY <1>1, <1>2, <1>3, <1>6, <2>1
<1>8. ASSUME NEW k \in owned PROVE b <= k /\ k \in Nat
  <2>1. k \in 0 .. n /\ own[(t + k) % n]
    BY <1>1
  <2>2. SUFFICES ASSUME k < b PROVE FALSE
    BY <1>3, <1>6, <2>1
  <2>3. k \in 0 .. l - r
    BY <1>2, <1>3, <1>6, <2>1, <2>2
  <2> QED BY <1>5, <1>6, <2>1, <2>2, <2>3
<1>9. m = b
  <2>1. owned # {} /\ owned \in SUBSET Nat
    BY <1>7, <1>8
  <2>2. (CHOOSE k \in owned : \A j \in owned : k <= j) \in {k \in owned : \A j \in owned : k <= j}
    BY <2>1, LeastOf
  <2>3. m \in owned /\ \A j \in owned : m <= j
    BY <1>m, <2>1, <2>2
  <2> QED BY <1>7, <1>8, <2>3
<1>10. (t + m) % n = RingAt(h, l, n) /\ RingAt(h, l, n) \in RxSlot
  <2>1. b \in 0 .. l - r /\ r + b = l
    BY <1>3, <1>6
  <2>2. (t + b) % n = RingAt(h, r + b, n)
    BY <1>5, <2>1
  <2> QED BY <1>2, <1>3, <1>9, <2>1, <2>2, RingArith
<1>11. RxShape(own, fr, h, (t + m) % n, d, q, l)
  <2>1. l \in 0 .. Len(q)
    BY <1>1, <1>3
  <2> QED BY <1>1, <1>10, <2>1 DEF RxShape
<1> QED BY <1>1, <1>6, <1>9, <1>11

(* ethread() takes m frames that have been counted.                        *)
LEMMA RxTakes ==
  ASSUME NEW own, NEW fr, NEW h, NEW t, NEW d, NEW q, NEW r, RxShape(own, fr, h, t, d, q, r),
         NEW m \in 0 .. r, NEW passed, passed = {(h + i) % EthRxSize : i \in 0 .. m - 1},
         NEW own2, NEW fr2,
         own2 = [i \in RxSlot |-> own[i] \/ i \in passed],
         fr2 = [i \in RxSlot |-> IF i \in passed THEN "none" ELSE fr[i]]
  PROVE  RxShape(own2, fr2, (h + m) % EthRxSize, t, d, SubSeq(q, m + 1, Len(q)), r - m)
<1>1. PICK n, l, s, g : /\ n = EthRxSize /\ l = Len(q) /\ s = SubSeq(q, m + 1, Len(q))
                        /\ g = (h + m) % EthRxSize
  OBVIOUS
<1>2. n \in Nat \ {0} /\ RxSlot = 0 .. n - 1
  BY <1>1, RxSize
<1>3. /\ h \in 0 .. n - 1 /\ t \in 0 .. n - 1 /\ d \in 0 .. n - 1 /\ l \in 0 .. n - 1 /\ r \in 0 .. l
      /\ q \in Seq(EthAddr) /\ t = RingAt(h, r, n) /\ d = RingAt(h, l, n)
  BY <1>1, <1>2 DEF RxShape
<1>4. m \in 0 .. l /\ m \in 0 .. n - 1 /\ m \in 0 .. n
  BY <1>2, <1>3
<1>5. g = RingAt(h, m, n) /\ RingMoved(h, m, g, n)
  <2>1. g = RingAt(h, m, n)
    BY <1>1, <1>2, <1>3, <1>4, EthModulo
  <2> QED BY <1>2, <1>3, <1>4, <2>1, RingMoves
<1>6. PICK x, y : x = l - m /\ y = r - m
  OBVIOUS
<1>7. x \in 0 .. n - 1 - m /\ x \in 0 .. n - 1 /\ y \in 0 .. x
  BY <1>2, <1>3, <1>4, <1>6
<1>8. s \in Seq(EthAddr) /\ Len(s) = x /\ \A i \in 1 .. x : s[i] = q[m + i]
  BY <1>1, <1>3, <1>4, <1>6
<1>9. ASSUME NEW i \in RxSlot PROVE i \in passed <=> RingDist(h, i, n) < m
  <2>1. PICK k \in 0 .. n - 1 : k = RingDist(h, i, n) /\ RingAt(h, k, n) = i
    BY <1>2, <1>3, RingPlace
  <2>2. ASSUME NEW j \in 0 .. m - 1 PROVE (h + j) % n = RingAt(h, j, n) /\ RingDist(h, RingAt(h, j, n), n) = j
    <3>1. j \in 0 .. n /\ j \in 0 .. n - 1
      BY <1>2, <1>4
    <3> QED BY <1>2, <1>3, <3>1, EthModulo, RingArith
  <2>3. ASSUME i \in passed PROVE k < m
    <3>1. PICK j \in 0 .. m - 1 : i = (h + j) % n
      BY <1>1, <2>3
    <3>2. k = j
      BY <2>1, <2>2, <3>1
    <3> QED BY <1>4, <3>2
  <2>4. ASSUME k < m PROVE i \in passed
    <3>1. k \in 0 .. m - 1
      BY <1>4, <2>4
    <3>2. i = (h + k) % n
      BY <2>1, <2>2, <3>1
    <3> QED BY <1>1, <3>1, <3>2
  <2> QED BY <2>1, <2>3, <2>4
<1>10. ASSUME NEW i \in RxSlot PROVE own2[i] <=> RingDist(g, i, n) >= x
  <2>1. PICK k \in 0 .. n - 1 : k = RingDist(h, i, n) /\ RingAt(h, k, n) = i
    BY <1>2, <1>3, RingPlace
  <2>2. own2[i] <=> k >= l \/ k < m
    BY <1>1, <1>9, <2>1 DEF RxShape
  <2>3. RingDist(g, i, n) = IF k >= m THEN k - m ELSE k - m + n
    BY <1>2, <1>5, <2>1 DEF RingMoved
  <2>4. CASE k >= m
    BY <1>3, <1>4, <1>6, <2>2, <2>3, <2>4
  <2>5. CASE k < m
    <3>1. RingDist(g, i, n) = k - m + n /\ own2[i]
      <4>1. ~(k >= m)
        BY <1>4, <2>5
      <4> QED BY <2>2, <2>3, <2>5, <4>1
    <3>2. k - m + n >= x
      <4>1. n \in Nat /\ k \in Nat /\ x <= n - 1 - m /\ m \in Int /\ x \in Int
        BY <1>2, <1>4, <1>7
      <4> QED BY ONLY <4>1
    <3> QED BY <3>1, <3>2
  <2> QED BY <1>4, <2>4, <2>5
<1>11. d = RingAt(g, x, n) /\ t = RingAt(g, y, n)
  <2>1. y \in 0 .. n - 1 - m /\ m + x = l /\ m + y = r
    <3>1. l \in Nat /\ r \in Nat /\ m \in Nat
      BY <1>3, <1>4
    <3>2. y \in 0 .. n - 1 - m
      <4>1. n - 1 - m \in Int /\ x <= n - 1 - m /\ y <= x /\ y \in Int /\ 0 <= y /\ x \in Int
        BY <1>2, <1>4, <1>7
      <4> QED BY <4>1
    <3> QED BY <1>6, <3>1, <3>2
  <2>2. RingAt(g, x, n) = RingAt(h, m + x, n) /\ RingAt(g, y, n) = RingAt(h, m + y, n)
    BY <1>5, <1>7, <2>1 DEF RingMoved
  <2> QED BY <1>3, <2>1, <2>2
<1>12. ASSUME NEW i \in 1 .. x PROVE fr2[RingAt(g, i - 1, n)] = s[i]
  <2>1. PICK k \in 0 .. n - 1 - m : k = i - 1
    BY <1>2, <1>7
  <2>2. PICK j \in 0 .. n - 1 : j = m + k
    BY <1>2, <1>4
  <2>3. RingAt(g, k, n) = RingAt(h, j, n)
    BY <1>5, <2>1, <2>2 DEF RingMoved
  <2>4. RingAt(h, j, n) \in RxSlot /\ RingDist(h, RingAt(h, j, n), n) = j
    BY <1>2, <1>3, RingArith
  <2>5. RingAt(h, j, n) \notin passed
    BY <1>4, <1>9, <2>1, <2>2, <2>4
  <2>6. PICK p \in 1 .. l : p = m + i
    <3>1. i \in Int /\ 1 <= i /\ i <= l - m
      BY <1>6, <1>7
    <3> QED BY <1>3, <1>4, <3>1
  <2>7. p - 1 = j
    BY <1>4, <2>1, <2>2, <2>6
  <2>8. fr[RingAt(h, j, n)] = q[p]
    BY <1>1, <2>6, <2>7 DEF RxShape
  <2> QED BY <1>8, <2>1, <2>3, <2>4, <2>5, <2>6, <2>8
<1> QED
  <2>1. g \in RxSlot /\ t \in RxSlot /\ d \in RxSlot
    BY <1>2, <1>3, <1>5 DEF RingMoved
  <2>2. own2 \in [RxSlot -> BOOLEAN]
    BY DEF RxShape
  <2>3. fr2 = [i \in RxSlot |-> fr2[i]]
    OBVIOUS
  <2>4. x < n
    BY <1>2, <1>7
  <2>5. RxShape(own2, fr2, g, t, d, s, y)
    <3>1. s \in Seq(EthAddr) /\ Len(s) = x /\ y \in 0 .. x /\ x < n /\ n = EthRxSize
      BY <1>1, <1>7, <1>8, <2>4
    <3> QED BY ONLY <1>10, <1>11, <1>12, <2>1, <2>2, <2>3, <3>1 DEF RxShape
  <2> QED BY <1>1, <1>6, <2>5

RxRead(reader, isem) == IF reader = "ready" THEN isem + 1 ELSE IF isem < 0 THEN 0 ELSE isem
RxReader(reader, isem) ==
  /\ reader \in {"idle", "blocked", "ready"} /\ isem \in Int
  /\ IF reader = "blocked" THEN isem = -1 ELSE isem >= 0
RxOpen ==
  "rx" \notin ethfull =>
    /\ ethrx = [own |-> ethrx.own, frame |-> ethrx.frame, head |-> ethrx.head, tail |-> ethrx.tail,
                dma |-> ethrx.dma]
    /\ RxShape(ethrx.own, ethrx.frame, ethrx.head, ethrx.tail, ethrx.dma, ethdue,
               RxRead(ethreader, ethisem))
    /\ RxReader(ethreader, ethisem)
    /\ "RI" \notin ethsr => RxRead(ethreader, ethisem) = Len(ethdue)

LEMMA RxSame ==
  ASSUME RxOpen, UNCHANGED ethreceive, "rx" \notin ethfull' => "rx" \notin ethfull,
         "RI" \notin ethsr' => "RI" \notin ethsr
  PROVE  RxOpen'
BY DEF RxOpen, ethreceive, RxShape, RxSlot

LEMMA RxReceives == ASSUME RxOpen, NEW f \in EthAddr, DmaReceives(f) PROVE RxOpen'
<1> SUFFICES ASSUME "rx" \notin ethfull' PROVE RxOpen'
  BY DEF RxOpen
<1>1. "rx" \notin ethfull /\ \E i \in RxSlot : ethrx'.own[i]
  BY DEF DmaReceives
<1>2. PICK own, fr, h, t, d : ethrx = [own |-> own, frame |-> fr, head |-> h, tail |-> t, dma |-> d]
  BY <1>1 DEF RxOpen
<1>3. PICK r : r = RxRead(ethreader, ethisem)
  OBVIOUS
<1>4. RxShape(own, fr, h, t, d, ethdue, r)
  BY <1>1, <1>2, <1>3 DEF RxOpen
<1>5. PICK own2, fr2, d2 : own2 = [own EXCEPT ![d] = FALSE] /\ fr2 = [fr EXCEPT ![d] = f] /\ d2 = (d + 1) % EthRxSize
  OBVIOUS
<1>6. ethrx' = [own |-> own2, frame |-> fr2, head |-> h, tail |-> t, dma |-> d2]
  <2>1. ethrx' = [ethrx EXCEPT !.own[d] = FALSE, !.frame[d] = f, !.dma = d2]
    BY <1>2, <1>5 DEF DmaReceives
  <2> QED BY <1>2, <1>5, <2>1
<1>7. PICK x : x = ethrx'
  OBVIOUS
<1>8. x.own = own2 /\ x.frame = fr2 /\ x.head = h /\ x.tail = t /\ x.dma = d2
  BY <1>6, <1>7
<1>9. \E i \in RxSlot : own2[i]
  BY <1>1, <1>7, <1>8
<1>10. RxShape(own2, fr2, h, t, d2, Append(ethdue, f), r)
  BY <1>4, <1>5, <1>9, RxPuts
<1>11. ethdue' = Append(ethdue, f) /\ "RI" \in ethsr' /\ ethisem' = ethisem /\ ethreader' = ethreader
  BY DEF DmaReceives
<1>12. RxReader(ethreader, ethisem)
  BY <1>1 DEF RxOpen
<1> QED BY <1>3, <1>6, <1>7, <1>8, <1>10, <1>11, <1>12 DEF RxOpen, RxShape, RxSlot

LEMMA RxHandles == ASSUME RxOpen, RxHandler PROVE RxOpen'
<1> SUFFICES ASSUME "rx" \notin ethfull' PROVE RxOpen'
  BY DEF RxOpen
<1>1. "rx" \notin ethfull /\ ethdue' = ethdue
  BY DEF RxHandler
<1>2. PICK own, fr, h, t, d : ethrx = [own |-> own, frame |-> fr, head |-> h, tail |-> t, dma |-> d]
  BY <1>1 DEF RxOpen
<1>3. PICK r, a, s : r = RxRead(s, a) /\ a = ethisem /\ s = ethreader
  OBVIOUS
<1>4. RxShape(own, fr, h, t, d, ethdue, r) /\ RxReader(s, a)
  BY <1>1, <1>2, <1>3 DEF RxOpen
<1>6. PICK m : m = RxCount(own, t)
  OBVIOUS
<1>7. m = Len(ethdue) - r /\ RxShape(own, fr, h, (t + m) % EthRxSize, d, ethdue, Len(ethdue))
  BY <1>4, <1>6, RxCounts
<1>8. /\ ethrx' = [ethrx EXCEPT !.tail = (t + m) % EthRxSize]
      /\ ethisem' = a + m
      /\ ethreader' = IF s = "blocked" /\ m > 0 THEN "ready" ELSE s
  <2>1. m = RxCount(ethrx.own, ethrx.tail)
    BY <1>2, <1>6
  <2>2. /\ ethrx' = [ethrx EXCEPT !.tail = (@ + m) % EthRxSize]
        /\ ethisem' = ethisem + m
        /\ ethreader' = IF ethreader = "blocked" /\ m > 0 THEN "ready" ELSE ethreader
    <3>1. LET n == RxCount(ethrx.own, ethrx.tail)
          IN /\ ethrx' = [ethrx EXCEPT !.tail = (@ + n) % EthRxSize]
             /\ ethisem' = ethisem + n
             /\ ethreader' = IF ethreader = "blocked" /\ n > 0 THEN "ready" ELSE ethreader
      BY DEF RxHandler, RxCount
    <3> QED BY <2>1, <3>1
  <2> QED BY <1>2, <1>3, <2>2
<1>9. PICK e : e = (t + m) % EthRxSize
  OBVIOUS
<1>10. ethrx' = [own |-> own, frame |-> fr, head |-> h, tail |-> e, dma |-> d]
  BY <1>2, <1>8, <1>9
<1>11. PICK x : x = ethrx'
  OBVIOUS
<1>12. x.own = own /\ x.frame = fr /\ x.head = h /\ x.tail = e /\ x.dma = d
  BY <1>10, <1>11
<1>13. PICK l \in Nat : l = Len(ethdue)
  BY <1>4 DEF RxShape
<1>14. r \in 0 .. l
  BY <1>4, <1>13 DEF RxShape
<1>15. RxRead(ethreader', ethisem') = l /\ RxReader(ethreader', ethisem')
  <2>1. ethisem' = a + (l - r)
    BY <1>7, <1>8, <1>13
  <2>2. ethreader' = IF s = "blocked" /\ l - r > 0 THEN "ready" ELSE s
    BY <1>7, <1>8, <1>13
  <2>3. CASE s = "blocked"
    <3>1. a = -1 /\ r = 0
      BY <1>3, <1>4, <2>3 DEF RxReader, RxRead
    <3> QED BY <2>1, <2>2, <2>3, <3>1 DEF RxReader, RxRead
  <2>4. CASE s = "ready"
    BY <1>3, <1>4, <1>14, <2>1, <2>2, <2>4 DEF RxReader, RxRead
  <2>5. CASE s = "idle"
    BY <1>3, <1>4, <1>14, <2>1, <2>2, <2>5 DEF RxReader, RxRead
  <2> QED BY <1>4, <2>3, <2>4, <2>5 DEF RxReader
<1> QED
  <2>1. RxShape(own, fr, h, e, d, ethdue, l)
    BY <1>7, <1>9, <1>13
  <2> QED BY <1>1, <1>10, <1>11, <1>12, <1>13, <1>15, <2>1 DEF RxOpen, RxShape, RxSlot

LEMMA RxReads == ASSUME RxOpen, ethread PROVE RxOpen'
<1> SUFFICES ASSUME "rx" \notin ethfull' PROVE RxOpen'
  BY DEF RxOpen
<1>1. "rx" \notin ethfull /\ ethsr' = ethsr
  BY DEF ethread
<1>2. PICK own, fr, h, t, d : ethrx = [own |-> own, frame |-> fr, head |-> h, tail |-> t, dma |-> d]
  BY <1>1 DEF RxOpen
<1>3. PICK r, a, s, q : r = RxRead(s, a) /\ a = ethisem /\ s = ethreader /\ q = ethdue
  OBVIOUS
<1>4. RxShape(own, fr, h, t, d, q, r) /\ RxReader(s, a)
  BY <1>1, <1>2, <1>3 DEF RxOpen
<1>5. s # "blocked" /\ r = IF s = "ready" THEN a + 1 ELSE a
  <2>1. s # "blocked"
    BY <1>3 DEF ethread
  <2>2. a \in Int /\ a >= 0
    BY <1>4, <2>1 DEF RxReader
  <2> QED BY <1>3, <2>1, <2>2 DEF RxRead
<1>6. PICK ok : ok = {k \in 0 .. r - 1 : ValidAddr(fr[(h + k) % EthRxSize])}
  OBVIOUS
<1>7. PICK k, m : k = Skips(ok) /\ m = IF k < 0 THEN r ELSE k + 1
  OBVIOUS
<1>8. PICK passed : passed = {(h + i) % EthRxSize : i \in 0 .. m - 1}
  OBVIOUS
<1>9. PICK own2, fr2, g : /\ own2 = [i \in RxSlot |-> own[i] \/ i \in passed]
                          /\ fr2 = [i \in RxSlot |-> IF i \in passed THEN "none" ELSE fr[i]]
                          /\ g = (h + m) % EthRxSize
  OBVIOUS
<1>10. /\ ethrx' = [own |-> own2, frame |-> fr2, head |-> g, tail |-> t, dma |-> d]
       /\ ethdue' = SubSeq(q, m + 1, Len(q))
       /\ ethisem' = IF k < 0 THEN -1 ELSE r - m
       /\ ethreader' = IF k < 0 THEN "blocked" ELSE "idle"
  <2>1. r = IF ethreader = "ready" THEN ethisem + 1 ELSE ethisem
    BY <1>3, <1>5
  <2>2. ok = {j \in 0 .. r - 1 : ValidAddr(ethrx.frame[(ethrx.head + j) % EthRxSize])}
    BY <1>2, <1>6
  <2>3. passed = {(ethrx.head + i) % EthRxSize : i \in 0 .. m - 1}
    BY <1>2, <1>8
  <2>4. /\ ethrx' = [ethrx EXCEPT !.head = (@ + m) % EthRxSize,
                                  !.own = [i \in RxSlot |-> @[i] \/ i \in passed],
                                  !.frame = [i \in RxSlot |-> IF i \in passed THEN "none" ELSE @[i]]]
        /\ ethdue' = SubSeq(ethdue, m + 1, Len(ethdue))
        /\ ethisem' = IF k < 0 THEN -1 ELSE r - m
        /\ ethreader' = IF k < 0 THEN "blocked" ELSE "idle"
    BY <1>7, <2>1, <2>2, <2>3 DEF ethread
  <2> QED BY <1>2, <1>3, <1>9, <2>4
<1>11. PICK l \in Nat : l = Len(q)
  BY <1>4 DEF RxShape
<1>12. r \in 0 .. l
  BY <1>4, <1>11 DEF RxShape
<1>13. m \in 0 .. r /\ (k < 0 => m = r)
  <2>1. CASE ok = {}
    BY <1>7, <1>12, <2>1 DEF Skips
  <2>2. CASE ok # {}
    <3>1. ok \in SUBSET Nat
      BY <1>6, <1>12
    <3>2. (CHOOSE i \in ok : \A j \in ok : i <= j) \in {i \in ok : \A j \in ok : i <= j}
      BY <2>2, <3>1, LeastOf
    <3>3. k \in ok
      BY <1>7, <2>2, <3>2 DEF Skips
    <3>4. k \in 0 .. r - 1
      BY <1>6, <3>3
    <3> QED BY <1>7, <1>12, <3>4
  <2> QED BY <2>1, <2>2
<1>14. RxShape(own2, fr2, g, t, d, SubSeq(q, m + 1, Len(q)), r - m)
  <2>1. m \in 0 .. r /\ RxShape(own, fr, h, t, d, q, r)
    BY <1>4, <1>13
  <2>2. /\ passed = {(h + i) % EthRxSize : i \in 0 .. m - 1}
        /\ own2 = [i \in RxSlot |-> own[i] \/ i \in passed]
        /\ fr2 = [i \in RxSlot |-> IF i \in passed THEN "none" ELSE fr[i]]
        /\ g = (h + m) % EthRxSize
    BY <1>8, <1>9
  <2> QED BY ONLY <2>1, <2>2, RxTakes
<1>15. RxRead(ethreader', ethisem') = r - m /\ RxReader(ethreader', ethisem')
  BY <1>10, <1>12, <1>13 DEF RxRead, RxReader
<1>16. "RI" \notin ethsr' => r - m = Len(ethdue')
  <2>1. "RI" \notin ethsr => r = l
    BY <1>1, <1>3, <1>11 DEF RxOpen
  <2>2. Len(ethdue') = l - m
    <3>1. q \in Seq(EthAddr) /\ m \in 0 .. l
      BY <1>4, <1>12, <1>13 DEF RxShape
    <3> QED BY <1>10, <1>11, <3>1
  <2> QED BY <1>1, <2>1, <2>2
<1>17. PICK x : x = ethrx'
  OBVIOUS
<1>18. x.own = own2 /\ x.frame = fr2 /\ x.head = g /\ x.tail = t /\ x.dma = d
  BY <1>10, <1>17
<1>19. RxShape(x.own, x.frame, x.head, x.tail, x.dma, ethdue', r - m)
  BY <1>10, <1>14, <1>18
<1>20. ethrx' = [own |-> ethrx'.own, frame |-> ethrx'.frame, head |-> ethrx'.head,
                 tail |-> ethrx'.tail, dma |-> ethrx'.dma]
  BY <1>10, <1>17, <1>18
<1>21. RxShape(ethrx'.own, ethrx'.frame, ethrx'.head, ethrx'.tail, ethrx'.dma, ethdue', RxRead(ethreader', ethisem'))
  BY <1>15, <1>17, <1>19
<1>22. "RI" \notin ethsr' => RxRead(ethreader', ethisem') = Len(ethdue')
  BY <1>15, <1>16
<1> QED BY <1>15, <1>20, <1>21, <1>22 DEF RxOpen, RxShape, RxSlot

-----------------------------------------------------------------------------
EthInv == TxInv /\ RxOpen

THEOREM EthInvAlways == EthSpec => []EthInv
<1>1. EthInit => EthInv
  <2> SUFFICES ASSUME EthInit PROVE EthInv
    OBVIOUS
  <2>1. TxInv
    <3>1. PICK own : own = [i \in TxSlot |-> FALSE]
      OBVIOUS
    <3>2. ethtx = [own |-> own, head |-> 0, tail |-> 0, dma |-> 0]
      BY <3>1 DEF EthInit
    <3>3. ethosem = [count |-> EthTxSize, line |-> <<>>, let |-> {}] /\ "tx" \notin ethfull
      BY DEF EthInit
    <3>4. RingDist(0, 0, EthTxSize) = 0 /\ EthTxSize \in Int /\ 0 \in TxSlot
      BY TxSize DEF RingDist
    <3>5. EthTxSize = EthTxSize - 0
      BY TxSize
    <3> QED BY <3>1, <3>2, <3>3, <3>4, <3>5 DEF TxInv, TxTyped, TxOpen, TxShut
  <2>2. RxOpen
    <3>1. PICK own, fr, q : /\ own = [i \in RxSlot |-> TRUE] /\ fr = [i \in RxSlot |-> "none"] /\ q = <<>>
                            /\ ethrx = [own |-> own, frame |-> fr, head |-> 0, tail |-> 0, dma |-> 0]
                            /\ ethdue = q
      BY DEF EthInit
    <3>2. ethisem = 0 /\ ethreader = "idle"
      BY DEF EthInit
    <3>3. RxRead(ethreader, ethisem) = 0 /\ RxReader(ethreader, ethisem)
      BY <3>2 DEF RxRead, RxReader
    <3>4. q \in Seq(EthAddr) /\ Len(q) = 0 /\ 0 \in RxSlot /\ 0 \in 0 .. Len(q) /\ 0 < EthRxSize
      BY <3>1, RxSize
    <3>5. RingAt(0, 0, EthRxSize) = 0 /\ \A i \in RxSlot : RingDist(0, i, EthRxSize) >= 0
      BY RxSize DEF RingAt, RingDist
    <3>6. RxShape(own, fr, 0, 0, 0, q, 0)
      BY <3>1, <3>4, <3>5 DEF RxShape
    <3> QED BY <3>1, <3>3, <3>4, <3>6 DEF RxOpen
  <2> QED BY <2>1, <2>2 DEF EthInv
<1>2. EthInv /\ [EthNext]_EthVars => EthInv'
  <2> SUFFICES ASSUME TxInv, RxOpen, [EthNext]_EthVars PROVE TxInv' /\ RxOpen'
    BY DEF EthInv
  <2>1. ASSUME NEW p \in EthSender, ethwrite(p) PROVE TxInv' /\ RxOpen'
    <3>1. TxInv'
      BY <2>1, TxWrites
    <3>2. /\ UNCHANGED ethreceive /\ ethsr' = ethsr
          /\ "rx" \notin ethfull' => "rx" \notin ethfull
      BY <2>1 DEF ethwrite, Fills
    <3> QED BY <3>1, <3>2, RxSame
  <2>2. ASSUME NEW p \in EthSender, SenderGoesOn(p) PROVE FALSE
    BY <2>2 DEF SenderGoesOn, TxInv, TxTyped
  <2>3. CASE DmaSends
    <3>1. /\ UNCHANGED ethreceive /\ ethfull' = ethfull /\ ethsr' = ethsr \cup {"TI"}
      BY <2>3 DEF DmaSends
    <3>2. "RI" \notin ethsr' => "RI" \notin ethsr
      BY <3>1
    <3> QED BY <2>3, <3>1, <3>2, TxSends, RxSame
  <2>4. CASE TxHandler
    <3>1. /\ UNCHANGED ethreceive /\ ethfull' = ethfull /\ ethsr' = ethsr \ {"TI"}
      BY <2>4 DEF TxHandler
    <3>2. "RI" \notin ethsr' => "RI" \notin ethsr
      BY <3>1
    <3> QED BY <2>4, <3>1, <3>2, TxReclaims, RxSame
  <2>5. CASE RxHandler
    <3>1. UNCHANGED ethtransmit /\ ethfull' = ethfull
      BY <2>5 DEF RxHandler
    <3> QED BY <2>5, <3>1, TxSame, RxHandles
  <2>6. CASE ethread
    <3>1. UNCHANGED ethtransmit /\ ethfull' = ethfull
      BY <2>6 DEF ethread
    <3> QED BY <2>6, <3>1, TxSame, RxReads
  <2>7. ASSUME NEW f \in EthAddr, DmaReceives(f) PROVE TxInv' /\ RxOpen'
    <3>1. UNCHANGED ethtransmit /\ (("tx" \in ethfull') <=> ("tx" \in ethfull))
      BY <2>7 DEF DmaReceives
    <3> QED BY <2>7, <3>1, TxSame, RxReceives
  <2>8. ASSUME NEW a \in EthAddr \ {"me", "bcast"}, ethcontrol(a) PROVE TxInv' /\ RxOpen'
    <3>1. UNCHANGED <<ethtransmit, ethreceive, ethsr, ethfull>>
      BY <2>8 DEF ethcontrol, ethmcast_add, ethmcast_remove
    <3>2. UNCHANGED ethtransmit /\ UNCHANGED ethreceive /\ ethsr' = ethsr /\ ethfull' = ethfull
      BY <3>1
    <3> QED BY <3>2, TxSame, RxSame
  <2>9. CASE UNCHANGED EthVars
    <3>1. UNCHANGED ethtransmit /\ UNCHANGED ethreceive /\ ethsr' = ethsr /\ ethfull' = ethfull
      BY <2>9 DEF EthVars
    <3> QED BY <3>1, TxSame, RxSame
  <2> QED BY <2>1, <2>2, <2>3, <2>4, <2>5, <2>6, <2>7, <2>8, <2>9 DEF EthNext
<1> QED BY <1>1, <1>2, PTL DEF EthSpec

(* Of the two rings for every size of them: a sender that is let in finds  *)
(* a descriptor the DMA has done with, the semaphores count what there is  *)
(* to fill and to read, and frames are read once and in order, as long as  *)
(* the ring in question has not been full (ethwrite.c:28, ethhandler.c:48, *)
(* ethread.c).                                                             *)
THEOREM EthRingsAgreeAlways == EthSpec => []EthRingsAgree
<1>1. EthInv => EthRingsAgree
  <2> SUFFICES ASSUME TxInv, RxOpen PROVE EthRingsAgree
    BY DEF EthInv
  <2>1. PICK n, h, t, u : n = EthTxSize /\ h = ethtx.head /\ t = ethtx.tail /\ u = RingDist(h, t, n)
    OBVIOUS
  <2>2. n \in Nat \ {0} /\ TxSlot = 0 .. n - 1 /\ h \in 0 .. n - 1 /\ t \in 0 .. n - 1
    BY <2>1, TxSize DEF TxInv, TxTyped
  <2>3. (t - h + n) % n = u /\ u \in 0 .. n - 1
    BY <2>1, <2>2, RingGap, RingArith
  <2>4. ethosem.let = {} /\ ethosem.count \in Int
    BY DEF TxInv, TxTyped
  <2>5. ethosem.count > 0 \/ ethosem.let # {} => ~ethtx.own[ethtx.tail]
    <3> SUFFICES ASSUME ethosem.count > 0, ethtx.own[t] PROVE FALSE
      BY <2>1, <2>4
    <3>1. "tx" \notin ethfull
      BY <2>4 DEF TxInv, TxShut
    <3>2. u < u
      BY <2>1, <2>2, <3>1 DEF TxInv, TxOpen
    <3> QED BY <2>3, <3>2
  <2>6. "tx" \notin ethfull =>
          ethosem.count + Cardinality(ethosem.let) + ((ethtx.tail - ethtx.head + EthTxSize) % EthTxSize) = EthTxSize
    <3> SUFFICES ASSUME "tx" \notin ethfull
                 PROVE  ethosem.count + Cardinality(ethosem.let) + ((ethtx.tail - ethtx.head + EthTxSize) % EthTxSize)
                          = EthTxSize
      OBVIOUS
    <3>1. PICK c \in Int : c = ethosem.count
      BY <2>4
    <3>2. c = n - u
      BY <2>1, <3>1 DEF TxInv, TxOpen
    <3>3. Cardinality(ethosem.let) = 0
      BY <2>4, FS_EmptySet
    <3>4. (ethtx.tail - ethtx.head + EthTxSize) % EthTxSize = u
      BY <2>1, <2>3
    <3>5. c + 0 + u = n
      BY <2>2, <2>3, <3>2
    <3> QED BY <2>1, <3>1, <3>3, <3>4, <3>5
  <2>7. "rx" \notin ethfull =>
          /\ RxRead(ethreader, ethisem) <= Len(ethdue)
          /\ \A i \in 1 .. Len(ethdue) : ethrx.frame[(ethrx.head + i - 1) % EthRxSize] = ethdue[i]
          /\ "RI" \notin ethsr => RxRead(ethreader, ethisem) = Len(ethdue)
    <3> SUFFICES ASSUME "rx" \notin ethfull
                 PROVE  /\ RxRead(ethreader, ethisem) <= Len(ethdue)
                        /\ \A i \in 1 .. Len(ethdue) : ethrx.frame[(ethrx.head + i - 1) % EthRxSize] = ethdue[i]
                        /\ "RI" \notin ethsr => RxRead(ethreader, ethisem) = Len(ethdue)
      OBVIOUS
    <3>1. PICK fr, g, q, m : fr = ethrx.frame /\ g = ethrx.head /\ q = ethdue /\ m = EthRxSize
      OBVIOUS
    <3>2. /\ g \in 0 .. m - 1 /\ m \in Nat \ {0} /\ q \in Seq(EthAddr) /\ Len(q) < m
          /\ \A i \in 1 .. Len(q) : fr[RingAt(g, i - 1, m)] = q[i]
      BY <3>1, RxSize DEF RxOpen, RxShape
    <3>3. ASSUME NEW i \in 1 .. Len(q) PROVE fr[(g + i - 1) % m] = q[i]
      <4>1. PICK k \in 0 .. m : k = i - 1 /\ g + i - 1 = g + k
        BY <3>2
      <4>2. (g + k) % m = RingAt(g, k, m)
        BY <3>2, EthModulo
      <4> QED BY <3>2, <4>1, <4>2
    <3>4. RxRead(ethreader, ethisem) <= Len(ethdue)
      <4>1. RxRead(ethreader, ethisem) \in 0 .. Len(ethdue) /\ Len(ethdue) \in Nat
        BY DEF RxOpen, RxShape
      <4> QED BY <4>1
    <3>5. "RI" \notin ethsr => RxRead(ethreader, ethisem) = Len(ethdue)
      BY DEF RxOpen
    <3> QED BY <3>1, <3>3, <3>4, <3>5
  <2> QED BY <2>5, <2>6, <2>7 DEF EthRingsAgree, RxRead
<1> QED BY <1>1, EthInvAlways, PTL
=============================================================================
