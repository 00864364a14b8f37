----------------------------- MODULE RemoteDisk -----------------------------
(***************************************************************************)
(* The remote disk: rdsread(), rdswrite(), rdscontrol(), rdsopen() and     *)
(* rdsclose() of client processes, rdsbufalloc(), and the communication    *)
(* process rdsprocess() with the exchanges of rdscomm().                   *)
(*                                                                         *)
(* A buffer is on the request queue, in the cache (both doubly linked      *)
(* between two sentinels) or on the free list, which uses the same rd_next.*)
(* Nothing disables interrupts.  The communication process has priority    *)
(* 200, so it is atomic from one wait to the next; a client is cut before  *)
(* and after every search, wait() and list operation, not inside one.      *)
(***************************************************************************)
EXTENDS Integers, SequencesExt, FiniteSets

CONSTANTS Client,      \* the processes that use the disk
          Buf,         \* the RD_BUFFS buffers
          RdBlock,     \* block numbers
          RdData,      \* contents of a block
          RD_RETRIES,  \* transmissions of a request
          RdMaxSeq,    \* bound: no request past this sequence number
          Late         \* may a reply arrive after its exchange is over?

ASSUME RdAssumption ==
  /\ RD_RETRIES \in Nat \ {0} /\ RdMaxSeq \in Nat /\ Late \in BOOLEAN
  /\ Client # {} /\ RdBlock # {} /\ RdData # {}
  /\ Buf # {} /\ IsFiniteSet(Buf) /\ Buf \cap {"rh", "rt", "ch", "ct", "null", "none", "ok"} = {}

VARIABLES rdstate,   \* rd_state
          rdlink,    \* rd_next and rd_prev of the buffers and the sentinels
          rdfree,    \* rd_free
          rdbuf,     \* the other fields of each buffer
          rdavail,   \* rd_availsem
          rdreq,     \* the count of rd_reqsem
          rdseq,     \* rd_seq
          rdcomm,    \* where rdsprocess() is
          rdmsgblk,  \* msg.rd_blk of rdsprocess(), which reads do not set
          rdnet,     \* replies on their way
          rddisk,    \* the blocks at the server
          rdinbox,   \* the message waiting for a client, or "none"
          rdcont,    \* what a client continues with
          rdwritten, \* history: what the write requests for each block held last
          rdpanic    \* panic() has stopped the system

RdVars == <<rdstate, rdlink, rdfree, rdbuf, rdavail, rdreq, rdseq, rdcomm, rdmsgblk,
            rdnet, rddisk, rdinbox, rdcont, rdwritten, rdpanic>>
rdlists == <<rdlink, rdfree, rdbuf>>
rdfar   == <<rdseq, rdcomm, rdmsgblk, rdnet, rddisk>>

Node == Buf \cup {"rh", "rt", "ch", "ct", "null"}
AnyBlock == CHOOSE x \in RdBlock : TRUE
AnyData == CHOOSE d \in RdData : TRUE
(* Where a client is, in a call for a read, a write or a sync.             *)
RdCall(pc, for, blk, data) ==
  [pc |-> pc, for |-> for, blk |-> blk, data |-> data, buf |-> "null", n |-> 0]
RdIdle == RdCall("idle", "none", AnyBlock, AnyData)
CommIdle == [pc |-> "idle"]

RdInit ==
  /\ rdstate = "RD_FREE"
  /\ LET s == SetToSeq(Buf)
         next(i) == IF i = Len(s) THEN "null" ELSE s[i + 1]
     IN /\ rdlink = [nx |-> [n \in Node |->
                              CASE n = "rh" -> "rt" [] n = "ch" -> "ct"
                                [] n \in Buf -> next(CHOOSE i \in 1 .. Len(s) : s[i] = n)
                                [] OTHER -> "null"],
                     pv |-> [n \in Node |-> CASE n = "rt" -> "rh" [] n = "ct" -> "ch"
                                              [] OTHER -> "null"]]
        /\ rdfree = s[1]
  /\ rdbuf = [b \in Buf |-> [op |-> "none", refcnt |-> 0, blk |-> AnyBlock, valid |-> FALSE,
                             pid |-> CHOOSE c \in Client : TRUE, data |-> AnyData]]
  /\ rdavail = [count |-> Cardinality(Buf), line |-> <<>>]
  /\ rdreq = 0
  /\ rdseq = 1
  /\ rdcomm = CommIdle
  /\ rdmsgblk \in RdBlock
  /\ rdnet = {}
  /\ rddisk = [x \in RdBlock |-> AnyData]
  /\ rdwritten = rddisk
  /\ rdinbox = [c \in Client |-> "none"]
  /\ rdcont = [c \in Client |-> RdIdle]
  /\ rdpanic = FALSE

-----------------------------------------------------------------------------
(* Links.  Chain lists the nodes from just after h to just before t.       *)
Chain(nx, h, t) ==
  LET at[i \in 0 .. Cardinality(Buf) + 1] == IF i = 0 THEN h ELSE nx[at[i - 1]]
      ends == {i \in 1 .. Cardinality(Buf) + 1 : at[i] = t}
  IN IF ends = {} THEN <<>>
     ELSE [i \in 1 .. (CHOOSE i \in ends : \A j \in ends : i <= j) - 1 |-> at[i]]
FromBack(s) == Reverse(s)
Queue == Chain(rdlink.nx, "rh", "rt")
Cache == Chain(rdlink.nx, "ch", "ct")
Free  == IF rdfree = "null" THEN <<>>
         ELSE <<rdfree>> \o Chain(rdlink.nx, rdfree, "null")

UnlinkNode(l, b) == [nx |-> [l.nx EXCEPT ![l.pv[b]] = l.nx[b]],
                     pv |-> [l.pv EXCEPT ![l.nx[b]] = l.pv[b]]]
ToCache(l, b)  == [nx |-> [l.nx EXCEPT !["ch"] = b, ![b] = l.nx["ch"]],
                   pv |-> [l.pv EXCEPT ![b] = "ch", ![l.nx["ch"]] = b]]
ToQueue(l, b)  == [nx |-> [l.nx EXCEPT ![b] = l.nx[l.pv["rt"]], ![l.pv["rt"]] = b],
                   pv |-> [l.pv EXCEPT !["rt"] = b, ![b] = l.pv["rt"]]]
ToFree(l, b) == [l EXCEPT !.nx[b] = rdfree]

FirstFor(s, blk) == SelectInSeq(s, LAMBDA b : rdbuf[b].blk = blk)
LatestRequest(blk) == LET i == FirstFor(FromBack(Queue), blk)
                      IN IF i = 0 THEN 0 ELSE Len(Queue) + 1 - i

SemWait(s, c) == [count |-> s.count - 1,
                  line |-> IF s.count <= 0 THEN Append(s.line, c) ELSE s.line]
SemSignal(s) == [count |-> s.count + 1, line |-> IF s.count < 0 THEN Tail(s.line) ELSE s.line]

RdGoto(c, k) == rdcont' = [rdcont EXCEPT ![c] = k]
Step(c, pc) == rdcont[c].pc = pc /\ ~Contains(rdavail.line, c) /\ ~rdpanic
Open(c) == Step(c, "idle") /\ rdstate = "RD_OPEN"

-----------------------------------------------------------------------------
(* rdsread(): the cache, then the latest request for the block, then a     *)
(* request of its own.                                                     *)
RdRead(c, blk) ==
  /\ Open(c)
  /\ LET i == FirstFor(Cache, blk)
     IN ~(i > 0 /\ rdbuf[Cache[i]].valid)
  /\ RdGoto(c, RdCall("search", "read", blk, AnyData))
  /\ UNCHANGED <<rdstate, rdlists, rdavail, rdreq, rdfar, rdinbox, rdwritten, rdpanic>>

ReadSearchesQueue(c) ==
  /\ Step(c, "search")
  /\ LET blk == rdcont[c].blk
         i   == LatestRequest(blk)
     IN RdGoto(c, IF i > 0 /\ rdbuf[Queue[i]].op = "write" THEN RdIdle
                  ELSE RdCall("alloc", "read", blk, AnyData))
  /\ UNCHANGED <<rdstate, rdlists, rdavail, rdreq, rdfar, rdinbox, rdwritten, rdpanic>>

(* rdswrite(): into a write request that waits, else into the cached       *)
(* buffer if nobody reads it, else into a new one.                         *)
RdWrite(c, blk, d) ==
  /\ Open(c)
  /\ LET i == SelectInSeq(Queue, LAMBDA b : rdbuf[b].blk = blk /\ rdbuf[b].op = "write")
     IN RdGoto(c, IF i = 0 THEN RdCall("wcache", "write", blk, d)
                  ELSE [RdCall("wcopy", "write", blk, d) EXCEPT !.buf = Queue[i]])
  /\ UNCHANGED <<rdstate, rdlists, rdavail, rdreq, rdfar, rdinbox, rdwritten, rdpanic>>

Queued(b) == Contains(Queue, b) /\ rdbuf[b].op = "write"

(* The contents are replaced, in the buffer that was found: rdsprocess()   *)
(* may have taken the request, and sent what it held, in the meantime.     *)
WriteCopies(c) ==
  LET k == rdcont[c] IN
  /\ Step(c, "wcopy")
  /\ rdbuf' = [rdbuf EXCEPT ![k.buf].data = k.data]
  /\ rdwritten' = IF Queued(k.buf) THEN [rdwritten EXCEPT ![rdbuf[k.buf].blk] = k.data]
                                   ELSE rdwritten
  /\ RdGoto(c, RdIdle)
  /\ UNCHANGED <<rdstate, rdlink, rdfree, rdavail, rdreq, rdfar, rdinbox, rdpanic>>

WriteSearchesCache(c) ==
  /\ Step(c, "wcache")
  /\ LET k == rdcont[c]
         i == FirstFor(Cache, k.blk)
     IN \/ /\ i > 0 /\ rdbuf[Cache[i]].refcnt <= 0
           /\ rdlink' = UnlinkNode(rdlink, Cache[i])
           /\ RdGoto(c, [k EXCEPT !.pc = "reset", !.buf = Cache[i], !.n = rdavail.count])
        \/ /\ i > 0 => rdbuf[Cache[i]].refcnt > 0
           /\ RdGoto(c, [k EXCEPT !.pc = "alloc"]) /\ UNCHANGED rdlink
  /\ UNCHANGED <<rdstate, rdfree, rdbuf, rdavail, rdreq, rdfar, rdinbox, rdwritten, rdpanic>>

(* semreset(availsem, semcount(availsem) - 1), with the count read before. *)
(* The mutant takes the buffer without the permit that goes with it.       *)
BugTaken(n) == [count |-> n, line |-> <<>>]
Taken(n) == [count |-> n - 1, line |-> <<>>]
WriteResets(c) ==
  /\ Step(c, "reset")
  /\ rdavail' = IF rdcont[c].n >= 1 THEN Taken(rdcont[c].n) ELSE rdavail
  /\ RdGoto(c, [rdcont[c] EXCEPT !.pc = "link"])
  /\ UNCHANGED <<rdstate, rdlists, rdreq, rdfar, rdinbox, rdwritten, rdpanic>>

RdSync(c) ==
  /\ Open(c)
  /\ RdGoto(c, RdCall("alloc", "sync", AnyBlock, AnyData))
  /\ UNCHANGED <<rdstate, rdlists, rdavail, rdreq, rdfar, rdinbox, rdwritten, rdpanic>>

(* rdsbufalloc(): wait for a buffer ... *)
AllocWaits(c) ==
  /\ Step(c, "alloc")
  /\ rdavail' = SemWait(rdavail, c)
  /\ RdGoto(c, [rdcont[c] EXCEPT !.pc = "take"])
  /\ UNCHANGED <<rdstate, rdlists, rdreq, rdfar, rdinbox, rdwritten, rdpanic>>

(* ... and take one from the free list, or the oldest that is not used. *)
AllocTakes(c) ==
  /\ Step(c, "take")
  /\ LET old == SelectInSeq(FromBack(Cache), LAMBDA b : rdbuf[b].refcnt <= 0)
         has(b) == RdGoto(c, [rdcont[c] EXCEPT !.pc = "link", !.buf = b])
     IN \/ /\ rdfree # "null"
           /\ rdfree' = rdlink.nx[rdfree] /\ has(rdfree) /\ UNCHANGED <<rdlink, rdpanic>>
        \/ /\ rdfree = "null" /\ old > 0
           /\ LET b == FromBack(Cache)[old]
              IN rdlink' = UnlinkNode(rdlink, b) /\ has(b)
           /\ UNCHANGED <<rdfree, rdpanic>>
        \/ /\ rdfree = "null" /\ old = 0
           /\ rdpanic' = TRUE /\ UNCHANGED <<rdlink, rdfree, rdcont>>
  /\ UNCHANGED <<rdstate, rdbuf, rdavail, rdreq, rdfar, rdinbox, rdwritten>>

(* The request is filled in and linked, the process told; a sync() only    *)
(* resumes it, which does nothing to a process that waits on a semaphore.  *)
Fill(k, c) == [op |-> k.for, refcnt |-> IF k.for = "write" THEN 0 ELSE 1, blk |-> k.blk,
               valid |-> k.for = "write", pid |-> c,
               data |-> IF k.for = "write" THEN k.data ELSE rdbuf[k.buf].data]
Link(c) ==
  LET k == rdcont[c] IN
  /\ Step(c, "link")
  /\ rdbuf' = [rdbuf EXCEPT ![k.buf] = Fill(k, c)]
  /\ rdlink' = ToQueue(rdlink, k.buf)
  /\ rdwritten' = IF k.for = "write" THEN [rdwritten EXCEPT ![k.blk] = k.data] ELSE rdwritten
  /\ rdinbox' = IF k.for = "write" THEN rdinbox ELSE [rdinbox EXCEPT ![c] = "none"]
  /\ rdreq' = IF k.for = "sync" THEN rdreq ELSE rdreq + 1
  /\ RdGoto(c, IF k.for = "write" THEN RdIdle ELSE RdCall("await", k.for, AnyBlock, AnyData))
  /\ UNCHANGED <<rdstate, rdfree, rdavail, rdfar, rdpanic>>

(* receive(), and the end of rdsread(): a reader that is the last one puts *)
(* the buffer aside if the cache has a copy ahead of it - a walk that does *)
(* not advance.                                                            *)
RdReceives(c) ==
  /\ Step(c, "await") /\ rdinbox[c] # "none"
  /\ rdinbox' = [rdinbox EXCEPT ![c] = "none"]
  /\ \/ rdcont[c].for = "sync" /\ RdGoto(c, RdIdle) /\ UNCHANGED rdbuf
     \/ /\ rdcont[c].for = "read"
        /\ LET b == rdinbox[c]
           IN /\ rdbuf' = [rdbuf EXCEPT ![b].refcnt = @ - 1]
              /\ RdGoto(c, IF rdbuf[b].refcnt - 1 <= 0 /\ rdlink.nx["ch"] # b
                           THEN RdCall("loops", "read", AnyBlock, AnyData) ELSE RdIdle)
  /\ UNCHANGED <<rdstate, rdlink, rdfree, rdavail, rdreq, rdfar, rdwritten, rdpanic>>

-----------------------------------------------------------------------------
(* rdsopen(): an identifier that is empty or too long leaves the device    *)
(* pending; else the answer of the server decides.                         *)
RdOpens(c) ==
  /\ Step(c, "idle") /\ rdstate = "RD_FREE"
  /\ rdstate' \in {"RD_PEND", "RD_OPEN", "RD_FREE"} /\ rdstate' # rdstate
  /\ UNCHANGED <<rdlists, rdavail, rdreq, rdfar, rdinbox, rdcont, rdwritten, rdpanic>>

(* rdsclose(): the cache, first buffer first, goes to the free list. *)
RdClose(c) ==
  /\ Open(c) /\ Queue = <<>>
  /\ rdstate' = "RD_FREE"
  /\ LET s == FromBack(Cache)
         after(b) == LET i == SelectInSeq(s, LAMBDA x : x = b)
                     IN IF i = Len(s) THEN rdfree ELSE s[i + 1]
     IN /\ rdlink' = [nx |-> [n \in Node |-> IF Contains(s, n) THEN after(n)
                                              ELSE IF n = "ch" THEN "ct" ELSE rdlink.nx[n]],
                      pv |-> [rdlink.pv EXCEPT !["ct"] = "ch"]]
        /\ rdfree' = IF s = <<>> THEN rdfree ELSE s[1]
        /\ rdbuf' = [b \in Buf |-> IF Contains(s, b) THEN [rdbuf[b] EXCEPT !.valid = FALSE]
                                                     ELSE rdbuf[b]]
  /\ UNCHANGED <<rdavail, rdreq, rdfar, rdinbox, rdcont, rdwritten, rdpanic>>

-----------------------------------------------------------------------------
(* rdscomm(): a transmission is lost, or the server acts on it and answers.*)
Request(typ, blk, d) == [type |-> typ, blk |-> blk, data |-> d]
Transmitted(seq, m) ==
  {<<rdnet, rddisk>>,
   <<rdnet \cup {[seq |-> seq, type |-> m.type,
                  data |-> IF m.type = "read" THEN rddisk[m.blk] ELSE m.data]},
     IF m.type = "write" THEN [rddisk EXCEPT ![m.blk] = m.data] ELSE rddisk>>}
Begins(b, m) ==
  /\ rdseq <= RdMaxSeq
  /\ rdseq' = rdseq + 1
  /\ \E t \in Transmitted(rdseq, m) : rdnet' = t[1] /\ rddisk' = t[2]
  /\ rdcomm' = [pc |-> m.type, buf |-> b, msg |-> m, seq |-> rdseq, tries |-> 1]

(* rdsprocess() takes the request at the head of the queue. *)
CommTakes ==
  /\ rdcomm = CommIdle /\ rdreq > 0 /\ ~rdpanic
  /\ rdreq' = rdreq - 1
  /\ LET b == rdlink.nx["rh"]
         r == rdbuf[b]
     IN \/ /\ r.op = "read"
           /\ Begins(b, Request("read", rdmsgblk, r.data))
           /\ UNCHANGED <<rdlists, rdavail, rdinbox, rdmsgblk>>
        \/ /\ r.op = "write"
           /\ rdlink' = ToCache(UnlinkNode(rdlink, b), b)
           /\ rdbuf' = [rdbuf EXCEPT ![b].refcnt = 0]
           /\ rdavail' = SemSignal(rdavail)
           /\ rdmsgblk' = r.blk
           /\ Begins(b, Request("write", r.blk, r.data))
           /\ UNCHANGED <<rdfree, rdinbox>>
        \/ /\ r.op = "sync"
           /\ rdinbox' = [rdinbox EXCEPT ![r.pid] = IF @ = "none" THEN "ok" ELSE @]
           /\ rdlink' = ToFree(UnlinkNode(rdlink, b), b)
           /\ rdfree' = b
           /\ rdavail' = SemSignal(rdavail)
           /\ UNCHANGED <<rdbuf, rdseq, rdcomm, rdmsgblk, rdnet, rddisk>>
  /\ UNCHANGED <<rdstate, rdcont, rdwritten, rdpanic>>

(* The end of a read: the buffer goes to the cache and to the reader; the  *)
(* first other request for the block is answered too, and freed - unlinked *)
(* by the links of the wrong buffer.                                       *)
ReadDone(b, d) ==
  LET l == ToCache(UnlinkNode(rdlink, b), b)
      q == Chain(l.nx, "rh", "rt")
      i == FirstFor(q, rdbuf[b].blk)
      tell(in, p) == [in EXCEPT ![p] = IF @ = "none" THEN b ELSE @]
      told == tell(rdinbox, rdbuf[b].pid)
  IN IF i = 0
     THEN /\ rdlink' = l /\ rdavail' = SemSignal(rdavail) /\ rdinbox' = told
          /\ rdbuf' = [rdbuf EXCEPT ![b].data = d, ![b].refcnt = 1]
          /\ UNCHANGED rdfree
     ELSE /\ rdlink' = [nx |-> [l.nx EXCEPT ![l.pv[q[i]]] = l.nx[b], ![q[i]] = rdfree],
                        pv |-> [l.pv EXCEPT ![l.nx[q[i]]] = l.pv[b]]]
          /\ rdavail' = SemSignal(SemSignal(rdavail)) /\ rdinbox' = tell(told, rdbuf[q[i]].pid)
          /\ rdbuf' = [rdbuf EXCEPT ![b].data = d, ![b].refcnt = 2]
          /\ rdfree' = q[i]

(* What rdscomm() takes for an answer: a late one of the right type too,   *)
(* because the test of the sequence number does not end the turn.          *)
Accepts(r) == r.type = rdcomm.pc /\ r.seq <= rdcomm.seq

CommReceives(r) ==
  /\ rdcomm.pc # "idle" /\ ~rdpanic /\ r \in rdnet /\ Accepts(r)
  /\ rdcomm' = CommIdle
  /\ \/ rdcomm.pc = "read" /\ ReadDone(rdcomm.buf, r.data)
     \/ rdcomm.pc = "write" /\ UNCHANGED <<rdlists, rdavail, rdinbox>>
  /\ rdnet' \in IF Late THEN {rdnet, rdnet \ {r}} ELSE {{}}
  /\ UNCHANGED <<rdstate, rdreq, rdseq, rdmsgblk, rddisk, rdcont, rdwritten, rdpanic>>

(* No answer in time, or one that is not accepted: once more.  An answer   *)
(* that is too old uses up a turn without a transmission.                  *)
CommRetries ==
  /\ rdcomm.pc # "idle" /\ ~rdpanic /\ rdcomm.tries < RD_RETRIES
  /\ rdcomm' = [rdcomm EXCEPT !.tries = @ + 1]
  /\ \E t \in Transmitted(rdcomm.seq, rdcomm.msg) \cup
             {<<rdnet \ {r}, rddisk>> : r \in {x \in rdnet : x.seq < rdcomm.seq /\ ~Accepts(x)}} :
       rdnet' = t[1] /\ rddisk' = t[2]
  /\ UNCHANGED <<rdstate, rdlists, rdavail, rdreq, rdseq, rdmsgblk, rdinbox, rdcont,
                 rdwritten, rdpanic>>

(* rdsprocess() panics when the server has not answered. *)
CommPanics ==
  /\ rdcomm.pc # "idle" /\ ~rdpanic /\ rdcomm.tries = RD_RETRIES
  /\ rdpanic' = TRUE
  /\ UNCHANGED <<rdstate, rdlists, rdavail, rdreq, rdfar, rdinbox, rdcont, rdwritten>>

RdNext ==
  \/ \E c \in Client :
       \/ \E x \in RdBlock : RdRead(c, x) \/ \E d \in RdData : RdWrite(c, x, d)
       \/ RdSync(c) \/ RdOpens(c) \/ RdClose(c)
       \/ ReadSearchesQueue(c) \/ WriteCopies(c) \/ WriteSearchesCache(c) \/ WriteResets(c)
       \/ AllocWaits(c) \/ AllocTakes(c) \/ Link(c) \/ RdReceives(c)
  \/ CommTakes \/ CommRetries \/ CommPanics \/ \E r \in rdnet : CommReceives(r)

RdSpec == RdInit /\ [][RdNext]_RdVars

-----------------------------------------------------------------------------

(* rd_availsem never promises a buffer there is not: rdsbufalloc() finds   *)
(* one whenever its wait() lets it through (rdsbufalloc.c:30).             *)
RdPromisesKept ==
  LET usable == Len(Free) + Cardinality({i \in 1 .. Len(Cache) : rdbuf[Cache[i]].refcnt <= 0})
      let    == Cardinality({c \in Client : Step(c, "take")})
      reading == Cardinality({c \in Client : rdcont[c].pc = "await" /\ rdinbox[c] # "none"
                                              /\ rdcont[c].for = "read"})
      resets == Cardinality({c \in Client : rdcont[c].pc = "reset"})
  IN ~rdpanic => rdavail.count + let <= usable + reading + resets

(* What the write requests for a block held last reaches the server: it    *)
(* waits in the queue, is on its way, or is on the disk - rdsprocess.c:104 *)
(* says that only requests to read are answered and removed with another.  *)
(* (What rdswrite() copies into a request that has just been sent is lost  *)
(* in any case, and not counted here: rdswrite.c:35.)                      *)
RdWritesReach ==
  \A blk \in RdBlock :
    \/ rddisk[blk] = rdwritten[blk]
    \/ \E i \in 1 .. Len(Queue) :
         LET r == rdbuf[Queue[i]]
         IN r.op = "write" /\ r.blk = blk /\ r.data = rdwritten[blk]
    \/ rdcomm.pc = "write" /\ rdcomm.msg.blk = blk /\ rdcomm.msg.data = rdwritten[blk]

=============================================================================
