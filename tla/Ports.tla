------------------------------- MODULE Ports -------------------------------
(***************************************************************************)
(* Message ports: ptcreate(), ptsend(), ptrecv(), ptreset(), ptdelete(),   *)
(* ptcount(), and kill() of a process that uses a port.                    *)
(*                                                                         *)
(* A step goes from where a process gets the CPU to where it may next lose *)
(* it: wait() on a semaphore without permits, the end of semreset() or     *)
(* semdelete(), and the function that disposes of a message, which may     *)
(* signal.  The scheduler is abstracted: any process that is not blocked   *)
(* may run next.  A message is represented by the generation of the port   *)
(* its sender saw when it called ptsend().                                 *)
(***************************************************************************)
EXTENDS Integers, Queues, FiniteSets

(* A definition named Bug... is a mutant of the one that follows it.        *)

CONSTANTS Proc,       \* the processes
          NPORTS,     \* size of the port table
          NSEM,       \* semaphores left for the ports by their other users
          PT_MSGS,    \* nodes on the free list ptinit() makes
          Sizes,      \* the sizes ports are created with
          MaxSeq      \* bound: no creation, reset or deletion past these generations

Port == 0 .. NPORTS - 1
Uint16 == 2^16

ASSUME PortsAssumption == /\ NPORTS \in Nat \ {0} /\ PT_MSGS \in Nat \ {0} /\ NSEM \in Nat
                          /\ Sizes \subseteq 0 .. Uint16 - 1 /\ MaxSeq \in [Port -> Nat]
                          /\ IsFiniteSet(Proc)

VARIABLES ptstate,    \* porttab[].ptstate
          ptseq,      \* porttab[].ptseq
          ptmaxcnt,   \* porttab[].ptmaxcnt
          ptlist,     \* the messages from pthead to pttail
          ptsem,      \* the semaphores ptssem and ptrsem of each port
          ptnextid,   \* where ptcreate() looks first
          ptfree,     \* the number of nodes on the free list
          ptcont,     \* what a process continues with
          ptlost,     \* history: permits of this generation that died with a process
          panicked    \* panic() has stopped the system

PortsVars == <<ptstate, ptseq, ptmaxcnt, ptlist, ptsem, ptnextid, ptfree,
               ptcont, ptlost, panicked>>
heldvars == <<ptstate, ptmaxcnt, ptnextid>>

Side == {"snd", "rcv"}
Both(a, b) == [snd |-> a, rcv |-> b]
Cont == [op : {"user", "dead", "clear", "clearing", "cleared"} \cup Side,
         port : Port, n : Nat, to : {"PT_FREE", "PT_ALLOC"}]
InUser == [op |-> "user", port |-> 0, n |-> 0, to |-> "PT_FREE"]
Dead   == [InUser EXCEPT !.op = "dead"]
At(op, q, n, to) == [op |-> op, port |-> q, n |-> n, to |-> to]

(* A semaphore: made is FALSE if semcreate() found the table full, so that *)
(* the port holds SYSERR in place of an id and all calls on it fail.       *)
NoSem      == [made |-> FALSE, count |-> 0, line |-> <<>>]
NewSem(c)  == [made |-> TRUE, count |-> c, line |-> <<>>]
Blocks(s)  == s.count <= 0
Wait(s, p) == [s EXCEPT !.count = @ - 1, !.line = IF Blocks(s) THEN Append(@, p) ELSE @]
Signal(s)  == IF ~s.made THEN s
              ELSE [s EXCEPT !.count = @ + 1,
                             !.line  = IF s.count < 0 THEN Tail(@) ELSE @]
Reset(s, c) == IF s.made THEN NewSem(c) ELSE s

Alloc(q)   == ptstate[q] = "PT_ALLOC"
Calls(p)   == ptcont[p] = InUser /\ ~panicked
Blocked(p) == /\ ptcont[p].op \in Side
              /\ InQ(ptsem[ptcont[p].port][ptcont[p].op].line, p)
Runs(p, op) == ptcont[p].op = op /\ ~Blocked(p) /\ ~panicked
Goto(p, c) == ptcont' = [ptcont EXCEPT ![p] = c]

PortsInit ==
  /\ ptstate = [q \in Port |-> "PT_FREE"]
  /\ ptseq = [q \in Port |-> 0]
  /\ ptmaxcnt = [q \in Port |-> 0]
  /\ ptlist = [q \in Port |-> <<>>]
  /\ ptsem = [q \in Port |-> Both(NoSem, NoSem)]
  /\ ptnextid = 0
  /\ ptfree = PT_MSGS
  /\ ptcont = [p \in Proc |-> InUser]
  /\ ptlost = [q \in Port |-> Both(0, 0)]
  /\ panicked = FALSE

-----------------------------------------------------------------------------
(* ptcreate(): the first free entry, round-robin from ptnextid.  The table *)
(* of semaphores may have no place left for the second of the two, or for  *)
(* either: ptcreate() does not look.                                       *)
SemsLeft == NSEM - Cardinality({x \in Port \X Side : ptsem[x[1]][x[2]].made})

FirstFree(q) ==
  /\ ptstate[q] = "PT_FREE"
  /\ \A r \in Port : ptstate[r] = "PT_FREE"
                       => (q - ptnextid) % NPORTS <= (r - ptnextid) % NPORTS

After(q)    == (q + 1) % NPORTS

Ptcreate(p, q, c) ==
  /\ Calls(p) /\ FirstFree(q) /\ ptseq[q] < MaxSeq[q]
  /\ ptstate' = [ptstate EXCEPT ![q] = "PT_ALLOC"]
  /\ ptseq' = [ptseq EXCEPT ![q] = @ + 1]
  /\ ptmaxcnt' = [ptmaxcnt EXCEPT ![q] = c % Uint16]
  /\ ptlist' = [ptlist EXCEPT ![q] = <<>>]
  /\ ptsem' = [ptsem EXCEPT ![q] = Both(IF SemsLeft >= 1 THEN NewSem(c) ELSE NoSem,
                                        IF SemsLeft >= 2 THEN NewSem(0) ELSE NoSem)]
  /\ ptnextid' = After(q)
  /\ ptlost' = [ptlost EXCEPT ![q] = Both(0, 0)]
  /\ UNCHANGED <<ptfree, ptcont, panicked>>

-----------------------------------------------------------------------------
(* The sender, once let in, takes a node, links it and signals the         *)
(* receivers; s are the semaphores of q by then.                           *)
Put(q, msg, s) ==
  IF ptfree = 0
  THEN /\ panicked' = TRUE
       /\ ptsem' = [ptsem EXCEPT ![q] = s]
       /\ UNCHANGED <<ptlist, ptfree>>
  ELSE /\ ptlist' = [ptlist EXCEPT ![q] = Append(@, msg)]
       /\ ptfree' = ptfree - 1
       /\ ptsem' = [ptsem EXCEPT ![q] = [s EXCEPT !.rcv = Signal(@)]]
       /\ UNCHANGED panicked

(* The receiver, once let in, takes the first message, gives back its node *)
(* and signals the senders.  (SubSeq, unlike Tail, is defined on <<>>.)    *)
Get(q, s) ==
  /\ ptlist' = [ptlist EXCEPT ![q] = SubSeq(@, 2, Len(@))]
  /\ ptfree' = ptfree + 1
  /\ ptsem' = [ptsem EXCEPT ![q] = [s EXCEPT !.snd = Signal(@)]]
  /\ UNCHANGED panicked

(* wait() on the side of q: through at once, or into the line. *)
Enter(p, q, side, goes) ==
  /\ Calls(p) /\ Alloc(q) /\ ptsem[q][side].made
  /\ \/ ~Blocks(ptsem[q][side]) /\ goes /\ UNCHANGED ptcont
     \/ /\ Blocks(ptsem[q][side])
        /\ ptsem' = [ptsem EXCEPT ![q][side] = Wait(@, p)]
        /\ Goto(p, At(side, q, ptseq[q], "PT_FREE"))
        /\ UNCHANGED <<ptlist, ptfree, panicked>>
  /\ UNCHANGED <<heldvars, ptseq, ptlost>>

Ptsend(p, q) ==
  Enter(p, q, "snd", Put(q, ptseq[q], [ptsem[q] EXCEPT !.snd = Wait(@, p)]))
Ptrecv(p, q) ==
  Enter(p, q, "rcv", Get(q, [ptsem[q] EXCEPT !.rcv = Wait(@, p)]))

(* The test after wait(): the port is the one the call was made on.  The   *)
(* mutant trusts the state alone.                                          *)
BugStillThere(c) == Alloc(c.port)
StillThere(c) == Alloc(c.port) /\ ptseq[c.port] = c.n

(* What follows wait() when the process had to wait. *)
Resumes(p, side, goes) ==
  /\ Runs(p, side)
  /\ Goto(p, InUser)
  /\ IF StillThere(ptcont[p]) THEN goes
                              ELSE UNCHANGED <<ptlist, ptsem, ptfree, panicked>>
  /\ UNCHANGED <<heldvars, ptseq, ptlost>>

PtsendGoesOn(p) ==
  LET c == ptcont[p] IN Resumes(p, "snd", Put(c.port, c.n, ptsem[c.port]))
PtrecvGoesOn(p) ==
  LET c == ptcont[p] IN Resumes(p, "rcv", Get(c.port, ptsem[c.port]))

-----------------------------------------------------------------------------
(* What _ptclear() does to the port, its list and one of its semaphores.   *)
(* The mutants leave the port open, the nodes unlinked, the line waiting.  *)
BugLimbo(q) == UNCHANGED ptstate
Limbo(q)    == ptstate' = [ptstate EXCEPT ![q] = "PT_LIMBO"]
BugGiveBack(q) == ptfree' = ptfree
GiveBack(q)    == ptfree' = ptfree + Len(ptlist[q])
BugRelease(s, to, c) == [s EXCEPT !.count = c]
Release(s, to, c)    == IF to = "PT_ALLOC" THEN Reset(s, c) ELSE NoSem

(* ptreset() and ptdelete() up to the walk of the list in _ptclear().      *)
ClearBegins(p, q, to) ==
  /\ Calls(p) /\ Alloc(q) /\ ptseq[q] < MaxSeq[q]
  /\ Limbo(q)
  /\ ptseq' = [ptseq EXCEPT ![q] = @ + 1]
  /\ Goto(p, At("clear", q, Len(ptlist[q]), to))
  /\ UNCHANGED <<ptmaxcnt, ptlist, ptsem, ptnextid, ptfree, ptlost, panicked>>

(* A turn of the walk: one more message has been disposed of. *)
Disposes(p) ==
  /\ Runs(p, "clear") /\ ptcont[p].n > 0
  /\ ptcont' = [ptcont EXCEPT ![p].n = @ - 1]
  /\ UNCHANGED <<heldvars, ptseq, ptlist, ptsem, ptfree, ptlost, panicked>>

(* The list goes to the free list, the senders are released. *)
ClearSenders(p) ==
  LET q == ptcont[p].port IN
  /\ Runs(p, "clear") /\ ptcont[p].n = 0
  /\ GiveBack(q)
  /\ ptlist' = [ptlist EXCEPT ![q] = <<>>]
  /\ ptsem' = [ptsem EXCEPT ![q].snd = Release(@, ptcont[p].to, ptmaxcnt[q])]
  /\ ptlost' = [ptlost EXCEPT ![q].snd = 0]
  /\ ptcont' = [ptcont EXCEPT ![p].op = "clearing"]
  /\ UNCHANGED <<heldvars, ptseq, panicked>>

(* The receivers are released. *)
ClearReceivers(p) ==
  LET q == ptcont[p].port IN
  /\ Runs(p, "clearing")
  /\ ptsem' = [ptsem EXCEPT ![q].rcv = Release(@, ptcont[p].to, 0)]
  /\ ptlost' = [ptlost EXCEPT ![q].rcv = 0]
  /\ ptcont' = [ptcont EXCEPT ![p].op = "cleared"]
  /\ UNCHANGED <<heldvars, ptseq, ptlist, ptfree, panicked>>

(* The port leaves limbo, and the call returns. *)
ClearEnds(p) ==
  LET q == ptcont[p].port IN
  /\ Runs(p, "cleared")
  /\ ptstate' = [ptstate EXCEPT ![q] = ptcont[p].to]
  /\ ptnextid' = IF ptcont[p].to = "PT_FREE" THEN q ELSE ptnextid
  /\ Goto(p, InUser)
  /\ UNCHANGED <<ptseq, ptmaxcnt, ptlist, ptsem, ptfree, ptlost, panicked>>

-----------------------------------------------------------------------------
(* Let in to side of q in its present generation, and not yet gone on. *)
Granted(q, side) == {p \in Proc : /\ ptcont[p].op = side /\ ptcont[p].port = q
                                  /\ ptcont[p].n = ptseq[q] /\ ~Blocked(p)}

(* kill() by a process in its own code.  A waiting victim leaves the line  *)
(* and the count; one that has been let in is merely ready, and its permit *)
(* dies with it.                                                           *)
Kill(p) ==
  LET c == ptcont[p] IN
  /\ c # Dead /\ ~panicked /\ \E r \in Proc : ptcont[r] = InUser
  /\ Goto(p, Dead)
  /\ \/ /\ Blocked(p)
        /\ ptsem' = [ptsem EXCEPT ![c.port][c.op].count = @ + 1,
                                  ![c.port][c.op].line = Unlink(@, p)]
        /\ UNCHANGED ptlost
     \/ /\ c.op \in Side /\ p \in Granted(c.port, c.op)
        /\ ptlost' = [ptlost EXCEPT ![c.port][c.op] = @ + 1]
        /\ UNCHANGED ptsem
     \/ /\ c.op \in Side => ~Blocked(p) /\ p \notin Granted(c.port, c.op)
        /\ UNCHANGED <<ptsem, ptlost>>
  /\ UNCHANGED <<heldvars, ptseq, ptlist, ptfree, panicked>>

GoesOn(p) == \/ PtsendGoesOn(p) \/ PtrecvGoesOn(p) \/ Disposes(p)
             \/ ClearSenders(p) \/ ClearReceivers(p) \/ ClearEnds(p)

PortsNext ==
  \E p \in Proc :
    \/ \E q \in Port : \/ Ptsend(p, q) \/ Ptrecv(p, q)
                       \/ \E c \in Sizes : Ptcreate(p, q, c)
                       \/ \E to \in {"PT_FREE", "PT_ALLOC"} : ClearBegins(p, q, to)
    \/ PtsendGoesOn(p) \/ PtrecvGoesOn(p)
    \/ Disposes(p) \/ ClearSenders(p) \/ ClearReceivers(p) \/ ClearEnds(p)
    \/ Kill(p)

PortsSpec == PortsInit /\ [][PortsNext]_PortsVars

(* Processes of one priority share the CPU by time slices, so one that is  *)
(* inside a call and not blocked goes on with it.                          *)
PortsFairness == \A p \in Proc : WF_PortsVars(GoesOn(p))
PortsFairSpec == PortsSpec /\ PortsFairness

-----------------------------------------------------------------------------

Positive(n) == IF n > 0 THEN n ELSE 0

(* Permits, messages and processes on their way agree: a place in the port *)
(* is free to take, or holds a message, or belongs to a sender let in, or  *)
(* died with one; and every message has a permit for a receiver, or a      *)
(* receiver let in, or one that died.  So a receiver let in never finds    *)
(* the list empty (system/ptsend.c, ptrecv.c, ptclear.c).                  *)
PermitsMatchMessages ==
  \A q \in Port : Alloc(q) /\ ~panicked =>
    LET s == ptsem[q].snd
        r == ptsem[q].rcv
    IN /\ s.made => Positive(s.count) + Len(ptlist[q])
                      + Cardinality(Granted(q, "snd")) + ptlost[q].snd = ptmaxcnt[q]
       /\ r.made => Positive(r.count)
                      + Cardinality(Granted(q, "rcv")) + ptlost[q].rcv = Len(ptlist[q])

(* No message is in a port that was sent to an earlier one in its entry,   *)
(* however long its sender had been held up (system/ptsend.c:32).          *)
NoStaleMessages ==
  \A q \in Port : Alloc(q) => \A i \in 1 .. Len(ptlist[q]) : ptlist[q][i] = ptseq[q]

(* Nodes are neither lost nor taken twice: those of the free list and the  *)
(* ports are all there are, also in the middle of clearing a port.  And    *)
(* the panic for want of a node means that ports promised more places      *)
(* together than there are nodes (system/ptclear.c:33, ptsend.c:36).       *)
NodesAccounted ==
  /\ ptfree + Cardinality(Places(Port, [q \in Port |-> Len(ptlist[q])])) = PT_MSGS
  /\ panicked =>
       Cardinality(Places(Port, [q \in Port |-> IF ptstate[q] = "PT_FREE" THEN 0
                                         ELSE ptmaxcnt[q]])) > PT_MSGS

(* Whoever waits in a port that is reset or deleted gets out, unless the   *)
(* process that clears it is killed on the way (system/ptclear.c:42).      *)
Outdated(p, q) == /\ ptcont[p].op \in Side /\ ptcont[p].port = q
                  /\ ptcont[p].n # ptseq[q]
Clears(p, q) == ptcont[p].op \in {"clear", "clearing", "cleared"} /\ ptcont[p].port = q
WaitersReleased ==
  \A p \in Proc, q \in Port :
    Outdated(p, q) ~> \/ ~Outdated(p, q) \/ panicked
                      \/ ptstate[q] = "PT_LIMBO" /\ \A r \in Proc : ~Clears(r, q)
=============================================================================
