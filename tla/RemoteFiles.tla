---------------------------- MODULE RemoteFiles ----------------------------
(***************************************************************************)
(* Remote files: rfsopen(), rflread(), rflwrite(), rflseek(), rfscontrol() *)
(* and rflclose(), and the exchange of rfscomm() with the server.          *)
(*                                                                         *)
(* rf_mutex is held by an operation to its end, so there is one exchange   *)
(* at a time.  Requests and replies travel in order and may be lost; those *)
(* of an exchange that was given up may still be on their way.             *)
(***************************************************************************)
EXTENDS Integers, SequencesExt

CONSTANTS RfName,      \* names of files
          RfByte,      \* what a byte may be
          Nrfl,        \* files open at a time
          RF_RETRIES,  \* transmissions of a request
          RfMaxSeq,    \* bound: no exchange past this sequence number
          RfMaxPos     \* bound: bytes of a file

ASSUME RfAssumption == Nrfl \in Nat /\ RF_RETRIES \in Nat \ {0} /\ RfMaxSeq \in Nat /\ RfMaxPos \in Nat

VARIABLES rftab,     \* rfltab: state, name, mode and position
          rfseq,     \* rf_seq
          rfcall,    \* the exchange under way
          rftosrv,   \* requests on their way
          rftoxinu,  \* replies on their way
          rfserver,  \* the files at the server
          rfsure     \* history: the bytes acknowledged and not touched since

RfVars == <<rftab, rfseq, rfcall, rftosrv, rftoxinu, rfserver, rfsure>>

RfDev == 0 .. Nrfl - 1
RfPos == 0 .. RfMaxPos - 1
NoByte == "no byte"
NoFile == [p \in RfPos |-> NoByte]
RfIdle == [type |-> "none"]
RfFree == [used |-> FALSE]

RfInit ==
  /\ rftab = [d \in RfDev |-> RfFree]
  /\ rfseq = 1
  /\ rfcall = RfIdle
  /\ rftosrv = <<>> /\ rftoxinu = <<>>
  /\ rfserver = [n \in RfName |-> NoFile]
  /\ rfsure = [n \in RfName |-> NoFile]

-----------------------------------------------------------------------------
(* An operation checks the device, fills in a request and starts rfscomm().*)
RfRequest(d, type, n, pos, x, mode) ==
  [dev |-> d, type |-> type, name |-> n, pos |-> pos, byte |-> x, mode |-> mode,
   seq |-> rfseq, tries |-> 0, waits |-> FALSE]
Starts(m) ==
  /\ rfcall = RfIdle /\ rfseq <= RfMaxSeq
  /\ rfcall' = m
  /\ rfseq' = rfseq + 1
  /\ UNCHANGED <<rftab, rftosrv, rftoxinu, rfserver>>
rfsndmsg(d, type, n) == Starts(RfRequest(d, type, n, 0, NoByte, {}))
Used(d, bit) == rfcall = RfIdle /\ rftab[d].used /\ bit \in rftab[d].mode
(* A byte the request may change is not sure until it is acknowledged. *)
Unsure(n, ps) == rfsure' = [rfsure EXCEPT ![n] = [p \in RfPos |-> IF p \in ps THEN NoByte ELSE @[p]]]

(* The mode characters as a set of bits: each at most once, "o" or "n", no *)
(* other; without "r" and "w" both.  No bit stands for SYSERR.             *)
rfsgetmode(mode) ==
  LET bits == ToSet(mode)
  IN IF ~IsInjective(mode) \/ ~(bits \subseteq {"r", "w", "o", "n"}) \/ {"o", "n"} \subseteq bits THEN {}
     ELSE IF bits \cap {"r", "w"} = {} THEN bits \cup {"r", "w"} ELSE bits

RfOpen(n, mode) ==
  LET free == {d \in RfDev : ~rftab[d].used}
  IN /\ free # {} /\ rfsgetmode(mode) # {}
     /\ Starts(RfRequest(CHOOSE d \in free : \A e \in free : d <= e, "open", n, 0, NoByte, rfsgetmode(mode)))
     /\ UNCHANGED rfsure

RfRead(d) ==
  /\ Used(d, "r") /\ rftab[d].pos < RfMaxPos
  /\ Starts(RfRequest(d, "read", rftab[d].name, rftab[d].pos, NoByte, {}))
  /\ UNCHANGED rfsure

RfWrite(d, x) ==
  /\ Used(d, "w") /\ rftab[d].pos < RfMaxPos
  /\ Starts(RfRequest(d, "write", rftab[d].name, rftab[d].pos, x, {}))
  /\ Unsure(rftab[d].name, {rftab[d].pos})

(* RFS_CTL_DEL and RFS_CTL_TRUNC name the file themselves. *)
RfControl(d, n) ==
  /\ rfsndmsg(d, "truncate", n)
  /\ Unsure(n, RfPos)

RfSeek(d, pos) ==
  /\ rfcall = RfIdle /\ rftab[d].used
  /\ rftab' = [rftab EXCEPT ![d].pos = pos]
  /\ UNCHANGED <<rfseq, rfcall, rftosrv, rftoxinu, rfserver, rfsure>>

RfClose(d) ==
  /\ rfcall = RfIdle /\ rftab[d].used
  /\ rftab' = [rftab EXCEPT ![d] = RfFree]
  /\ UNCHANGED <<rfseq, rfcall, rftosrv, rftoxinu, rfserver, rfsure>>

-----------------------------------------------------------------------------
(* rfscomm(): send a copy of the request, once more after each timeout. *)
RfSend ==
  /\ rfcall # RfIdle /\ ~rfcall.waits /\ rfcall.tries < RF_RETRIES
  /\ rfcall' = [rfcall EXCEPT !.tries = @ + 1, !.waits = TRUE]
  /\ rftosrv' \in {rftosrv, Append(rftosrv, rfcall)}
  /\ UNCHANGED <<rftab, rfseq, rftoxinu, rfserver, rfsure>>

RfTimesOut ==
  /\ rfcall # RfIdle /\ rfcall.waits
  /\ rfcall' = IF rfcall.tries = RF_RETRIES THEN RfIdle ELSE [rfcall EXCEPT !.waits = FALSE]
  /\ UNCHANGED <<rftab, rfseq, rftosrv, rftoxinu, rfserver, rfsure>>

(* A reply counts when it has the sequence number and the type of the      *)
(* exchange; one that has not uses up a transmission.                      *)
BugAnswers(r) == r.type = rfcall.type
Answers(r) == r.seq = rfcall.seq /\ r.type = rfcall.type

Done(r) ==
  LET d == rfcall.dev
      n == rfcall.name
  IN \/ /\ r.status # "ok" \/ r.type = "truncate"
        /\ UNCHANGED <<rftab, rfsure>>
     \/ /\ r.status = "ok" /\ r.type = "open"
        /\ rftab' = [rftab EXCEPT ![d] = [used |-> TRUE, name |-> n, pos |-> 0, mode |-> rfcall.mode]]
        /\ UNCHANGED rfsure
     \/ /\ r.status = "ok" /\ r.type = "read"
        /\ rftab' = [rftab EXCEPT ![d].pos = IF r.byte = NoByte THEN @ ELSE @ + 1]
        /\ UNCHANGED rfsure
     \/ /\ r.status = "ok" /\ r.type = "write"
        /\ rftab' = [rftab EXCEPT ![d].pos = @ + 1]
        /\ rfsure' = [rfsure EXCEPT ![n][rfcall.pos] = rfcall.byte]
RfReceives ==
  /\ rfcall # RfIdle /\ rfcall.waits /\ rftoxinu # <<>>
  /\ rftoxinu' = Tail(rftoxinu)
  /\ LET r == Head(rftoxinu)
     IN \/ /\ Answers(r)
           /\ rfcall' = RfIdle /\ Done(r)
        \/ /\ ~Answers(r)
           /\ rfcall' = IF rfcall.tries = RF_RETRIES THEN RfIdle ELSE [rfcall EXCEPT !.waits = FALSE]
           /\ UNCHANGED <<rftab, rfsure>>
  /\ UNCHANGED <<rfseq, rftosrv, rfserver>>

(* The server acts on the next request or refuses it; the reply may be     *)
(* lost.                                                                   *)
RfServer(status) ==
  /\ rftosrv # <<>>
  /\ rftosrv' = Tail(rftosrv)
  /\ LET m == Head(rftosrv)
         f == rfserver[m.name]
     IN /\ rfserver' = [rfserver EXCEPT ![m.name] =
                          IF status = "ok" /\ m.type = "write" THEN [f EXCEPT ![m.pos] = m.byte]
                          ELSE IF status = "ok" /\ m.type = "truncate" THEN NoFile ELSE f]
        /\ rftoxinu' \in {rftoxinu, Append(rftoxinu, [seq |-> m.seq, type |-> m.type, status |-> status,
                            byte |-> IF m.type = "read" THEN f[m.pos] ELSE NoByte])}
  /\ UNCHANGED <<rftab, rfseq, rfcall, rfsure>>

RfNext ==
  \/ \E n \in RfName, mode \in {<<>>, <<"r">>, <<"w", "n">>, <<"o", "n">>} : RfOpen(n, mode)
  \/ \E d \in RfDev :
       \/ RfRead(d) \/ RfClose(d)
       \/ \E x \in RfByte : RfWrite(d, x)
       \/ \E n \in RfName : RfControl(d, n)
       \/ \E p \in RfPos : RfSeek(d, p)
  \/ RfSend \/ RfTimesOut \/ RfReceives \/ \E status \in {"ok", "error"} : RfServer(status)

RfSpec == RfInit /\ [][RfNext]_RfVars

-----------------------------------------------------------------------------
(* m may change the byte of n at p; every such request writes x there.     *)
Touches(m, n, p) == m.name = n /\ (m.type = "truncate" \/ (m.type = "write" /\ m.pos = p))
Settled(n, p, x) ==
  /\ rfserver[n][p] = x
  /\ \A i \in 1 .. Len(rftosrv) :
       Touches(rftosrv[i], n, p) => rftosrv[i].type = "write" /\ rftosrv[i].byte = x

(* A byte whose write was acknowledged, and that no request has been made  *)
(* to change since, is on the server, and every request still on its way   *)
(* that touches it is a copy of that write; and a read that is about to    *)
(* end returns it (rfscomm.c:71, rflwrite.c:90, rflread.c:92).             *)
RfAcknowledgedKept ==
  /\ \A n \in RfName, p \in RfPos : rfsure[n][p] # NoByte => Settled(n, p, rfsure[n][p])
  /\ /\ rfcall.type = "read" /\ rfcall.waits
     /\ rftoxinu # <<>> /\ Head(rftoxinu).status = "ok" /\ Answers(Head(rftoxinu))
     => rfsure[rfcall.name][rfcall.pos] \in {NoByte, Head(rftoxinu).byte}
=============================================================================
