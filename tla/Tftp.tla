-------------------------------- MODULE Tftp --------------------------------
(***************************************************************************)
(* The TFTP client: tftpget_mb() and the exchanges of tftp_send1(), over a *)
(* network that loses, repeats, delays and reorders datagrams.  A request  *)
(* for the file that arrives twice starts two transfers at the server,     *)
(* each from a port of its own; the client answers the port the latest     *)
(* datagram came from, whether or not it kept the datagram.                *)
(*                                                                         *)
(* The contents of a byte is its position in the file.  The buffers of the *)
(* caller are filled one after the other and count as one.                 *)
(***************************************************************************)
EXTENDS Integers, Sequences

CONSTANTS TftpPort,         \* ports of the server's transfers
          TftpSizes,        \* sizes of files
          TftpRoom,         \* space in the buffers of the caller
          TFTP_MAXDATA, TFTP_MAXRETRIES,
          TftpWord          \* block numbers wrap: 2^16

(* No file has so many blocks that their numbers repeat: the client could  *)
(* not tell a late block from the one with its number it waits for.        *)
ASSUME TftpAssumption ==
  /\ {TFTP_MAXDATA, TFTP_MAXRETRIES, TftpWord} \subseteq Nat \ {0}
  /\ TftpSizes \subseteq Nat /\ TftpRoom \in Nat
  /\ \A n \in TftpSizes : n < (TftpWord - 1) * TFTP_MAXDATA

VARIABLES tftpsize,    \* size of the file at the server
          tftpnet,     \* datagrams to the client that have been sent
          tftppc,      \* the client: "idle", "send", "wait", "last", "done", "error"
          tftpout,     \* outmsg: the request, or the block it acknowledges
          remport,
          expected,
          tftptry,     \* transmissions of outmsg
          tftpstored   \* what the buffers hold

TftpVars == <<tftpsize, tftpnet, tftppc, tftpout, remport, expected, tftptry, tftpstored>>

TftpInit ==
  /\ tftpsize \in TftpSizes
  /\ tftpnet = {}
  /\ tftppc = "idle"
  /\ tftpout = [op |-> "none"]
  /\ remport = "TFTP_PORT"
  /\ expected = 1
  /\ tftptry = 0
  /\ tftpstored = <<>>

Least(a, b) == IF a < b THEN a ELSE b

-----------------------------------------------------------------------------
(* The server: a transfer sends the block after the one acknowledged; the  *)
(* number of a block is its place in the file, cut to 16 bits.             *)
TftpBytes(k) == [i \in 1 .. Least(TFTP_MAXDATA, tftpsize - (k - 1) * TFTP_MAXDATA)
                   |-> (k - 1) * TFTP_MAXDATA + i]
TftpBlocks == {k \in 1 .. tftpsize + 1 : (k - 1) * TFTP_MAXDATA <= tftpsize}
TftpData(k, port) == [op |-> "TFTP_DATA", blk |-> k % TftpWord, bytes |-> TftpBytes(k), port |-> port]
ServerAnswers(out, port) ==
  IF port = "TFTP_PORT"
  THEN IF out.op = "TFTP_RRQ" THEN {TftpData(1, t) : t \in TftpPort} ELSE {}
  ELSE IF out.op = "TFTP_ACK"
       THEN {TftpData(k + 1, port) : k \in {j \in TftpBlocks : j + 1 \in TftpBlocks /\ j % TftpWord = out.blk}}
       ELSE {[op |-> "TFTP_ERROR", port |-> port]}

(* udp_sendto(): the datagram is lost, or the server answers. *)
TftpSends(out, port) ==
  \E answer \in {{}} \cup {{d} : d \in ServerAnswers(out, port)} : tftpnet' = tftpnet \cup answer

-----------------------------------------------------------------------------
(* tftpget_mb() starts. *)
tftpget ==
  /\ tftppc = "idle"
  /\ tftppc' = "send"
  /\ tftpout' = [op |-> "TFTP_RRQ"]
  /\ UNCHANGED <<tftpsize, tftpnet, remport, expected, tftptry, tftpstored>>

(* tftp_send1() sends outmsg, and waits. *)
tftp_send1 ==
  /\ tftppc = "send"
  /\ tftptry' = tftptry + 1
  /\ TftpSends(tftpout, remport)
  /\ tftppc' = "wait"
  /\ UNCHANGED <<tftpsize, tftpout, remport, expected, tftpstored>>

TftpTimesOut ==
  /\ tftppc = "wait"
  /\ tftppc' = IF tftptry < TFTP_MAXRETRIES THEN "send" ELSE "error"
  /\ UNCHANGED <<tftpsize, tftpnet, tftpout, remport, expected, tftptry, tftpstored>>

(* The mutant takes any block of data for the one expected. *)
BugMatches(d) == d.op = "TFTP_DATA"
TftpMatches(d) == d.op = "TFTP_DATA" /\ d.blk = expected

(* A datagram comes.  What does not match is ignored, except an error; the *)
(* bytes of a block that matches are stored as long as there is room.      *)
TftpReceives(d) ==
  /\ tftppc = "wait" /\ d \in tftpnet
  /\ remport' = d.port
  /\ \/ /\ d.op = "TFTP_ERROR"
        /\ tftppc' = "error" /\ UNCHANGED <<tftpout, expected, tftptry, tftpstored>>
     \/ /\ d.op # "TFTP_ERROR" /\ ~TftpMatches(d)
        /\ UNCHANGED <<tftppc, tftpout, expected, tftptry, tftpstored>>
     \/ /\ TftpMatches(d)
        /\ LET fits == Least(Len(d.bytes), TftpRoom - Len(tftpstored))
           IN /\ tftpstored' = tftpstored \o SubSeq(d.bytes, 1, fits)
              /\ IF fits < Len(d.bytes)
                 THEN tftppc' = "done" /\ UNCHANGED <<tftpout, expected, tftptry>>
                 ELSE /\ tftpout' = [op |-> "TFTP_ACK", blk |-> expected]
                      /\ tftptry' = 0
                      /\ IF Len(d.bytes) < TFTP_MAXDATA
                         THEN tftppc' = "last" /\ UNCHANGED expected
                         ELSE tftppc' = "send" /\ expected' = (expected + 1) % TftpWord
  /\ UNCHANGED <<tftpsize, tftpnet>>

(* The last acknowledgement is sent once. *)
TftpEnds ==
  /\ tftppc = "last"
  /\ TftpSends(tftpout, remport)
  /\ tftppc' = "done"
  /\ UNCHANGED <<tftpsize, tftpout, remport, expected, tftptry, tftpstored>>

(* udp_sendto() fails. *)
TftpSendFails ==
  /\ tftppc \in {"send", "last"}
  /\ tftppc' = "error"
  /\ UNCHANGED <<tftpsize, tftpnet, tftpout, remport, expected, tftptry, tftpstored>>

TftpNext ==
  \/ tftpget \/ tftp_send1 \/ TftpTimesOut \/ TftpEnds \/ TftpSendFails
  \/ \E d \in tftpnet : TftpReceives(d)

TftpSpec == TftpInit /\ [][TftpNext]_TftpVars

-----------------------------------------------------------------------------
(* Whatever the network does, the buffers hold the beginning of the file,  *)
(* each byte once and in order; a call that succeeds has stored all of it, *)
(* or as much as there was room for (tftp.c:82, tftp.c:252).               *)
TftpPrefix ==
  /\ tftpstored = [i \in 1 .. Len(tftpstored) |-> i]
  /\ Len(tftpstored) <= tftpsize
  /\ tftppc = "done" => Len(tftpstored) = Least(tftpsize, TftpRoom)
=============================================================================
