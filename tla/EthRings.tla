------------------------------ MODULE EthRings ------------------------------
(***************************************************************************)
(* The Ethernet driver: ethwrite() and ethread() with the two descriptor   *)
(* rings, ethhandler(), the multicast list, and the DMA engine, which      *)
(* works through the rings on its own.                                     *)
(*                                                                         *)
(* The calls run with interrupts disabled; a process is cut only where it  *)
(* blocks in wait().                                                       *)
(***************************************************************************)
EXTENDS Integers, SequencesExt, FiniteSets

CONSTANTS EthSender,     \* processes that send
          EthAddr,       \* destinations of frames: "me", "bcast", multicast addresses
          EthTxSize,     \* ETH_QUARK_TX_RING_SIZE
          EthRxSize,     \* ETH_QUARK_RX_RING_SIZE
          EthMcast       \* ETH_NUM_MCAST

ASSUME EthAssumption == {EthTxSize, EthRxSize, EthMcast} \subseteq Nat \ {0}

VARIABLES ethtx,      \* transmit ring: own (of the DMA) by descriptor, head, tail, dma
          ethosem,    \* the output semaphore: count, and who waits
          ethrx,      \* receive ring: own and frame by descriptor, head, tail, dma
          ethisem,    \* count of the input semaphore
          ethreader,  \* the process in ethread()
          ethsr,      \* the interrupts the device asks for
          ethmca,     \* ed_mca
          ethfull,    \* history: the rings that have been full, "tx" and "rx"
          ethdue      \* history: frames received and not looked at by ethread()

ethtransmit == <<ethtx, ethosem>>
ethreceive  == <<ethrx, ethisem, ethreader, ethdue>>
EthVars == <<ethtransmit, ethreceive, ethsr, ethmca, ethfull>>

TxSlot == 0 .. EthTxSize - 1
RxSlot == 0 .. EthRxSize - 1

EthInit ==
  /\ ethtx = [own |-> [i \in TxSlot |-> FALSE], head |-> 0, tail |-> 0, dma |-> 0]
  /\ ethosem = [count |-> EthTxSize, line |-> <<>>, let |-> {}]
  /\ ethrx = [own |-> [i \in RxSlot |-> TRUE], frame |-> [i \in RxSlot |-> "none"],
              head |-> 0, tail |-> 0, dma |-> 0]
  /\ ethisem = 0
  /\ ethreader = "idle"
  /\ ethsr = {}
  /\ ethmca = <<>>
  /\ ethfull = {}
  /\ ethdue = <<>>

-----------------------------------------------------------------------------
Fills ==
  /\ ethtx' = [ethtx EXCEPT !.own[ethtx.tail] = TRUE, !.tail = (@ + 1) % EthTxSize]
  /\ ethfull' = IF ethtx'.tail = ethtx.head THEN ethfull \cup {"tx"} ELSE ethfull
(* ethwrite(): wait for a slot, fill it, hand it to the DMA. *)
ethwrite(p) ==
  /\ p \notin ToSet(ethosem.line) \cup ethosem.let
  /\ \/ /\ ethosem.count > 0
        /\ ethosem' = [ethosem EXCEPT !.count = @ - 1]
        /\ Fills
     \/ /\ ethosem.count <= 0
        /\ ethosem' = [ethosem EXCEPT !.count = @ - 1, !.line = Append(@, p)]
        /\ UNCHANGED <<ethtx, ethfull>>
  /\ UNCHANGED <<ethreceive, ethsr, ethmca>>
SenderGoesOn(p) ==
  /\ p \in ethosem.let
  /\ ethosem' = [ethosem EXCEPT !.let = @ \ {p}]
  /\ Fills
  /\ UNCHANGED <<ethreceive, ethsr, ethmca>>

(* The device sends the next frame it owns. *)
DmaSends ==
  /\ ethtx.own[ethtx.dma]
  /\ ethtx' = [ethtx EXCEPT !.own[ethtx.dma] = FALSE, !.dma = (@ + 1) % EthTxSize]
  /\ ethsr' = ethsr \cup {"TI"}
  /\ UNCHANGED <<ethosem, ethreceive, ethmca, ethfull>>

(* ethhandler(), transmit: slots are free again from the head up to the    *)
(* tail or to one the DMA still owns.  The mutant frees that one too.      *)
BugReclaims(tx) ==
  LET n == (tx.tail - tx.head + EthTxSize) % EthTxSize IN n
Reclaims(tx) ==
  LET n == (tx.tail - tx.head + EthTxSize) % EthTxSize
      owned == {k \in 0 .. n - 1 : tx.own[(tx.head + k) % EthTxSize]}
  IN IF owned = {} THEN n ELSE CHOOSE k \in owned : \A j \in owned : k <= j
TxHandler ==
  /\ "TI" \in ethsr
  /\ ethsr' = ethsr \ {"TI"}
  /\ LET n == Reclaims(ethtx)
     IN /\ ethtx' = [ethtx EXCEPT !.head = (@ + n) % EthTxSize]
        /\ ethosem' = [count |-> ethosem.count + n,
                       line  |-> SubSeq(ethosem.line, n + 1, Len(ethosem.line)),
                       let   |-> ethosem.let \cup
                                 ToSet(SubSeq(ethosem.line, 1, IF n < Len(ethosem.line) THEN n
                                                               ELSE Len(ethosem.line)))]
  /\ UNCHANGED <<ethreceive, ethmca, ethfull>>

-----------------------------------------------------------------------------
(* The device receives a frame if the next descriptor is its own.  The     *)
(* model follows the ring up to the first time it is full, and no frame    *)
(* further: from then on RxHandler counts frames again that it counted     *)
(* before, and the count has no bound.                                     *)
DmaReceives(f) ==
  /\ ethrx.own[ethrx.dma] /\ "rx" \notin ethfull
  /\ ethrx' = [ethrx EXCEPT !.own[ethrx.dma] = FALSE, !.frame[ethrx.dma] = f,
                            !.dma = (@ + 1) % EthRxSize]
  /\ ethdue' = Append(ethdue, f)
  /\ ethsr' = ethsr \cup {"RI"}
  /\ ethfull' = IF \E i \in RxSlot : ethrx'.own[i] THEN ethfull ELSE ethfull \cup {"rx"}
  /\ UNCHANGED <<ethtransmit, ethisem, ethreader, ethmca>>

(* ethhandler(), receive, while there is no transmit interrupt: descriptors*)
(* from the tail on that the DMA does not own, one more than there are at  *)
(* most.                                                                   *)
RxHandler ==
  /\ "RI" \in ethsr /\ "TI" \notin ethsr
  /\ ethsr' = ethsr \ {"RI"}
  /\ LET owned == {k \in 0 .. EthRxSize : ethrx.own[(ethrx.tail + k) % EthRxSize]}
         n == IF owned = {} THEN EthRxSize + 1 ELSE CHOOSE k \in owned : \A j \in owned : k <= j
     IN /\ ethrx' = [ethrx EXCEPT !.tail = (@ + n) % EthRxSize]
        /\ ethisem' = ethisem + n
        /\ ethreader' = IF ethreader = "blocked" /\ n > 0 THEN "ready" ELSE ethreader
  /\ UNCHANGED <<ethtransmit, ethdue, ethmca, ethfull>>

(* ethread(): frames for others are skipped; each descriptor goes back to  *)
(* the DMA.  The mutant goes on with the frame after the one it skips.     *)
ValidAddr(f) == f \in {"me", "bcast"} \cup ToSet(ethmca)
Skips(accepted) == IF accepted = {} THEN -1 ELSE CHOOSE k \in accepted : \A j \in accepted : k <= j
ethread ==
  /\ ethreader # "blocked"
  /\ LET avail == IF ethreader = "ready" THEN ethisem + 1 ELSE ethisem
         accepted == {k \in 0 .. avail - 1 : ValidAddr(ethrx.frame[(ethrx.head + k) % EthRxSize])}
         k == Skips(accepted)
         n == IF k < 0 THEN avail ELSE k + 1
         passed == {(ethrx.head + i) % EthRxSize : i \in 0 .. n - 1}
     IN /\ ethrx' = [ethrx EXCEPT !.head = (@ + n) % EthRxSize,
                                  !.own = [i \in RxSlot |-> @[i] \/ i \in passed],
                                  !.frame = [i \in RxSlot |-> IF i \in passed THEN "none" ELSE @[i]]]
        /\ ethdue' = SubSeq(ethdue, n + 1, Len(ethdue))
        /\ ethisem' = IF k < 0 THEN -1 ELSE avail - n
        /\ ethreader' = IF k < 0 THEN "blocked" ELSE "idle"
  /\ UNCHANGED <<ethtransmit, ethsr, ethmca, ethfull>>

(* ethmcast_add() and ethmcast_remove().  A removal from a full list       *)
(* shifts in, and overwrites, what lies behind it.                         *)
ethmcast_add(a) ==
  /\ Len(ethmca) < EthMcast
  /\ ethmca' = Append(ethmca, a)
  /\ UNCHANGED <<ethtransmit, ethreceive, ethsr, ethfull>>
ethmcast_remove(a) ==
  /\ Contains(ethmca, a) /\ Len(ethmca) < EthMcast
  /\ ethmca' = RemoveFirst(ethmca, a)
  /\ UNCHANGED <<ethtransmit, ethreceive, ethsr, ethfull>>
(* The control calls that change anything. *)
ethcontrol(a) == ethmcast_add(a) \/ ethmcast_remove(a)

EthNext ==
  \/ \E p \in EthSender : ethwrite(p) \/ SenderGoesOn(p)
  \/ DmaSends \/ TxHandler \/ RxHandler \/ ethread
  \/ \E f \in EthAddr : DmaReceives(f)
  \/ \E a \in EthAddr \ {"me", "bcast"} : ethcontrol(a)

EthSpec == EthInit /\ [][EthNext]_EthVars

-----------------------------------------------------------------------------
(* A sender that is let in finds a descriptor the DMA has done with, and   *)
(* the semaphore counts exactly the descriptors to fill as long as the     *)
(* ring has not been full.  Until the receive ring is full, the frames are *)
(* read in the order they came in, each once, and the semaphore counts     *)
(* those to read (ethwrite.c:28, ethhandler.c:48, ethhandler.c:95).        *)
EthRingsAgree ==
  /\ ethosem.count > 0 \/ ethosem.let # {} => ~ethtx.own[ethtx.tail]
  /\ "tx" \notin ethfull =>
       LET used == (ethtx.tail - ethtx.head + EthTxSize) % EthTxSize
       IN ethosem.count + Cardinality(ethosem.let) + used = EthTxSize
  /\ "rx" \notin ethfull =>
       LET read == IF ethreader = "ready" THEN ethisem + 1 ELSE IF ethisem < 0 THEN 0 ELSE ethisem
       IN /\ read <= Len(ethdue)
          /\ \A i \in 1 .. Len(ethdue) : ethrx.frame[(ethrx.head + i - 1) % EthRxSize] = ethdue[i]
          /\ "RI" \notin ethsr => read = Len(ethdue)

=============================================================================
