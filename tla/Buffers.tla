------------------------------ MODULE Buffers ------------------------------
(* Buffer pools (system/mkbufpool.c, getbuf.c, freebuf.c): a free list and *)
(* a semaphore that counts it.  A process that was let through the         *)
(* semaphore takes its buffer off the list only when it runs again.        *)
EXTENDS Integers, Sequences, FiniteSets, Queues

CONSTANTS
  BpProc,          \* processes
  NBPOOLS,         \* the size of buftab
  BpSizes          \* the numbers of buffers that are asked for
ASSUME BuffersAssumption == /\ NBPOOLS \in Nat /\ BpSizes \subseteq Nat \ {0}
                            /\ IsFiniteSet(BpProc)

BpId == 0..(NBPOOLS - 1)

VARIABLES
  nbpools,         \* pools made so far
  bpnext,          \* of each pool, the free buffers in the order of their links
  bpsem,           \* of each pool, the count and the queue of its semaphore
  bpsize,          \* of each pool, how many buffers its memory has room for
  bpheader,        \* the pool id in the first word of each buffer that was taken
  bpstate,         \* of each process: "runs", "waits", "passed" or "killed", and for which pool
  bpheld           \* of each process, the buffers getbuf() gave it
BpVars == <<nbpools, bpnext, bpsem, bpsize, bpheader, bpstate, bpheld>>

BpRuns == [in |-> "runs", pool |-> -1]
BpInit ==
  /\ nbpools = 0
  /\ bpnext = [i \in BpId |-> <<>>] /\ bpsem = [i \in BpId |-> [count |-> 0, queue |-> <<>>]]
  /\ bpsize = [i \in BpId |-> 0] /\ bpheader = [b \in {} |-> 0]
  /\ bpstate = [p \in BpProc |-> BpRuns] /\ bpheld = [p \in BpProc |-> {}]

(* As the code would be if the loop did not leave the last buffer out.     *)
BugBpLinked(i, n) == [k \in 1..(n + 1) |-> <<i, k>>]
BpLinked(i, n) == [k \in 1..n |-> <<i, k>>]
(* getmem() and semcreate() may fail; then nothing is left of the pool.    *)
mkbufpool(n) ==
  /\ nbpools < NBPOOLS /\ nbpools' = nbpools + 1
  /\ bpnext' = [bpnext EXCEPT ![nbpools] = BpLinked(nbpools, n)]
  /\ bpsem' = [bpsem EXCEPT ![nbpools].count = n]
  /\ bpsize' = [bpsize EXCEPT ![nbpools] = n]
  /\ UNCHANGED <<bpheader, bpstate, bpheld>>

(* The rest of getbuf(), after wait(): unlinks the first buffer and writes *)
(* the pool's id into it.                                                  *)
Unlinks(p, i) ==
  /\ bpnext' = [bpnext EXCEPT ![i] = SubSeq(@, 2, Len(@))]
  /\ LET b == bpnext[i][1]
     IN /\ bpheld' = [bpheld EXCEPT ![p] = @ \cup {b}]
        /\ bpheader' = [c \in DOMAIN bpheader \cup {b} |-> IF c = b THEN i ELSE bpheader[c]]
getbuf(p, i) ==
  /\ bpstate[p] = BpRuns /\ i < nbpools
  /\ bpsem' = [bpsem EXCEPT ![i].count = @ - 1,
                            ![i].queue = IF bpsem[i].count > 0 THEN @ ELSE Append(@, p)]
  /\ IF bpsem[i].count > 0
     THEN Unlinks(p, i) /\ UNCHANGED bpstate
     ELSE bpstate' = [bpstate EXCEPT ![p] = [in |-> "waits", pool |-> i]] /\ UNCHANGED <<bpnext, bpheld, bpheader>>
  /\ UNCHANGED <<nbpools, bpsize>>
GetbufResumes(p) ==
  /\ bpstate[p].in = "passed" /\ Unlinks(p, bpstate[p].pool)
  /\ bpstate' = [bpstate EXCEPT ![p] = BpRuns] /\ UNCHANGED <<nbpools, bpsem, bpsize>>

(* The pool is the one whose id stands before the buffer.                  *)
freebuf(p, b) ==
  LET i == bpheader[b]
      woken == IF bpsem[i].count < 0 THEN {bpsem[i].queue[1]} ELSE {}
  IN /\ bpstate[p] = BpRuns /\ b \in bpheld[p]
     /\ bpheld' = [bpheld EXCEPT ![p] = @ \ {b}]
     /\ bpnext' = [bpnext EXCEPT ![i] = <<b>> \o @]
     /\ bpsem' = [bpsem EXCEPT ![i].count = @ + 1, ![i].queue = IF woken = {} THEN @ ELSE Tail(@)]
     /\ bpstate' = [q \in BpProc |-> IF q \in woken THEN [in |-> "passed", pool |-> i] ELSE bpstate[q]]
     /\ UNCHANGED <<nbpools, bpsize, bpheader>>

(* kill(): the buffers of the process are not given back, nor is the place *)
(* on the list of one that has passed the semaphore.                       *)
BpKill(p) ==
  LET i == bpstate[p].pool
  IN /\ bpstate[p].in # "killed" /\ bpstate' = [bpstate EXCEPT ![p] = [in |-> "killed", pool |-> IF @.in = "passed" THEN i ELSE -1]]
     /\ bpsem' = IF bpstate[p].in # "waits" THEN bpsem
                 ELSE [bpsem EXCEPT ![i].count = @ + 1, ![i].queue = Unlink(@, p)]
     /\ UNCHANGED <<nbpools, bpnext, bpsize, bpheader, bpheld>>

BpNext ==
  \/ \E n \in BpSizes : mkbufpool(n)
  \/ \E p \in BpProc :
       \/ BpKill(p) \/ GetbufResumes(p)
       \/ \E i \in BpId : getbuf(p, i)
       \/ \E b \in bpheld[p] : freebuf(p, b)
BpSpec == BpInit /\ [][BpNext]_BpVars

(* Whatever processes wait, are let through, and are killed before they    *)
(* run, the list of a pool has a buffer for each process that has been let *)
(* through besides those the semaphore still counts, and every buffer of   *)
(* the pool, and nothing else, is on the list or with one process.         *)
BuffersAccounted ==
  \A i \in BpId :
    LET passed == {p \in BpProc : bpstate[p].in \in {"passed", "killed"} /\ bpstate[p].pool = i}
        free == ToSet(bpnext[i])
        taken == (UNION {bpheld[p] : p \in BpProc}) \cap ({i} \X Nat)
    IN /\ Len(bpnext[i]) = (IF bpsem[i].count > 0 THEN bpsem[i].count ELSE 0) + Cardinality(passed)
       /\ free \cup taken = {i} \X (1..bpsize[i])
       /\ Len(bpnext[i]) + Cardinality(taken) = bpsize[i]
       /\ \A p, q \in BpProc : p # q => bpheld[p] \cap bpheld[q] = {}
=============================================================================
