------------------------------- MODULE Marks -------------------------------
(* mark() (system/mark.c) and notmarked() (include/mark.h): whether a      *)
(* location is marked is known by its content and the table referring to   *)
(* each other, so that the location needs no initial value.                *)
EXTENDS Integers, FiniteSets

CONSTANTS
  MkProc,          \* processes
  MkLoc,           \* the locations that are marked
  MAXMARK          \* the size of the table

MkNone == "none"
ASSUME MarksAssumption == MAXMARK \in Nat /\ MkNone \notin MkProc \cup MkLoc

VARIABLES
  marks,           \* the table; its last element stands for what lies behind it
  nmarks,
  mkloc,           \* the content of each location
  mkmutex,         \* the process inside, or MkNone
  mkgiven,         \* history: the locations mark() has put into the table
  mkpc             \* of each process, where in mark() it is, of which location, and nmarks as it read it
MkVars == <<marks, nmarks, mkloc, mkmutex, mkgiven, mkpc>>

MkAt(pc, loc, n) == [pc |-> pc, loc |-> loc, n |-> n]
MkInit ==
  /\ marks = [i \in 0..MAXMARK |-> MkNone] /\ nmarks = 0 /\ mkmutex = MkNone /\ mkgiven = {}
  /\ mkloc \in [MkLoc -> -1..1]
  /\ mkpc = [p \in MkProc |-> MkAt("idle", MkNone, 0)]

(* As the code would be if it trusted the content of the location alone.   *)
Bugnotmarked(l) == mkloc[l] \notin 0..(nmarks - 1)
notmarked(l) == mkloc[l] \notin 0..(nmarks - 1) \/ marks[mkloc[l]] # l
MkGoes(p, pc) == mkpc' = [mkpc EXCEPT ![p].pc = pc]

mark(p, l) ==
  /\ mkpc[p].pc \in {"idle", "OK", "SYSERR"} /\ UNCHANGED <<marks, nmarks, mkloc, mkmutex, mkgiven>>
  /\ mkpc' = [mkpc EXCEPT ![p] = MkAt(IF notmarked(l) THEN "limit" ELSE "OK", l, 0)]
MarkLimit(p) ==
  /\ mkpc[p].pc = "limit" /\ MkGoes(p, IF nmarks >= MAXMARK THEN "SYSERR" ELSE "wait")
  /\ UNCHANGED <<marks, nmarks, mkloc, mkmutex, mkgiven>>
(* As the code would be without the semaphore.                             *)
BugMarkWaits(p) ==
  /\ mkpc[p].pc = "wait" /\ mkmutex' = p
  /\ mkpc' = [mkpc EXCEPT ![p].pc = "count", ![p].n = nmarks] /\ UNCHANGED <<marks, nmarks, mkloc, mkgiven>>
(* Nothing is tested again once the mutex is held.  The assignment reads   *)
(* nmarks, writes it and the location, and then the table.                 *)
MarkWaits(p) ==
  /\ mkpc[p].pc = "wait" /\ mkmutex = MkNone /\ mkmutex' = p
  /\ mkpc' = [mkpc EXCEPT ![p].pc = "count", ![p].n = nmarks] /\ UNCHANGED <<marks, nmarks, mkloc, mkgiven>>
MarkCounts(p) ==
  /\ mkpc[p].pc = "count" /\ MkGoes(p, "store")
  /\ nmarks' = mkpc[p].n + 1 /\ mkloc' = [mkloc EXCEPT ![mkpc[p].loc] = mkpc[p].n]
  /\ UNCHANGED <<marks, mkmutex, mkgiven>>
MarkStores(p) ==
  /\ mkpc[p].pc = "store" /\ MkGoes(p, "OK") /\ mkmutex' = MkNone
  /\ marks' = [marks EXCEPT ![IF mkpc[p].n < MAXMARK THEN mkpc[p].n ELSE MAXMARK] = mkpc[p].loc]
  /\ mkgiven' = mkgiven \cup {mkpc[p].loc} /\ UNCHANGED <<nmarks, mkloc>>

(* Behind the table lies other data: the model ends when mark() writes it. *)
MkOverrun == nmarks > MAXMARK
MkNext ==
  /\ ~MkOverrun
  /\ \E p \in MkProc :
       \/ MarkLimit(p) \/ MarkWaits(p) \/ MarkCounts(p) \/ MarkStores(p)
       \/ \E l \in MkLoc : mark(p, l)
MkSpec == MkInit /\ [][MkNext]_MkVars

(* Once mark() has returned OK its location is marked, and it stays so     *)
(* while other locations are marked by other processes, or the same one    *)
(* once more, except in the middle of doing so; and a location that was    *)
(* never given to mark() is never taken for marked, whatever it contains.  *)
MarkedStaysMarked ==
  \A l \in MkLoc :
    LET again == \E p \in MkProc : mkpc[p].pc = "store" /\ mkpc[p].loc = l
    IN /\ (\E p \in MkProc : mkpc[p].pc = "OK" /\ mkpc[p].loc = l) /\ ~MkOverrun /\ ~again => ~notmarked(l)
       /\ ~notmarked(l) => l \in mkgiven
=============================================================================
