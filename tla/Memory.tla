------------------------------- MODULE Memory -------------------------------
(***************************************************************************)
(* The heap: getmem(), getstk() and freemem() with its free list, and the  *)
(* list meminit() builds from the memory map.                              *)
(*                                                                         *)
(* Addresses and lengths count units of 8 bytes, the size of a struct      *)
(* memblk.  The free list is linked in the order of addresses, so a set of *)
(* blocks stands for it: the next block of a walk is the one with the      *)
(* least address ahead.  Every function runs with interrupts disabled.     *)
(***************************************************************************)
EXTENDS Integers, FiniteSets

CONSTANTS MemMap,      \* the usable regions of the memory map: blocks [addr, len]
          MemWord,     \* sizes in bytes wrap: 2^32
          MemRequest   \* sizes in bytes a caller asks for or gives back

MemBlk == [addr : Nat, len : Nat \ {0}]
Extent(b) == b.addr .. b.addr + b.len - 1
MemCells == UNION {Extent(r) : r \in MemMap}
Apart(a, b) == a.addr + a.len < b.addr \/ b.addr + b.len < a.addr

(* The regions of the memory map do not touch, and no size is so large     *)
(* that rounding it up wraps to 0 (getmem.c:22).                           *)
ASSUME MemAssumption ==
  /\ MemMap \subseteq MemBlk
  /\ IsFiniteSet(MemCells)
  /\ \A r, s \in MemMap : r # s => Apart(r, s)
  /\ MemWord \in Nat /\ MemRequest \subseteq 1 .. MemWord - 8

VARIABLES memlist,   \* the free list
          memleft,   \* memlist.mlength, which meminit() leaves at 0
          memused    \* history: the cells handed out

MemVars == <<memlist, memleft, memused>>

MemInit == memlist = MemMap /\ memleft = 0 /\ memused = {}

roundmb(n) == (IF n + 7 < MemWord THEN n + 7 ELSE n + 7 - MemWord) \div 8

-----------------------------------------------------------------------------
(* getmem() takes the low end of the first block that is large enough.     *)
getmem(n, b) ==
  LET size == roundmb(n)
      got  == [addr |-> b.addr, len |-> size]
      rest == IF b.len = size THEN {} ELSE {[addr |-> b.addr + size, len |-> b.len - size]}
  IN /\ b.len >= size
     /\ \A c \in memlist : c.len >= size => b.addr <= c.addr
     /\ memlist' = (memlist \ {b}) \cup rest
     /\ memleft' = memleft - size
     /\ memused' = memused \cup Extent(got)

(* getstk() takes the high end of the last one. *)
getstk(n, b) ==
  LET size == roundmb(n)
      got  == [addr |-> b.addr + b.len - size, len |-> size]
      rest == IF b.len = size THEN {} ELSE {[addr |-> b.addr, len |-> b.len - size]}
  IN /\ b.len >= size
     /\ \A c \in memlist : c.len >= size => c.addr <= b.addr
     /\ memlist' = (memlist \ {b}) \cup rest
     /\ memleft' = memleft - size
     /\ memused' = memused \cup Extent(got)

(* freemem(), and freestk() that calls it: the block must not overlap the  *)
(* free blocks before and behind it, and is joined with either one it      *)
(* touches.  The mutant looks only at what lies behind.                    *)
Before(a) == {p \in memlist : p.addr < a /\ \A q \in memlist : q.addr < a => q.addr <= p.addr}
Behind(a) == {p \in memlist : p.addr >= a}
BugOverlaps(block) == \E p \in Behind(block.addr) : block.addr + block.len > p.addr
Overlaps(block) ==
  \/ \E p \in Before(block.addr) : block.addr < p.addr + p.len
  \/ \E p \in Behind(block.addr) : block.addr + block.len > p.addr

freemem(a, n) ==
  LET block == [addr |-> a, len |-> roundmb(n)]
      low   == {p \in Before(a) : p.addr + p.len = a}
      high  == {p \in Behind(a) : p.addr = a + block.len}
      start == IF low = {} THEN a ELSE (CHOOSE p \in low : TRUE).addr
      end   == IF high = {} THEN a + block.len
               ELSE LET p == CHOOSE p \in high : TRUE IN p.addr + p.len
  IN /\ \E r \in MemMap : Extent(block) \subseteq Extent(r)
     /\ ~Overlaps(block)
     /\ memlist' = (memlist \ (low \cup high)) \cup {[addr |-> start, len |-> end - start]}
     /\ memleft' = memleft + block.len
     /\ memused' = memused \ Extent(block)

MemNext ==
  \E n \in MemRequest :
    \/ \E b \in memlist : getmem(n, b) \/ getstk(n, b)
    \/ \E a \in MemCells : freemem(a, n)

MemSpec == MemInit /\ [][MemNext]_MemVars

-----------------------------------------------------------------------------
(* Whatever is given back, and in whatever order, the free blocks do not   *)
(* overlap, those that touch have been joined, and they hold exactly the   *)
(* cells that are not handed out; the length of the list agrees            *)
(* (getmem.c:28, freemem.c:43, freemem.c:53).                              *)
MemListExact ==
  /\ \A b, c \in memlist : b # c => Apart(b, c)
  /\ UNION {Extent(b) : b \in memlist} = MemCells \ memused
  /\ memleft = -Cardinality(memused)
=============================================================================
