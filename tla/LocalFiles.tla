----------------------------- MODULE LocalFiles -----------------------------
(***************************************************************************)
(* The local file system on the RAM disk: lfsopen(), lflgetc(), lflputc(), *)
(* lflseek(), lflcontrol(), lflclose() over lfsetup(), lfflush(), the two  *)
(* allocators, lftruncate() and the disk that lfscreate() formats.         *)
(*                                                                         *)
(* A sector is the directory, an array of index blocks, a data block or a  *)
(* free data block.  An operation holds the mutex of its file from start   *)
(* to end.  What it does under lf_mutex, the mutex of the directory, is    *)
(* one step; what lflputc() and lflclose() do to the directory and to      *)
(* sectors shared by files without lf_mutex goes statement by statement,   *)
(* with the calls for other files in between.                              *)
(***************************************************************************)
EXTENDS Integers, SequencesExt, FiniteSets

CONSTANTS LfName,          \* names of files
          LfMayWrite,      \* bound: the bytes that may come next in a file, position by position
          LF_BLKSIZ,       \* bytes of a data block
          LF_IBLEN,        \* data blocks of an index block
          LfPerSector,     \* index blocks of a sector
          LfIblks,         \* index blocks asked of lfscreate()
          LfSectors,       \* sectors of the disk
          Nlfl,            \* files open at a time
          LF_NUM_DIR_ENT,  \* files of the directory
          LfTwice,         \* bound: whether programs open a file that is open
          LfMaxTrunc       \* bound: truncations of a file that is not empty

VARIABLES lfdisk,     \* Ram.disk, by sectors
          lfdir,      \* lf_dir, the directory in memory
          lfpresent,  \* lf_dirpresent
          lfdirty,    \* lf_dirdirty
          lftab,      \* lfltab: the control blocks
          lfpc,       \* where a call without lf_mutex stands in each file
          lfclobber,  \* history: lflclose() has overwritten a change of another file
          lftext,     \* history: what has been written to each file
          lftruncs,   \* how many files have been truncated
          lfpanic     \* panic() has stopped the system

LfVars == <<lfdisk, lfdir, lfpresent, lfdirty, lftab, lfpc, lfclobber, lftext, lftruncs,
            lfpanic>>

LF_INULL == -1
LF_DNULL == -1
LF_IDATA == LF_IBLEN * LF_BLKSIZ
Filled == [i \in 0 .. LF_BLKSIZ - 1 |-> "+"]

-----------------------------------------------------------------------------
(* Disk and index blocks. *)
RamRead(disk, blk) == disk[blk]
RamWrite(disk, blk, x) == [disk EXCEPT ![blk] = x]
ib2sect(ib) == ib \div LfPerSector + 1
ib2disp(ib) == ib % LfPerSector
lfibget(disk, ib) == RamRead(disk, ib2sect(ib))[ib2disp(ib)]
lfibput(disk, ib, x) ==
  RamWrite(disk, ib2sect(ib), [RamRead(disk, ib2sect(ib)) EXCEPT ![ib2disp(ib)] = x])
lfibclear(offset) ==
  [next |-> LF_INULL, offset |-> offset, dba |-> [i \in 0 .. LF_IBLEN - 1 |-> LF_DNULL]]

(* lfscreate(): whole sectors of index blocks, then the data blocks, each  *)
(* kind on its free list.                                                  *)
IbSectors == (LfIblks + LfPerSector - 1) \div LfPerSector
lfscreate ==
  [s \in 0 .. LfSectors - 1 |->
     CASE s = 0 -> [dfree |-> IbSectors + 1, ifree |-> 0, files |-> <<>>]
       [] s \in 1 .. IbSectors ->
            [k \in 0 .. LfPerSector - 1 |->
               LET i == (s - 1) * LfPerSector + k
               IN [lfibclear(0) EXCEPT !.next =
                     IF i = IbSectors * LfPerSector - 1 THEN LF_INULL ELSE i + 1]]
       [] OTHER -> [nextdb |-> IF s = LfSectors - 1 THEN LF_DNULL ELSE s + 1]]

(* lflinit() and lfsopen() *)
LfClosed == [open |-> FALSE, entry |-> 0, pos |-> 0, inum |-> LF_INULL,
             iblk |-> lfibclear(0), dnum |-> LF_DNULL, dblk |-> Filled, byte |-> LF_BLKSIZ,
             ibdirty |-> FALSE, dbdirty |-> FALSE]

LfAt(at) == [at |-> at, ch |-> 0, sect |-> <<>>]
LfInit ==
  /\ lfdisk = lfscreate
  /\ lfdir = [dfree |-> 0, ifree |-> 0, files |-> <<>>]
  /\ lfpresent = FALSE /\ lfdirty = FALSE
  /\ lftab = [d \in 0 .. Nlfl - 1 |-> LfClosed]
  /\ lfpc = [d \in 0 .. Nlfl - 1 |-> LfAt("idle")]
  /\ lfclobber = FALSE
  /\ lftext = [n \in LfName |-> <<>>]
  /\ lftruncs = 0
  /\ lfpanic = FALSE

-----------------------------------------------------------------------------
(* The functions under an operation on device d work on the record of the  *)
(* disk, the directory, its dirty flag, the control block and panic().     *)
Lf(d) == [disk |-> lfdisk, dir |-> lfdir, dirty |-> lfdirty, f |-> lftab[d], panic |-> FALSE]
Becomes(d, S) ==
  /\ lfdisk' = S.disk /\ lfdir' = S.dir /\ lfdirty' = S.dirty /\ lfpanic' = S.panic
  /\ lftab' = [lftab EXCEPT ![d] = S.f]
Then(S, Op(_)) == IF S.panic THEN S ELSE Op(S)

DirToDisk(S) == [S EXCEPT !.disk = RamWrite(S.disk, 0, S.dir), !.dirty = FALSE]

(* The index block is taken for written although it is not. *)
BugFlush(S) ==
  [S EXCEPT !.disk = IF S.f.dbdirty THEN RamWrite(@, S.f.dnum, [bytes |-> S.f.dblk]) ELSE @,
            !.dirty = FALSE, !.f.dbdirty = FALSE, !.f.ibdirty = FALSE]
lfflush(S) ==
  LET D == IF S.dirty THEN DirToDisk(S) ELSE S
      B == IF S.f.dbdirty THEN RamWrite(D.disk, S.f.dnum, [bytes |-> S.f.dblk]) ELSE D.disk
  IN [D EXCEPT !.disk = IF S.f.ibdirty THEN lfibput(B, S.f.inum, S.f.iblk) ELSE B,
               !.f.dbdirty = FALSE, !.f.ibdirty = FALSE]

(* The first index block, data block of the free list. *)
lfiballoc(S) ==
  IF S.dir.ifree = LF_INULL THEN [S EXCEPT !.panic = TRUE]
  ELSE DirToDisk([S EXCEPT !.dir.ifree = lfibget(S.disk, S.dir.ifree).next])
lfdballoc(S) ==
  IF S.dir.dfree = LF_DNULL THEN [S EXCEPT !.panic = TRUE]
  ELSE [DirToDisk([S EXCEPT !.dir.dfree = RamRead(S.disk, S.dir.dfree).nextdb])
          EXCEPT !.f.dblk = Filled]
lfdbfree(S, dnum) ==
  LET D == [S EXCEPT !.disk = RamWrite(S.disk, dnum, [nextdb |-> S.dir.dfree]),
                     !.dir.dfree = dnum]
  IN [D EXCEPT !.disk = RamWrite(D.disk, 0, D.dir)]

(* lfsetup(): the index block the search starts from ... *)
StartIndex(S) ==
  LET first == S.dir.files[S.f.entry].ilist
      new   == S.dir.ifree
  IN CASE S.f.inum = LF_INULL /\ first = LF_INULL ->
            Then(lfiballoc(S),
                 LAMBDA A : [A EXCEPT !.dir.files[A.f.entry].ilist = new, !.f.inum = new,
                                      !.f.iblk = lfibclear(0), !.f.ibdirty = TRUE])
       [] first # LF_INULL /\ (S.f.inum = LF_INULL \/ S.f.pos < S.f.iblk.offset) ->
            [S EXCEPT !.f.inum = first, !.f.iblk = lfibget(S.disk, first)]
       [] OTHER -> S

(* ... one turn of the loop to the index block of the position ... *)
NextIndex(S) ==
  LET ib  == S.f.iblk
      new == S.dir.ifree
  IN IF ib.next = LF_INULL
     THEN Then(lfiballoc(S),
               LAMBDA A : [A EXCEPT !.disk = lfibput(A.disk, A.f.inum, [ib EXCEPT !.next = new]),
                                    !.f.inum = new, !.f.dnum = LF_DNULL, !.f.ibdirty = TRUE,
                                    !.f.iblk = lfibclear(ib.offset + LF_IDATA)])
     ELSE [S EXCEPT !.f.inum = ib.next, !.f.iblk = lfibget(S.disk, ib.next),
                    !.f.dnum = LF_DNULL]
FindIndex(S) ==
  LET at[i \in 0 .. LfIblks] ==
        IF i = 0 THEN S
        ELSE LET A == at[i - 1]
             IN IF A.panic \/ A.f.pos < A.f.iblk.offset + LF_IDATA THEN A ELSE NextIndex(A)
  IN at[LfIblks]

(* ... and the data block.  The mutant takes the one in memory for it. *)
BugLoadBlock(S) ==
  IF S.f.dnum = LF_DNULL THEN Then(S, LAMBDA A : lfdballoc(A))
  ELSE [S EXCEPT !.f.byte = S.f.pos % LF_BLKSIZ]
LoadBlock(S) ==
  LET i    == (S.f.pos % LF_IDATA) \div LF_BLKSIZ
      dnum == S.f.iblk.dba[i]
      new  == S.dir.dfree
      B == CASE dnum = LF_DNULL ->
                  Then(lfdballoc(S), LAMBDA A : [A EXCEPT !.f.iblk.dba[i] = new,
                                                          !.f.ibdirty = TRUE, !.f.dnum = new])
             [] dnum # LF_DNULL /\ dnum # S.f.dnum ->
                  [S EXCEPT !.f.dblk = RamRead(S.disk, dnum).bytes, !.f.dbdirty = FALSE,
                            !.f.dnum = dnum]
             [] OTHER -> S
  IN [B EXCEPT !.f.byte = S.f.pos % LF_BLKSIZ]

lfsetup(S) ==
  LET F == IF S.f.ibdirty \/ S.f.dbdirty THEN lfflush(S) ELSE S
  IN Then(Then(StartIndex(F), LAMBDA A : FindIndex(A)), LAMBDA A : LoadBlock(A))
AtByte(S) == IF S.f.byte >= LF_BLKSIZ THEN lfsetup(S) ELSE S

(* lftruncate(): every data block is freed, and the index blocks, cleared, *)
(* go in front of the free list as one chain.                              *)
Cleared(ib, ifree) ==
  [lfibclear(0) EXCEPT !.next = IF ib.next = LF_INULL THEN ifree ELSE ib.next]
lftruncate(S0) ==
  LET S     == IF S0.f.ibdirty \/ S0.f.dbdirty THEN lfflush(S0) ELSE S0
      e     == S.f.entry
      first == S.dir.files[e].ilist
      ifree == S.dir.ifree
      E == [S EXCEPT !.f.pos = 0, !.f.inum = LF_INULL, !.f.dnum = LF_DNULL,
                     !.f.byte = LF_BLKSIZ, !.dirty = TRUE,
                     !.dir.files[e] = [@ EXCEPT !.ilist = LF_INULL, !.size = 0]]
      Free(W, ib) == FoldLeft(LAMBDA X, i : IF ib.dba[i] = LF_DNULL THEN X
                                            ELSE lfdbfree(X, ib.dba[i]),
                              W, [i \in 1 .. LF_IBLEN |-> i - 1])
      walk[i \in 0 .. LfIblks] ==
        IF i = 0 THEN [S |-> E, ib |-> first]
        ELSE LET W == walk[i - 1]
                 b == lfibget(W.S.disk, W.ib)
                 c == Cleared(b, ifree)
                 X == Free(W.S, b)
             IN IF W.ib = ifree THEN W
                ELSE [S |-> [X EXCEPT !.disk = lfibput(X.disk, W.ib, c)], ib |-> c.next]
  IN [walk[LfIblks].S EXCEPT !.dir.ifree = first]

-----------------------------------------------------------------------------
(* The mode characters as a set of bits: each at most once, "o" or "n", no *)
(* other; without "r" and "w" both.  No bit stands for SYSERR.             *)
lfgetmode(mode) ==
  LET bits == ToSet(mode)
  IN IF ~IsInjective(mode) \/ ~(bits \subseteq {"r", "w", "o", "n"}) \/ {"o", "n"} \subseteq bits THEN {}
     ELSE IF bits \cap {"r", "w"} = {} THEN bits \cup {"r", "w"} ELSE bits

(* lfsopen(): the lowest free device; the directory is fetched once; a new *)
(* file gets the next entry of it, in memory only.  The name kept for the  *)
(* test that a file is not open already is always empty, for the pointer   *)
(* that copies it stays on its first character: the test finds nothing.    *)
LfFree == {d \in 0 .. Nlfl - 1 : ~lftab[d].open}
LfOpen(n, mode) ==
  LET dir   == IF lfpresent THEN lfdir ELSE RamRead(lfdisk, 0)
      found == SelectInSeq(dir.files, LAMBDA e : e.name = n)
      last  == Len(dir.files)
      d     == CHOOSE x \in LfFree : \A y \in LfFree : x <= y
      fails == IF found = 0 THEN "o" \in lfgetmode(mode) \/ last >= LF_NUM_DIR_ENT
               ELSE "n" \in lfgetmode(mode)
  IN /\ ~lfpanic /\ LfFree # {} /\ lfgetmode(mode) # {}
     /\ LfTwice \/ \A x \in 0 .. Nlfl - 1 : lftab[x].open => lftab[x].entry # found
     /\ lfpresent' = TRUE
     /\ lfdir' = IF found > 0 \/ fails THEN dir
                 ELSE [dir EXCEPT !.files = Append(@, [size |-> 0, ilist |-> LF_INULL, name |-> n])]
     /\ lftab' = IF fails THEN lftab
                 ELSE [lftab EXCEPT ![d] = [LfClosed EXCEPT !.open = TRUE,
                         !.entry = IF found > 0 THEN found ELSE last + 1]]
     /\ UNCHANGED <<lfdisk, lfdirty, lfpc, lfclobber, lftext, lftruncs, lfpanic>>

LfEntry(d) == lfdir.files[lftab[d].entry]
LfReady(d) == ~lfpanic /\ lftab[d].open /\ lfpc[d].at = "idle"
LfNextBytes(d) ==
  IF ~lftab[d].open THEN {}
  ELSE LET may == LfMayWrite[LfEntry(d).name]
       IN IF lftab[d].pos < Len(may) THEN may[lftab[d].pos + 1] ELSE {}

lflgetc(d) ==
  /\ LfReady(d) /\ lftab[d].pos < LfEntry(d).size
  /\ LET S == AtByte(Lf(d))
     IN Becomes(d, [S EXCEPT !.f.byte = @ + 1, !.f.pos = @ + 1])
  /\ UNCHANGED <<lfpresent, lfpc, lfclobber, lftext, lftruncs>>

(* The mode of the file is not looked at.  lfsetup() runs under lf_mutex,  *)
(* the rest without it.                                                    *)
lflputc(d, ch) ==
  /\ LfReady(d) /\ lftab[d].pos <= LfEntry(d).size
  /\ LET S == AtByte(Lf(d))
     IN /\ Becomes(d, S)
        /\ lfpc' = [lfpc EXCEPT ![d] = IF S.panic THEN @ ELSE [@ EXCEPT !.at = "byte", !.ch = ch]]
  /\ UNCHANGED <<lfpresent, lfclobber, lftext, lftruncs>>

LfPutByte(d) ==
  LET p == lftab[d].pos
      n == LfEntry(d).name
      ch == lfpc[d].ch
      grows == p >= LfEntry(d).size
  IN /\ ~lfpanic /\ lfpc[d].at = "byte"
     /\ lfdir' = [lfdir EXCEPT !.files[lftab[d].entry].size = IF grows THEN @ + 1 ELSE @]
     /\ lfdirty' = (lfdirty \/ grows)
     /\ lftab' = [lftab EXCEPT ![d] = [@ EXCEPT !.dblk[@.byte] = ch, !.byte = @ + 1,
                                                !.pos = @ + 1, !.dbdirty = TRUE]]
     /\ lftext' = [lftext EXCEPT ![n] = IF grows THEN Append(@, ch) ELSE [@ EXCEPT ![p + 1] = ch]]
     /\ lfpc' = [lfpc EXCEPT ![d] = LfAt("idle")]
     /\ UNCHANGED <<lfdisk, lfpresent, lfclobber, lftruncs, lfpanic>>

lflseek(d, offset) ==
  /\ LfReady(d) /\ offset <= LfEntry(d).size
  /\ lftab' = [lftab EXCEPT ![d].pos = offset, ![d].byte = LF_BLKSIZ]
  /\ UNCHANGED <<lfdisk, lfdir, lfpresent, lfdirty, lfpc, lfclobber, lftext, lftruncs, lfpanic>>

lflcontrol(d) ==
  /\ LfReady(d) /\ LfEntry(d).size > 0 /\ lftruncs < LfMaxTrunc
  /\ lftruncs' = lftruncs + 1
  /\ Becomes(d, lftruncate(Lf(d)))
  /\ lftext' = [lftext EXCEPT ![LfEntry(d).name] = <<>>]
  /\ UNCHANGED <<lfpresent, lfpc, lfclobber>>

(* lflclose() and the lfflush() it calls, without lf_mutex: the directory  *)
(* is written and then marked clean, the data block is written, and the    *)
(* sector of the index block is read, changed and written back.  lfsopen() *)
(* sets anew all that a closed device keeps.                               *)
LfCloses(d) ==
  /\ lftab' = [lftab EXCEPT ![d] = LfClosed]
  /\ lfpc' = [lfpc EXCEPT ![d] = LfAt("idle")]
lflclose(d) ==
  /\ LfReady(d)
  /\ lfdisk' = IF lfdirty THEN RamWrite(lfdisk, 0, lfdir) ELSE lfdisk
  /\ lfpc' = [lfpc EXCEPT ![d] = LfAt(IF lfdirty THEN "clean" ELSE "blocks")]
  /\ UNCHANGED <<lfdir, lfpresent, lfdirty, lftab, lfclobber, lftext, lftruncs, lfpanic>>
LfMarksClean(d) ==
  /\ ~lfpanic /\ lfpc[d].at = "clean"
  /\ lfdirty' = FALSE
  /\ lfclobber' = (lfclobber \/ RamRead(lfdisk, 0) # lfdir)
  /\ lfpc' = [lfpc EXCEPT ![d] = LfAt("blocks")]
  /\ UNCHANGED <<lfdisk, lfdir, lfpresent, lftab, lftext, lftruncs, lfpanic>>
LfFlushesBlocks(d) ==
  LET f == lftab[d]
      B == IF f.dbdirty THEN RamWrite(lfdisk, f.dnum, [bytes |-> f.dblk]) ELSE lfdisk
  IN /\ ~lfpanic /\ lfpc[d].at = "blocks"
     /\ lfdisk' = B
     /\ IF f.ibdirty
        THEN /\ lfpc' = [lfpc EXCEPT ![d] = [@ EXCEPT !.at = "index",
                                                     !.sect = RamRead(B, ib2sect(f.inum))]]
             /\ lftab' = [lftab EXCEPT ![d].dbdirty = FALSE]
        ELSE LfCloses(d)
     /\ UNCHANGED <<lfdir, lfpresent, lfdirty, lfclobber, lftext, lftruncs, lfpanic>>
LfPutsIndex(d) ==
  LET f == lftab[d]
      s == ib2sect(f.inum)
  IN /\ ~lfpanic /\ lfpc[d].at = "index"
     /\ lfdisk' = RamWrite(lfdisk, s, [lfpc[d].sect EXCEPT ![ib2disp(f.inum)] = f.iblk])
     /\ lfclobber' = (lfclobber \/ RamRead(lfdisk, s) # lfpc[d].sect)
     /\ LfCloses(d)
     /\ UNCHANGED <<lfdir, lfpresent, lfdirty, lftext, lftruncs, lfpanic>>

(* Once a change is lost, blocks may be used twice: that is not followed.  *)
LfNext ==
  /\ ~lfclobber
  /\ \/ \E n \in LfName, mode \in {<<"o">>, <<"n", "w">>, <<"r", "w">>, <<"o", "n">>} : LfOpen(n, mode)
     \/ \E d \in 0 .. Nlfl - 1 :
          \/ lflgetc(d) \/ lflcontrol(d) \/ LfPutByte(d)
          \/ lflclose(d) \/ LfMarksClean(d) \/ LfFlushesBlocks(d) \/ LfPutsIndex(d)
          \/ \E ch \in LfNextBytes(d) : lflputc(d, ch)
          \/ \E offset \in 0 .. LfSectors * LF_BLKSIZ : lflseek(d, offset)

LfSpec == LfInit /\ [][LfNext]_LfVars

-----------------------------------------------------------------------------
(* The blocks of a chain that starts at block first and goes on by next. *)
LfChain(first, next(_)) ==
  LET at[i \in 0 .. LfSectors] ==
        IF i = 0 THEN first ELSE LET b == at[i - 1] IN IF b = -1 THEN -1 ELSE next(b)
  IN SelectSeq([i \in 1 .. LfSectors + 1 |-> at[i - 1]], LAMBDA x : x # -1)

(* An index block as the system sees it: in a control block or on the disk.*)
OpenOn(e) == {d \in 0 .. Nlfl - 1 : lftab[d].open /\ lftab[d].entry = e}
LfIndex(e, ib) ==
  LET held == {d \in OpenOn(e) : lftab[d].inum = ib}
  IN IF held = {} THEN lfibget(lfdisk, ib) ELSE lftab[CHOOSE d \in held : TRUE].iblk
LfBlock(e, dnum) ==
  LET held == {d \in OpenOn(e) : lftab[d].dnum = dnum}
  IN IF held = {} THEN RamRead(lfdisk, dnum).bytes ELSE lftab[CHOOSE d \in held : TRUE].dblk
LfIndexes(e) == LfChain(lfdir.files[e].ilist, LAMBDA ib : LfIndex(e, ib).next)
LfDataOf(e) ==
  LET chain == LfIndexes(e)
      blocks(ib) == [i \in 1 .. LF_IBLEN |-> LfIndex(e, ib).dba[i - 1]]
  IN SelectSeq(FlattenSeq([k \in 1 .. Len(chain) |-> blocks(chain[k])]),
               LAMBDA b : b # LF_DNULL)
LfByteAt(index(_), block(_), chain, p) ==
  LET dnum == index(chain[p \div LF_IDATA + 1]).dba[(p % LF_IDATA) \div LF_BLKSIZ]
  IN IF dnum = LF_DNULL THEN -1 ELSE block(dnum)[p % LF_BLKSIZ]

(* lfsckfmt(): the free lists, followed on the disk. *)
LfFreeIndexes(dir) == LfChain(dir.ifree, LAMBDA ib : lfibget(lfdisk, ib).next)
LfFreeBlocks(dir)  == LfChain(dir.dfree, LAMBDA b : RamRead(lfdisk, b).nextdb)

(* A file reads back as what was written to it, wherever its bytes are:    *)
(* in a control block or on the disk, across seeks, growth into another    *)
(* index block, truncation and reopening (lfsetup.c, lflputc.c, lflgetc.c).*)
LfContents ==
  lfpresent /\ ~lfpanic =>
    \A e \in 1 .. Len(lfdir.files) :
      LET t     == lftext[lfdir.files[e].name]
          chain == LfIndexes(e)
      IN /\ lfdir.files[e].size = Len(t)
         /\ \A p \in 0 .. Len(t) - 1 :
              LfByteAt(LAMBDA ib : LfIndex(e, ib), LAMBDA b : LfBlock(e, b), chain, p)
                = t[p + 1]
         /\ \A d \in OpenOn(e) : lftab[d].byte < LF_BLKSIZ /\ lftab[d].pos < Len(t)
              => lftab[d].dblk[lftab[d].byte] = t[lftab[d].pos + 1]

(* Every index block and every data block is on its free list or part of   *)
(* one file, once (lfiballoc.c, lfdballoc.c, lfdbfree.c, lftruncate.c).    *)
LfBlocksAccounted ==
  lfpresent /\ ~lfpanic =>
    LET n  == Len(lfdir.files)
        is == LfFreeIndexes(lfdir) \o FlattenSeq([e \in 1 .. n |-> LfIndexes(e)])
        ds == LfFreeBlocks(lfdir) \o FlattenSeq([e \in 1 .. n |-> LfDataOf(e)])
    IN /\ IsInjective(is) /\ ToSet(is) = 0 .. IbSectors * LfPerSector - 1
       /\ IsInjective(ds) /\ ToSet(ds) = IbSectors + 1 .. LfSectors - 1

(* A file that is closed and not empty is whole on the disk: the directory *)
(* there has its entry, and its index blocks lead to its bytes             *)
(* (lflclose.c:28, lfflush.c).                                             *)
LfClosedMeansStored ==
  lfpresent /\ ~lfpanic =>
    \A e \in 1 .. Len(lfdir.files) :
      LET t == lftext[lfdir.files[e].name]
          D == RamRead(lfdisk, 0)
      IN OpenOn(e) = {} /\ t # <<>> =>
           /\ e <= Len(D.files) /\ D.files[e] = lfdir.files[e]
           /\ LET chain == LfChain(D.files[e].ilist, LAMBDA ib : lfibget(lfdisk, ib).next)
              IN \A p \in 0 .. Len(t) - 1 :
                   LfByteAt(LAMBDA ib : lfibget(lfdisk, ib),
                            LAMBDA b : RamRead(lfdisk, b).bytes, chain, p) = t[p + 1]

(* The mutexes of the files are enough for all three, except for two       *)
(* changes of another file that lflclose() overwrites because it works     *)
(* without lf_mutex: a change of the directory made after it has written   *)
(* the directory, which it then marks clean (lfflush.c:24), and an index   *)
(* block put into the sector after it has read it (lfibput.c:41).          *)
LfFilesKept == lfclobber \/ (LfContents /\ LfBlocksAccounted /\ LfClosedMeansStored)
=============================================================================
