-------------------------------- MODULE Tty --------------------------------
(***************************************************************************)
(* The terminal driver: ttyhandler() with ttyhandle_in() for each arriving *)
(* character and ttyhandle_out() for each transmit interrupt, against      *)
(* ttyread(), ttygetc(), ttyputc(), ttywrite() and ttycontrol().           *)
(*                                                                         *)
(* The calls run with interrupts disabled: a process is cut only where it  *)
(* blocks in wait(), and goes on when it runs again; tyruns is the one     *)
(* that has not blocked since.  What is echoed matters only by its length, *)
(* and an input cell that is not in use is "0".                            *)
(***************************************************************************)
EXTENDS Integers, SequencesExt

CONSTANTS TY_IBUFLEN, TY_OBUFLEN, TY_EBUFLEN,
          UART_FIFO_SIZE,
          TtyKey,      \* what is typed: "x" printable, "^" not, or a special key
          TtyWriter,   \* processes that write
          TtyChar,     \* what they write, "nl" among it
          TtyPrompt    \* does a writer that is let through run before the next interrupt?

ASSUME TtyAssumption == /\ {TY_IBUFLEN, TY_OBUFLEN, TY_EBUFLEN, UART_FIFO_SIZE} \subseteq Nat \ {0}
                        /\ UART_FIFO_SIZE <= TY_OBUFLEN
                        /\ TtyPrompt \in BOOLEAN

VARIABLES tymode,    \* tyimode: "R", "K" or "C"
          tyiecho, tyoheld,
          tyin,      \* tyibuff, tyihead, tyitail, tyicursor
          tyisem,    \* count of the input semaphore
          tyreader,  \* the process in ttyread() or ttycontrol()
          tyout,     \* tyobuff, tyohead, tyotail
          tyosem,    \* the output semaphore: count, and who waits
          tywriter,  \* what each writer is about to store
          tyecho,    \* characters from tyehead to tyetail
          tyruns,    \* who is inside the driver with interrupts disabled
          tyier,     \* is the transmit interrupt enabled?
          tykept,    \* history: characters stored and not read yet
          tyunsent,  \* history: characters stored and not sent yet
          tyoverrun  \* history: an unread character was overwritten, or a pointer left the ring

ttyinput  == <<tymode, tyiecho, tyin, tyisem, tyreader, tykept, tyoverrun>>
ttyoutput == <<tyout, tyosem, tywriter, tyunsent>>
TtyVars   == <<ttyinput, ttyoutput, tyoheld, tyecho, tyruns, tyier>>

TtyCell(n) == 0 .. n - 1
Wrap(i, n) == IF i >= n THEN 0 ELSE i
TtyRest == <<>>

TtyInit ==
  /\ tymode = "C" /\ tyiecho = TRUE /\ tyoheld = FALSE
  /\ tyin = [buf |-> [i \in TtyCell(TY_IBUFLEN) |-> "0"], head |-> 0, tail |-> 0, cursor |-> 0]
  /\ tyisem = 0
  /\ tyreader = [pc |-> "idle"]
  /\ tyout = [buf |-> [i \in TtyCell(TY_OBUFLEN) |-> "0"], head |-> 0, tail |-> 0]
  /\ tyosem = [count |-> TY_OBUFLEN, line |-> <<>>]
  /\ tywriter = [w \in TtyWriter |-> TtyRest]
  /\ tyecho = 0 /\ tyier = TRUE /\ tyruns = "none"
  /\ tykept = <<>> /\ tyunsent = <<>> /\ tyoverrun = FALSE

-----------------------------------------------------------------------------
(* eputc(), n times: the echo queue is not tested for room. *)
Echoes(n) == tyecho' = (tyecho + n) % TY_EBUFLEN /\ tyier' = (tyier \/ n > 0)
echoch(ch) == IF ~tyiecho THEN 0 ELSE IF ch \in {"nl", "^", "eof"} THEN 2 ELSE 1
erase1(ch) == IF ~tyiecho THEN 0 ELSE IF ch \in {"^", "eof", "nl"} THEN 6 ELSE 3

(* signaln(tyisem, n): the one reader there is goes on. *)
SignalInput(n) ==
  /\ tyisem' = tyisem + n
  /\ tyreader' = IF tyisem < 0 /\ n > 0 THEN [tyreader EXCEPT !.pc = "ready"] ELSE tyreader
Unsignalled == UNCHANGED <<tyisem, tyreader>>

(* *tyitail++ = ch, with or without the wrap that belongs to it. *)
Stores(ch, tail, cursor) ==
  /\ tyin' = [tyin EXCEPT !.buf[tyin.tail] = ch, !.tail = tail, !.cursor = cursor]
  /\ tykept' = Append(tykept, ch)
  /\ tyoverrun' = (Len(tykept) >= TY_IBUFLEN \/ tail >= TY_IBUFLEN)
Stays == UNCHANGED <<tyin, tykept, tyoverrun>>
Next1 == tyin.tail + 1
Wrapped == Wrap(Next1, TY_IBUFLEN)
Avail == IF tyisem < 0 THEN 0 ELSE tyisem

RawIn(ch) ==
  /\ \/ Avail >= TY_IBUFLEN /\ Stays /\ Unsignalled
     \/ Avail < TY_IBUFLEN /\ Stores(ch, Next1, tyin.cursor) /\ SignalInput(1)
  /\ UNCHANGED <<tyoheld, tyecho, tyier>>

(* ^S and ^Q *)
FlowControl(ch) ==
  /\ ch \in {"stop", "start"}
  /\ tyoheld' = (ch = "stop") /\ tyier' = (tyier \/ ch = "start")
  /\ Stays /\ Unsignalled /\ UNCHANGED tyecho

(* Nobody is signalled. *)
CbreakIn(ch) ==
  /\ \/ Avail >= TY_IBUFLEN /\ Echoes(1) /\ Stays
     \/ Avail < TY_IBUFLEN /\ Echoes(echoch(ch)) /\ Stores(ch, Wrapped, tyin.cursor)
  /\ Unsignalled

(* The whole line goes - but where the line lies across the end of the     *)
(* ring it is the head that is moved.                                      *)
KillLine ==
  LET tail == tyin.tail - tyin.cursor
  IN /\ tyin' = [tyin EXCEPT !.tail = tail, !.cursor = 0,
                             !.head = IF tail < 0 THEN @ + TY_IBUFLEN ELSE @]
     /\ tykept' = SubSeq(tykept, 1, Len(tykept) - tyin.cursor)
     /\ tyoverrun' = (tail < 0)
     /\ Echoes(2) /\ Unsignalled

(* The mutant erases what has been handed over already. *)
BugMayErase == tykept # <<>>
MayErase == tyin.cursor > 0
EraseOne ==
  LET tail == IF tyin.tail - 1 < 0 THEN TY_IBUFLEN - 1 ELSE tyin.tail - 1
  IN /\ IF MayErase
        THEN /\ tyin' = [tyin EXCEPT !.tail = tail, !.cursor = @ - 1, !.buf[tail] = "0"]
             /\ tykept' = SubSeq(tykept, 1, Len(tykept) - 1)
             /\ Echoes(erase1(tyin.buf[tail]))
        ELSE UNCHANGED <<tyin, tykept, tyecho, tyier>>
     /\ Unsignalled /\ UNCHANGED tyoverrun

(* The end of a line is stored without a test for room. *)
EndLine ==
  Echoes(echoch("nl")) /\ Stores("nl", Wrapped, 0) /\ SignalInput(tyin.cursor + 1)

PlainIn(ch) ==
  \/ /\ Avail + tyin.cursor >= TY_IBUFLEN - 1
     /\ Echoes(1) /\ Stays /\ Unsignalled
  \/ /\ Avail + tyin.cursor < TY_IBUFLEN - 1
     /\ Echoes(echoch(ch))
     /\ \/ ch # "eof" /\ Stores(ch, Wrapped, tyin.cursor + 1) /\ Unsignalled
        \/ ch = "eof" /\ tyin.cursor = 0 /\ Stores(ch, Next1, 0) /\ SignalInput(1)
        \/ ch = "eof" /\ tyin.cursor # 0 /\ Stays /\ Unsignalled

CookedIn(ch) ==
  \/ ch = "kill" /\ KillLine
  \/ ch = "bs" /\ EraseOne
  \/ ch \in {"nl", "cr"} /\ EndLine
  \/ ch \in {"x", "^", "eof"} /\ PlainIn(ch)

ttyhandle_in(ch) ==
  /\ ~tyoverrun /\ tyruns = "none"
  /\ \/ tymode = "R" /\ RawIn(ch)
     \/ tymode # "R" /\ FlowControl(ch)
     \/ /\ tymode # "R" /\ ch \notin {"stop", "start"}
        /\ tyoheld' = FALSE
        /\ \/ tymode = "K" /\ CbreakIn(IF ch = "cr" THEN "nl" ELSE ch)
           \/ tymode = "C" /\ CookedIn(ch)
  /\ UNCHANGED <<tymode, tyiecho, ttyoutput, tyruns>>

-----------------------------------------------------------------------------
(* ttyread(), character by character through ttygetc(), and TC_NEXTC. *)
Asks(k) ==
  /\ tyreader' = [k EXCEPT !.pc = IF tyisem <= 0 THEN "blocked" ELSE "ready"]
  /\ tyruns' = IF tyisem <= 0 THEN "none" ELSE "reader"
  /\ tyisem' = tyisem - 1
ReaderEnds == tyreader' = [pc |-> "idle"] /\ tyruns' = "none"
ReaderIdle == tyreader.pc = "idle" /\ tyruns = "none" /\ ~tyoverrun

ttyread(count) ==
  /\ ReaderIdle
  /\ LET n == IF tymode # "C" /\ count = 0 THEN tyisem ELSE count
     IN (tymode = "C" \/ n > 0)
        /\ Asks([pc |-> "ready", for |-> "read", line |-> tymode = "C", left |-> n])
  /\ UNCHANGED <<tymode, tyiecho, tyin, tykept, tyoverrun, ttyoutput, tyoheld, tyecho, tyier>>

(* TC_NEXTC looks at the cell of the tail. *)
NextChar ==
  /\ ReaderIdle /\ Asks([pc |-> "ready", for |-> "nextc", line |-> FALSE, left |-> 1])
  /\ UNCHANGED <<tymode, tyiecho, tyin, tykept, tyoverrun, ttyoutput, tyoheld, tyecho, tyier>>

ReaderTakes ==
  LET k  == tyreader
      ch == tyin.buf[tyin.head]
      eof == tymode = "C" /\ ch = "eof"
      ends == IF k.line THEN ch = "nl" \/ k.left <= 1 \/ eof ELSE k.left = 1
  IN /\ k.pc = "ready" /\ tyruns \in {"none", "reader"} /\ ~tyoverrun
     /\ \/ /\ k.for = "nextc"
           /\ ReaderEnds /\ tyisem' = tyisem + 1
           /\ UNCHANGED <<tyin, tykept>>
        \/ /\ k.for = "read"
           /\ tyin' = [tyin EXCEPT !.head = Wrap(@ + 1, TY_IBUFLEN), !.buf[tyin.head] = "0"]
           /\ tykept' = SubSeq(tykept, 2, Len(tykept))
           /\ IF ends THEN ReaderEnds /\ UNCHANGED tyisem ELSE Asks([k EXCEPT !.left = @ - 1])
     /\ UNCHANGED <<tymode, tyiecho, tyoverrun, ttyoutput, tyoheld, tyecho, tyier>>

(* ttycontrol(): TC_MODER, TC_MODEC, TC_MODEK, TC_ECHO, TC_NOECHO *)
SetMode(mode) ==
  /\ ReaderIdle /\ tymode # mode /\ tymode' = mode
  /\ UNCHANGED <<tyiecho, tyin, tyisem, tyreader, tykept, tyoverrun, ttyoutput, tyoheld, tyecho, tyruns, tyier>>
SetEcho ==
  /\ ReaderIdle /\ tyiecho' = ~tyiecho
  /\ UNCHANGED <<tymode, tyin, tyisem, tyreader, tykept, tyoverrun, ttyoutput, tyoheld, tyecho, tyruns, tyier>>

-----------------------------------------------------------------------------
(* ttyputc(), for each character of ttywrite(); a newline is two.  Each    *)
(* waits for room and is stored; tywriter is what is left to store.        *)
WaitsRoom(w, chars) ==
  /\ tywriter' = [tywriter EXCEPT ![w] = chars]
  /\ IF chars = TtyRest THEN tyruns' = "none" /\ UNCHANGED tyosem
     ELSE /\ tyruns' = IF tyosem.count <= 0 THEN "none" ELSE w
          /\ tyosem' = [count |-> tyosem.count - 1,
                        line |-> IF tyosem.count <= 0 THEN Append(tyosem.line, w)
                                                      ELSE tyosem.line]
ttyputc(w, ch) ==
  /\ tywriter[w] = TtyRest /\ tyruns = "none"
  /\ WaitsRoom(w, IF ch = "nl" THEN <<"cr", "nl">> ELSE <<ch>>)
  /\ UNCHANGED <<ttyinput, tyout, tyunsent, tyoheld, tyecho, tyier>>

LetThrough(w) == tywriter[w] # TtyRest /\ ~Contains(tyosem.line, w)
WriterStores(w) ==
  /\ LetThrough(w) /\ tyruns \in {"none", w}
  /\ tyout' = [tyout EXCEPT !.buf[tyout.tail] = Head(tywriter[w]),
                            !.tail = Wrap(@ + 1, TY_OBUFLEN)]
  /\ tyunsent' = Append(tyunsent, Head(tywriter[w]))
  /\ WaitsRoom(w, Tail(tywriter[w]))
  /\ tyier' = TRUE
  /\ UNCHANGED <<ttyinput, tyoheld, tyecho>>

(* ttyhandle_out(): the echo queue first, then what the semaphore says is  *)
(* waiting, as far as the FIFO has room.  The mutant tests for the end of  *)
(* the ring before it moves on.                                            *)
Least(a, b) == IF a <= b THEN a ELSE b
BugMoved(i, n) == IF i >= TY_OBUFLEN THEN 0 ELSE i + n
Moved(i, n) == (i + n) % TY_OBUFLEN
Waiting == TY_OBUFLEN - tyosem.count
ttyhandle_out ==
  /\ tyier /\ ~tyoheld /\ ~tyoverrun /\ tyruns = "none"
  /\ TtyPrompt => \A w \in TtyWriter : ~LetThrough(w)
  /\ LET e == Least(UART_FIFO_SIZE, tyecho)
         n == Least(UART_FIFO_SIZE - e, Waiting)
     IN \/ /\ tyecho = 0 /\ Waiting <= 0
           /\ tyier' = FALSE
           /\ UNCHANGED <<tyecho, tyout, tyosem, tyunsent>>
        \/ /\ tyecho # 0 \/ Waiting > 0
           /\ tyecho' = tyecho - e
           /\ tyout' = [tyout EXCEPT !.head = Moved(@, n)]
           /\ tyunsent' = SubSeq(tyunsent, n + 1, Len(tyunsent))
           /\ tyosem' = [count |-> tyosem.count + n,
                         line |-> SubSeq(tyosem.line, n + 1, Len(tyosem.line))]
           /\ UNCHANGED tyier
  /\ UNCHANGED <<ttyinput, tywriter, tyoheld, tyruns>>

TtyTypes(keys) == \E ch \in keys : ttyhandle_in(ch)
TtyReads ==
  \/ \E n \in {0, 2} : ttyread(n)
  \/ NextChar \/ ReaderTakes \/ \E mode \in {"R", "K", "C"} : SetMode(mode)
TtyWrites == \E w \in TtyWriter : WriterStores(w) \/ \E ch \in TtyChar : ttyputc(w, ch)
TtyNext == TtyTypes(TtyKey) \/ TtyReads \/ SetEcho \/ TtyWrites \/ ttyhandle_out

TtySpec == TtyInit /\ [][TtyNext]_TtyVars

-----------------------------------------------------------------------------
(* Until the input ring is overrun, it holds the characters that were      *)
(* typed, edited and not read, in order; the semaphore counts at most      *)
(* those, a reader that is let through finds its own, and erasing never    *)
(* reaches into a line that was handed over (ttyhandle_in.c:108, :126).    *)
TtyInputKept ==
  ~tyoverrun =>
    LET n == Len(tykept)
        let == IF tyreader.pc = "ready" THEN 1 ELSE 0
    IN /\ n <= TY_IBUFLEN /\ tyin.tail = (tyin.head + n) % TY_IBUFLEN
       /\ \A i \in 1 .. n : tyin.buf[(tyin.head + i - 1) % TY_IBUFLEN] = tykept[i]
       /\ tyin.cursor >= 0 /\ Avail + let + tyin.cursor <= n
       /\ tyreader.pc = "blocked" <=> tyisem < 0

(* What a transmit interrupt takes for waiting output are characters that  *)
(* were stored and not sent, in order; and while there are such, or an     *)
(* echo, the interrupt is enabled (ttyhandle_out.c:18, ttyputc.c:36).      *)
TtyOutputFaithful ==
  LET n == Least(UART_FIFO_SIZE, Waiting)
      due == tyruns = "none" /\ (TtyPrompt => \A w \in TtyWriter : ~LetThrough(w))
  IN /\ due => /\ n <= Len(tyunsent)
               /\ \A i \in 1 .. n : tyout.buf[(tyout.head + i - 1) % TY_OBUFLEN] = tyunsent[i]
     /\ tyunsent # <<>> \/ tyecho > 0 => tyier
=============================================================================
