------------------------------- MODULE Lexan -------------------------------
(* lexan(): the shell's lexical analyser (shell/lexan.c).  A character is  *)
(* a one-letter string; the line ends where the sequence does.             *)
EXTENDS Naturals, Sequences, SequencesExt

CONSTANTS
  LxChar,          \* the characters of a line
  LxMaxLen,        \* the longest line that is typed
  SHELL_MAXTOK     \* the most tokens lexan() returns
ASSUME LexanAssumption == LxMaxLen \in Nat /\ SHELL_MAXTOK \in Nat \ {0}

VARIABLES
  lxline,          \* the line
  lxpos,           \* p: how many characters have been read
  lxtoks,          \* the tokens so far: their type and their characters
  lxpc             \* "scan", "ok" or "SYSERR"
LxVars == <<lxline, lxpos, lxtoks, lxpc>>

Blanks == {" ", "\t"}
Quotes == {"'", "\""}
Operators == {"&", "<", ">"}
Others == LxChar \ (Blanks \cup Quotes \cup Operators)
LxToken(type, text) == [type |-> type, text |-> text]

LexInit ==
  /\ lxline \in BoundedSeq(LxChar, LxMaxLen)
  /\ lxpos = 0 /\ lxtoks = <<>> /\ lxpc = "scan"

(* The first position from i on whose character is in S, or the one behind *)
(* the line, where the NEWLINE is.                                         *)
Until(i, S) ==
  LET found == {j \in i..Len(lxline) : lxline[j] \in S} \cup {Len(lxline) + 1}
  IN CHOOSE j \in found : \A k \in found : j <= k
AtEnd(i) == i > Len(lxline)
Text(i, j) == SubSeq(lxline, i, j - 1)

Fails == lxpc' = "SYSERR" /\ UNCHANGED <<lxpos, lxtoks>>
Counts(token, next) == lxtoks' = Append(lxtoks, token) /\ lxpos' = next - 1 /\ UNCHANGED lxpc

(* An operator is a token, and so is what stands between two quotes; any   *)
(* other token ends before a blank, an operator or a quote, and only the   *)
(* ampersand may follow it without a blank.                                *)
OneChar(i) == lxline[i] \in Operators /\ Counts(LxToken(lxline[i], <<lxline[i]>>), i + 1)
Quoted(i) ==
  LET close == Until(i + 1, {lxline[i]})
  IN /\ lxline[i] \in Quotes
     /\ IF AtEnd(close) THEN Fails
        ELSE Counts(LxToken("OTHER", Text(i + 1, close)), close + 1)
(* As the code would be if a word did not stop at the ampersand.           *)
BugWord(i) ==
  LET end == Until(i, LxChar \ (Others \cup {"&"}))
  IN /\ lxline[i] \in Others
     /\ IF ~AtEnd(end) /\ lxline[end] \in Quotes \cup {"<", ">"} THEN Fails
        ELSE Counts(LxToken("OTHER", Text(i, end)), end)
Word(i) ==
  LET end == Until(i, LxChar \ Others)
  IN /\ lxline[i] \in Others
     /\ IF ~AtEnd(end) /\ lxline[end] \in Quotes \cup {"<", ">"} THEN Fails
        ELSE Counts(LxToken("OTHER", Text(i, end)), end)

(* One turn of the loop.  The number of tokens is tested before the blanks *)
(* are skipped: a blank behind the last token that fits is an error.       *)
lexan ==
  LET start == Until(lxpos + 1, LxChar \ Blanks)
  IN /\ lxpc = "scan" /\ UNCHANGED lxline
     /\ IF AtEnd(lxpos + 1) THEN lxpc' = "ok" /\ UNCHANGED <<lxpos, lxtoks>>
        ELSE IF Len(lxtoks) >= SHELL_MAXTOK THEN Fails
        ELSE IF AtEnd(start) THEN lxpc' = "ok" /\ UNCHANGED <<lxpos, lxtoks>>
        ELSE OneChar(start) \/ Quoted(start) \/ Word(start)
LexSpec == LexInit /\ [][lexan]_LxVars

(* The reference: an automaton that reads one character at a time and is   *)
(* in a gap, in a word or in a string that a quote has opened, or "bad"    *)
(* from where a word ran into a quote or a redirection.                    *)
LxState(in, open, toks, text) == [in |-> in, open |-> open, toks |-> toks, text |-> text]
LxClosed(a) == IF a.in = "word" THEN Append(a.toks, LxToken("OTHER", a.text)) ELSE a.toks
LxRead(c, a) ==
  IF a.in = "bad" THEN a
  ELSE IF a.in = "quote"
  THEN IF c = a.open THEN LxState("gap", "", Append(a.toks, LxToken("OTHER", a.text)), <<>>)
       ELSE LxState("quote", a.open, a.toks, Append(a.text, c))
  ELSE IF c \in Others THEN LxState("word", "", a.toks, Append(a.text, c))
  ELSE IF a.in = "word" /\ c \in Quotes \cup {"<", ">"} THEN LxState("bad", "", a.toks, a.text)
  ELSE IF c \in Quotes THEN LxState("quote", c, LxClosed(a), <<>>)
  ELSE IF c \in Operators THEN LxState("gap", "", Append(LxClosed(a), LxToken(c, <<c>>)), <<>>)
  ELSE LxState("gap", "", LxClosed(a), <<>>)
LxStates(line) ==
  LET a[i \in 0..Len(line)] == IF i = 0 THEN LxState("gap", "", <<>>, <<>>) ELSE LxRead(line[i], a[i - 1])
  IN a

(* lexan() returns exactly the tokens of the line, in their order, and     *)
(* SYSERR exactly for a string that is not closed, a word that runs into a *)
(* quote or a redirection, or more on the line than SHELL_MAXTOK tokens.   *)
LexanFaithful ==
  LET ref == LxStates(lxline)[Len(lxline)]
      toks == LxClosed(ref)
      full == Len(toks) > SHELL_MAXTOK \/ (Len(toks) = SHELL_MAXTOK /\ lxline[Len(lxline)] \in Blanks)
  IN /\ lxpc = "ok" => lxtoks = toks /\ ref.in \notin {"bad", "quote"} /\ ~full
     /\ lxpc = "SYSERR" => ref.in \in {"bad", "quote"} \/ full
     /\ lxpc = "scan" => Len(lxtoks) <= SHELL_MAXTOK
=============================================================================
