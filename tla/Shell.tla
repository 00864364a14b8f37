------------------------------- MODULE Shell -------------------------------
(* The shell: parsing a line of tokens, redirection, background commands,  *)
(* and the messages by which commands report their end (shell/shell.c,     *)
(* shell/addargs.c; create.c, kill.c, send.c, receive.c as it uses them).  *)
(* A token is a string, and each takes two places in tokbuf.               *)
EXTENDS Integers, Sequences, FiniteSets, SequencesExt

CONSTANTS
  ShPids,          \* the slots of the process table are 1..ShPids
  ShBuiltin,       \* the commands the shell runs itself
  ShCommand        \* all the commands it knows
ASSUME ShellAssumption == ShPids \in Nat \ {0} /\ ShBuiltin \subseteq ShCommand

ShPid == 1..ShPids
ShNone == 0        \* no process, and no message

VARIABLES
  shpc,            \* where the shell is
  shline,          \* the tokens of the last line
  shopened,        \* the streams it has opened for it
  shchild,         \* child
  shmsg,           \* prmsg of the shell, ShNone if prhasmsg is FALSE
  shstate,         \* prstate of each slot; "dying" is in kill(), after its send()
  shnext,          \* nextpid
  shfg,            \* history: the foreground command of the last line that started one
  shargs           \* the arguments and descriptors the child was given
ShVars == <<shpc, shline, shopened, shchild, shmsg, shstate, shnext, shfg, shargs>>

ShOps == {"&", "<", ">"}
ShRest == [toks |-> <<>>, tlen |-> 0, files |-> {}]
ShInit ==
  /\ shpc = "prompt" /\ shline = <<>> /\ shopened = {} /\ shchild = ShNone /\ shmsg = ShNone
  /\ shstate = [p \in ShPid |-> "free"] /\ shnext = 1 /\ shfg = ShNone /\ shargs = ShRest

(***************************************************************************)
(* The line.                                                               *)
(***************************************************************************)
Lexed(line) == [toks |-> line, tlen |-> 2 * Len(line), backgnd |-> FALSE, files |-> {}, err |-> FALSE]
StripAmper(p) ==
  IF Last(p.toks) # "&" THEN p
  ELSE [p EXCEPT !.toks = Front(@), !.tlen = @ - 2, !.backgnd = TRUE]

(* Each of the two blocks takes one redirection off the end of the line.   *)
Redirects(p) ==
  LET n == Len(p.toks)
  IN IF p.err \/ n < 3 THEN p
     ELSE IF p.toks[n - 1] \notin {"<", ">"} THEN p
     ELSE IF p.toks[n] \in ShOps \/ p.toks[n - 1] \in {f[1] : f \in p.files} THEN [p EXCEPT !.err = TRUE]
     ELSE [p EXCEPT !.toks = SubSeq(@, 1, n - 2), !.tlen = 2 * (n - 2), !.files = @ \cup {<<p.toks[n - 1], p.toks[n]>>}]
OnlyOthers(p) == [p EXCEPT !.err = @ \/ p.toks = <<>> \/ \E i \in DOMAIN p.toks : p.toks[i] \in ShOps]
Parsed(line) == OnlyOthers(Redirects(Redirects(StripAmper(Lexed(line)))))

(***************************************************************************)
(* Processes.                                                              *)
(***************************************************************************)
FreePids == {p \in ShPid : shstate[p] = "free"}
newpid ==
  LET dist(p) == (p - shnext + ShPids) % ShPids
  IN CHOOSE p \in FreePids : \A q \in FreePids : dist(p) <= dist(q)
ShSend(pid) == shmsg' = IF shmsg = ShNone THEN pid ELSE shmsg

(* A command ends: kill() reports to the parent, then frees the slot.      *)
CommandEnds(p) ==
  /\ shstate[p] = "ready" /\ ShSend(p)
  /\ shstate' = [shstate EXCEPT ![p] = "dying"]
  /\ UNCHANGED <<shpc, shline, shopened, shchild, shnext, shfg, shargs>>
KillEnds(p) ==
  /\ shstate[p] = "dying" /\ shstate' = [shstate EXCEPT ![p] = "free"]
  /\ UNCHANGED <<shpc, shline, shopened, shchild, shmsg, shnext, shfg, shargs>>

(***************************************************************************)
(* The shell.                                                              *)
(***************************************************************************)
(* The kill command runs in the shell, which is the parent of its victims. *)
xsh_kill(toks) ==
  LET victim == {p \in ShPid : Len(toks) = 2 /\ shstate[p] # "free" /\ ToString(p) = toks[2]}
  IN IF victim = {} THEN UNCHANGED <<shstate, shmsg>>
     ELSE \E p \in victim : ShSend(p) /\ shstate' = [shstate EXCEPT ![p] = "free"]

Builtin(p) ==
  /\ UNCHANGED <<shopened, shfg>>
  /\ IF p.files # {} \/ p.backgnd THEN shpc' = "prompt" /\ UNCHANGED <<shstate, shmsg>>
     ELSE IF p.toks[1] = "exit" THEN shpc' = "closed" /\ UNCHANGED <<shstate, shmsg>>
     ELSE xsh_kill(p.toks) /\ shpc' = "prompt"

(* open() of a file may fail; one opened before it stays open.             *)
Opens(p) ==
  LET streams == {f[1] : f \in p.files}
  IN /\ UNCHANGED <<shstate, shmsg, shfg>>
     /\ \E open \in SUBSET streams :
          /\ ">" \in open => ("<" \in streams => "<" \in open)
          /\ shopened' = open
          /\ shpc' = IF open = streams THEN "create" ELSE "prompt"

ShellReads(lines) ==
  /\ shpc = "prompt"
  /\ \E line \in lines :
       LET p == Parsed(line)
       IN /\ shline' = line /\ UNCHANGED <<shchild, shnext, shargs>>
          /\ IF p.err \/ p.toks[1] \notin ShCommand
             THEN shpc' = "prompt" /\ UNCHANGED <<shopened, shstate, shmsg, shfg>>
             ELSE IF p.toks[1] \in ShBuiltin THEN Builtin(p) ELSE Opens(p)

(* create() and addargs(); the child gets its arguments and descriptors,   *)
(* or stays suspended for good when addargs() refuses.  addargs() always   *)
(* finds the dummy argument, which create() has put on the child's stack.  *)
addargs(ntok, tlen) == ntok > 0 /\ tlen >= 0
ShellCreates ==
  LET p == Parsed(shline)
  IN /\ shpc = "create" /\ UNCHANGED <<shline, shmsg>>
     /\ IF FreePids = {}
        THEN shpc' = "prompt" /\ UNCHANGED <<shopened, shchild, shstate, shnext, shfg, shargs>>
        ELSE /\ shchild' = newpid /\ shnext' = (newpid % ShPids) + 1
             /\ shstate' = [shstate EXCEPT ![newpid] = "susp"]
             /\ IF addargs(Len(p.toks), p.tlen)
                THEN /\ shpc' = "recvclr" /\ shopened' = {} /\ shfg' = ShNone
                     /\ shargs' = [toks |-> p.toks, tlen |-> p.tlen,
                                   files |-> {f \in p.files : f[1] \in shopened}]
                ELSE shpc' = "prompt" /\ UNCHANGED <<shopened, shfg, shargs>>
(* As the code would be if an earlier message were left in the mailbox.    *)
Bugrecvclr ==
  /\ shpc = "recvclr" /\ shpc' = "resume" /\ UNCHANGED shmsg
  /\ UNCHANGED <<shline, shopened, shchild, shstate, shnext, shfg, shargs>>
recvclr ==
  /\ shpc = "recvclr" /\ shpc' = "resume" /\ shmsg' = ShNone
  /\ UNCHANGED <<shline, shopened, shchild, shstate, shnext, shfg, shargs>>
ShellResumes ==
  LET fg == ~Parsed(shline).backgnd
  IN /\ shpc = "resume" /\ shpc' = IF fg THEN "receive" ELSE "prompt"
     /\ shstate' = [shstate EXCEPT ![shchild] = "ready"]
     /\ shfg' = IF fg THEN shchild ELSE shfg
     /\ UNCHANGED <<shline, shopened, shchild, shmsg, shnext, shargs>>
ShellReceives ==
  /\ shpc = "receive" /\ shmsg # ShNone /\ shmsg' = ShNone
  /\ shpc' = IF shmsg = shchild THEN "prompt" ELSE "receive"
  /\ UNCHANGED <<shline, shopened, shchild, shstate, shnext, shfg, shargs>>

ShellNext(lines) ==
  \/ ShellReads(lines) \/ ShellCreates \/ recvclr \/ ShellResumes \/ ShellReceives
  \/ \E p \in ShPid : CommandEnds(p) \/ KillEnds(p)
ShSpec(lines) == ShInit /\ [][ShellNext(lines)]_ShVars

(***************************************************************************)
(* Properties.                                                             *)
(***************************************************************************)
(* What the header of shell() says of a line:                              *)
(*   command_name [args*] [redirection] [&]                                *)
Redirections(files) ==
  {<<"<", f>> : f \in files} \cup {<<">", f>> : f \in files} \cup
  {<<"<", f, ">", g>> : f \in files, g \in files} \cup {<<">", f, "<", g>> : f \in files, g \in files} \cup {<<>>}
Readings(line) ==
  {d \in [n : 1..Len(line), redirection : Redirections(Range(line) \ ShOps), amper : {<<>>, <<"&">>}] :
     /\ \A i \in 1..d.n : line[i] \notin ShOps
     /\ line = SubSeq(line, 1, d.n) \o d.redirection \o d.amper}
FilesOf(redirection) ==
  {<<redirection[2 * i - 1], redirection[2 * i]>> : i \in 1..(Len(redirection) \div 2)}

(* The shell never prompts while the foreground command of the last line   *)
(* that started one still runs: no message of another command, however     *)
(* late, and no command of the same process id before it, is taken for its *)
(* end.  And a command runs with exactly the arguments and the files that  *)
(* were typed for it, whole in its stack, while any line the syntax        *)
(* forbids starts nothing.                                                 *)
ShellWaitsForChild == shpc = "prompt" /\ shfg # ShNone => shstate[shfg] # "ready"
ShellRunsWhatWasTyped ==
  /\ shline # <<>> => (Parsed(shline).err <=> Readings(shline) = {})
  /\ shpc \in {"recvclr", "resume"} =>
       \E d \in Readings(shline) :
         /\ shargs = [toks |-> SubSeq(shline, 1, d.n), tlen |-> 2 * d.n, files |-> FilesOf(d.redirection)]
         /\ Parsed(shline).backgnd <=> d.amper # <<>>
ShellSound == ShellWaitsForChild /\ ShellRunsWhatWasTyped
=============================================================================
