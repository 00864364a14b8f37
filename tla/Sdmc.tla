-------------------------------- MODULE Sdmc -------------------------------
(* The SD card driver (device/sdmc): synchronous commands with their error *)
(* recovery, opening, reading, and the card-insertion interrupt, which     *)
(* waits until the calls in progress, made with interrupts disabled, have  *)
(* returned.  The registers and the card are hardware: a status register   *)
(* that is "or"ed with one of its bits loses every bit that is set.        *)
EXTENDS Naturals, Sequences, FiniteSets

CONSTANT SdCards   \* how many times a card is put in
ASSUME SdmcAssumption == SdCards \in Nat

VARIABLES
  sdstack,         \* the calls in progress, the innermost first
  sdsig,           \* nrm_int_sig_en: the conditions that interrupt
  sdsten,          \* nrm_int_status_en
  sdnml,           \* nml_int_status, without the error bit
  sderr,           \* err_int_status: "cmd" and "data" errors
  sdbusy,          \* the command on the lines: CMD or DAT inhibit
  sdresp,          \* response0: the state and the busy bit it reports
  sdcard,          \* the last card that was put in: its number and state
  sdrca,           \* rca: the number of the card whose address it is
  sdfresh          \* history: the card is the one whose state the read has looked at
SdVars == <<sdstack, sdsig, sdsten, sdnml, sderr, sdbusy, sdresp, sdcard, sdrca, sdfresh>>
SdRegs == <<sdsig, sdsten, sdnml, sderr, sdbusy, sdresp, sdcard, sdrca>>

NoCmd == "none"
CmdSignals == {"CMD_COMP", "TX_COMP", "CRD_INT"}
InitSignals == {"CRD_INS", "CRD_RM", "CRD_INT"}
Frame(fn, pc, cmd) == [fn |-> fn, pc |-> pc, cmd |-> cmd, rc |-> "OK", sig |-> {}, sten |-> {}]

(* sdmcinit() has run and no card is in the slot.                          *)
SdInit ==
  /\ sdstack = <<>> /\ sdsig = InitSignals /\ sdsten = InitSignals
  /\ sdnml = {} /\ sderr = {} /\ sdbusy = NoCmd /\ sdresp = [state |-> "idle", busy |-> FALSE]
  /\ sdcard = [n |-> 0, state |-> "none"] /\ sdrca = 0 /\ sdfresh = FALSE

Innermost == Head(sdstack)
At(fn, pc) == sdstack # <<>> /\ Innermost.fn = fn /\ Innermost.pc = pc
GoesTo(pc) == sdstack' = <<[Innermost EXCEPT !.pc = pc]>> \o Tail(sdstack)
Calls(callee, pc) == sdstack' = <<callee, [Innermost EXCEPT !.pc = pc]>> \o Tail(sdstack)
Issue(cmd) == Frame("cmd", "issue", cmd)
Returns(rc) ==
  sdstack' = IF Len(sdstack) = 1 THEN <<>>
             ELSE <<[sdstack[2] EXCEPT !.rc = rc]>> \o SubSeq(sdstack, 3, Len(sdstack))

(***************************************************************************)
(* The controller and the card.                                            *)
(***************************************************************************)
Legal(cmd) ==
  CASE cmd \in {"CMD8", "CMD55", "ACMD41"} -> sdcard.state = "idle"
    [] cmd = "CMD2" -> sdcard.state = "ready"
    [] cmd = "CMD3" -> sdcard.state = "ident"
    [] cmd = "CMD7" -> sdcard.state = "stby" /\ sdrca = sdcard.n
    [] cmd = "CMD13" -> sdcard.state \in {"stby", "tran"} /\ sdrca = sdcard.n
    [] cmd \in {"CMD16", "CMD17", "ABT"} -> sdcard.state = "tran"
    [] OTHER -> TRUE
After(cmd, busy) ==
  CASE cmd = "CMD0" -> "idle"
    [] cmd = "ACMD41" -> IF busy THEN "idle" ELSE "ready"
    [] cmd = "CMD2" -> "ident"
    [] cmd = "CMD3" -> "stby"
    [] cmd = "CMD7" -> "tran"
    [] OTHER -> sdcard.state
SdHardware == UNCHANGED <<sdstack, sdsig, sdsten, sdrca>>
CmdCompletes ==
  /\ sdbusy \notin {NoCmd, "data"} /\ SdHardware /\ UNCHANGED sdfresh
  /\ \/ /\ sdcard.state # "none" /\ Legal(sdbusy) /\ UNCHANGED sderr
        /\ sdnml' = sdnml \cup {"CMD_COMP"}
        /\ \E busy \in IF sdbusy = "ACMD41" THEN BOOLEAN ELSE {FALSE} :
             /\ sdcard' = [sdcard EXCEPT !.state = After(sdbusy, busy)]
             /\ sdresp' = [state |-> sdcard.state, busy |-> busy]
        /\ sdbusy' = IF sdbusy = "CMD17" THEN "data" ELSE NoCmd
     \/ sderr' = sderr \cup {"cmd"} /\ sdbusy' = NoCmd /\ UNCHANGED <<sdnml, sdcard, sdresp>>
DataCompletes ==
  /\ sdbusy = "data" /\ sdbusy' = NoCmd /\ SdHardware /\ UNCHANGED <<sdcard, sdresp, sdfresh>>
  /\ \/ sdcard.state # "none" /\ sdnml' = sdnml \cup {"TX_COMP"} /\ UNCHANGED sderr
     \/ sderr' = sderr \cup {"data"} /\ UNCHANGED sdnml
CardIn ==
  /\ sdcard.state = "none" /\ sdcard.n < SdCards
  /\ sdcard' = [n |-> sdcard.n + 1, state |-> "idle"] /\ sdfresh' = FALSE
  /\ sdnml' = sdnml \cup ({"CRD_INS"} \cap sdsten)
  /\ SdHardware /\ UNCHANGED <<sderr, sdbusy, sdresp>>
CardOut ==
  /\ sdcard.state # "none" /\ sdcard' = [sdcard EXCEPT !.state = "none"] /\ sdfresh' = FALSE
  /\ sdnml' = sdnml \cup ({"CRD_RM"} \cap sdsten)
  /\ SdHardware /\ UNCHANGED <<sderr, sdbusy, sdresp>>

(***************************************************************************)
(* sdmc_issue_cmd_sync() and sdmc_cmd_err_rcvy().                          *)
(***************************************************************************)
BitCleared(bit) == IF bit \in sdnml THEN {} ELSE sdnml
Silenced(sig) == sig \ CmdSignals
CmdIssues ==
  /\ At("cmd", "issue") /\ sdbusy = NoCmd /\ sdbusy' = Innermost.cmd
  /\ sdstack' = <<[Innermost EXCEPT !.pc = "complete", !.sig = sdsig, !.sten = sdsten]>> \o Tail(sdstack)
  /\ sdsten' = sdsten \cup CmdSignals /\ sdsig' = Silenced(sdsig)
  /\ UNCHANGED <<sdnml, sderr, sdresp, sdcard, sdrca, sdfresh>>
SdUnchanged == UNCHANGED <<sdresp, sdcard, sdrca, sdfresh>>
CmdSeesEnd ==
  /\ At("cmd", "complete") /\ ("CMD_COMP" \in sdnml \/ sderr # {})
  /\ sdnml' = BitCleared("CMD_COMP") /\ GoesTo(IF Innermost.cmd = "CMD17" THEN "transfer" ELSE "errors")
  /\ SdUnchanged /\ UNCHANGED <<sdsig, sdsten, sderr, sdbusy>>
CmdSeesData ==
  /\ At("cmd", "transfer") /\ ("TX_COMP" \in sdnml \/ sderr # {})
  /\ sdnml' = BitCleared("TX_COMP") /\ GoesTo("errors")
  /\ SdUnchanged /\ UNCHANGED <<sdsig, sdsten, sderr, sdbusy>>
CmdChecks ==
  /\ At("cmd", "errors") /\ SdUnchanged /\ UNCHANGED <<sdsig, sdsten, sderr, sdbusy>>
  /\ sdnml' = IF sderr # {} THEN {} ELSE sdnml
  /\ IF sderr # {} /\ Innermost.cmd # "ABT"
     THEN Calls(Frame("rcvy", "reset", NoCmd), "return") ELSE GoesTo("return")
Restores == sdsig' = Innermost.sig /\ sdsten' = Innermost.sten
CmdReturns ==
  /\ At("cmd", "return") /\ Restores /\ Returns(Innermost.rc)
  /\ SdUnchanged /\ UNCHANGED <<sdnml, sderr, sdbusy>>

(* Resets the lines, clears the error, and sends the abort command.        *)
RcvyResets ==
  /\ At("rcvy", "reset") /\ Calls(Issue("ABT"), "check") /\ sdbusy' = NoCmd /\ sderr' = {}
  /\ SdUnchanged /\ UNCHANGED <<sdsig, sdsten, sdnml>>
RcvyChecks ==
  /\ At("rcvy", "check") /\ sdbusy = NoCmd /\ UNCHANGED sdbusy
  /\ sdnml' = BitCleared("CMD_COMP") /\ sderr' = {}
  /\ \E rc \in IF sderr # {} THEN {"NON_RECOVERABLE"} ELSE {"RECOVERABLE", "NON_RECOVERABLE"} : Returns(rc)
  /\ SdUnchanged /\ UNCHANGED <<sdsig, sdsten>>

(***************************************************************************)
(* sdmcopen(): each command but the looping one is followed by the next.   *)
(***************************************************************************)
OpenNext ==
  [CMD0 |-> "CMD8", CMD8 |-> "CMD55", CMD55 |-> "ACMD41", ACMD41 |-> "again",
   again |-> "init", CMD2 |-> "CMD3", CMD3 |-> "end"]
OpenCmd == [OpenNext EXCEPT !.CMD0 = "CMD0", !.CMD8 = "CMD8", !.CMD55 = "CMD55", !.ACMD41 = "ACMD41",
                            !.again = "CMD55", !.CMD2 = "CMD2", !.CMD3 = "CMD3"]
OpenFails == sdstack # <<>> /\ Innermost.fn = "open" /\ Innermost.rc # "OK"
SdQuiet == UNCHANGED <<sdsig, sdsten, sdnml, sderr, sdbusy, sdresp, sdcard>>
OpenIssues ==
  /\ sdstack # <<>> /\ Innermost.fn = "open" /\ Innermost.pc \in DOMAIN OpenNext /\ ~OpenFails
  /\ Calls(Issue(OpenCmd[Innermost.pc]), OpenNext[Innermost.pc])
  /\ sdrca' = (IF Innermost.pc = "CMD0" THEN 0 ELSE sdrca)
  /\ sdfresh' = FALSE /\ SdQuiet
OpenInitialises ==
  /\ At("open", "init") /\ ~OpenFails /\ Calls(Issue("ACMD41"), "busy")
  /\ SdQuiet /\ UNCHANGED <<sdrca, sdfresh>>
OpenWaits ==
  /\ At("open", "busy") /\ ~OpenFails /\ GoesTo(IF sdresp.busy THEN "again" ELSE "CMD2")
  /\ SdQuiet /\ UNCHANGED <<sdrca, sdfresh>>
OpenEnds ==
  /\ OpenFails \/ At("open", "end")
  /\ sdrca' = IF OpenFails THEN sdrca ELSE sdcard.n
  /\ Returns("OK") /\ SdQuiet /\ UNCHANGED sdfresh

(***************************************************************************)
(* sdmcread() with sdmcread_dma(), whose result it does not look at.       *)
(***************************************************************************)
SdStarts(fn, pc) ==
  /\ sdstack = <<>> /\ sdstack' = <<Frame(fn, pc, NoCmd)>> /\ UNCHANGED SdRegs /\ UNCHANGED sdfresh
ReadStatus ==
  /\ At("read", "status") /\ Calls(Issue("CMD13"), "state") /\ sdfresh' = TRUE /\ UNCHANGED sdrca /\ SdQuiet
ReadState ==
  /\ At("read", "state") /\ SdQuiet /\ UNCHANGED <<sdrca, sdfresh>>
  /\ IF Innermost.rc # "OK" \/ sdresp.state \notin {"stby", "tran"} THEN Returns("SYSERR")
     ELSE IF sdresp.state = "stby" THEN Calls(Issue("CMD7"), "length") ELSE GoesTo("length")
(* As the code would be if sdmcread() went on after an error.              *)
BugSelected == TRUE
Selected == Innermost.rc = "OK"
ReadLength ==
  /\ At("read", "length") /\ SdQuiet /\ UNCHANGED <<sdrca, sdfresh>>
  /\ IF Selected THEN Calls(Issue("CMD16"), "data") ELSE Returns("SYSERR")
ReadData ==
  /\ At("read", "data") /\ UNCHANGED <<sdsig, sdnml, sderr, sdbusy, sdresp, sdcard, sdrca, sdfresh>>
  /\ IF Selected THEN Calls(Issue("CMD17"), "after") /\ sdsten' = CmdSignals \cup InitSignals
     ELSE Returns("OK") /\ UNCHANGED sdsten
ReadAfter ==
  /\ At("read", "after") /\ Calls(Issue("CMD13"), "end") /\ SdQuiet /\ UNCHANGED <<sdrca, sdfresh>>
ReadEnds ==
  /\ At("read", "end") /\ Returns("OK") /\ SdQuiet /\ UNCHANGED <<sdrca, sdfresh>>

(***************************************************************************)
(* sdmcinterrupt().  No command is ever issued asynchronously, so that the *)
(* interrupts it could handle besides are never enabled.                   *)
(***************************************************************************)
Interrupted ==
  /\ sdstack = <<>> /\ sdnml \cap sdsig # {} /\ sdnml' = {}
  /\ sdstack' = IF "CRD_INS" \in sdnml /\ sdcard.state # "none" THEN <<Frame("open", "CMD0", NoCmd)>> ELSE <<>>
  /\ UNCHANGED <<sdsig, sdsten, sderr, sdbusy, sdresp, sdcard, sdrca, sdfresh>>

SdNext ==
  \/ CmdCompletes \/ DataCompletes \/ CardOut \/ CardIn
  \/ CmdIssues \/ CmdSeesEnd \/ CmdSeesData \/ CmdChecks \/ CmdReturns \/ RcvyResets \/ RcvyChecks
  \/ SdStarts("open", "CMD0") \/ OpenIssues \/ OpenInitialises \/ OpenWaits \/ OpenEnds
  \/ SdStarts("read", "status") \/ ReadStatus \/ ReadState \/ ReadLength \/ ReadData \/ ReadAfter \/ ReadEnds
  \/ Interrupted
(* A block is asked for only of a card that is in the transfer state, as   *)
(* long as it is the card the read has looked at: no error that a command  *)
(* or its recovery met on the way is passed over.  And whatever the        *)
(* commands and their recoveries nested in each other did to the signal    *)
(* enables, the driver leaves them as sdmcinit() set them, so that it will *)
(* hear of the next card.                                                  *)
SdReadsSelectedCard ==
  /\ sdbusy = "CMD17" /\ sdfresh => sdcard.state = "tran"
  /\ sdstack = <<>> => sdsig = InitSignals /\ InitSignals \subseteq sdsten
SdSpec == SdInit /\ [][SdNext]_SdVars
=============================================================================
