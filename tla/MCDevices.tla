----------------------------- MODULE MCDevices -----------------------------
(* The drivers, the name space, the shell and the library share no         *)
(* variable, so one run checks them side by side: a behaviour moves the    *)
(* one "which" names.                                                      *)
EXTENDS RemoteDisk, LocalFiles, RemoteFiles, Tty, NameSpace, Lexan, Shell, Sdmc, Ascdate, Qsort

VARIABLE which

(* The bytes of "f" need two index and data blocks; the last may change.   *)
MCLfMayWrite == [n \in LfName |-> IF n = "f" THEN <<{0}, {1}, {2, 5}>> ELSE <<{9}>>]

(* A console, the null device, the name space, both file systems; each     *)
(* prefix stands with one letter for its name.                             *)
MCNmDevs ==
  << [name |-> <<"c">>, num |-> "CONSOLE"], [name |-> <<"n", "n">>, num |-> "NULLDEV"],
     [name |-> <<"s">>, num |-> "NAMESPACE"], [name |-> <<"l">>, num |-> "LFILESYS"],
     [name |-> <<"r">>, num |-> "RFILESYS"] >>
MCNmDir ==
  [dev |-> <<"/", "d", "/">>, null |-> <<"/", "d", "/", "n">>, remote |-> <<"/", "r", "/">>,
   local |-> <<"/", "l", "/">>, home |-> <<"~", "/">>, root |-> <<"/">>]
MCNmName ==
  {p \o rest : p \in {MCNmDir[d] : d \in DOMAIN MCNmDir} \cup {<<>>}, rest \in BoundedSeq({"/", "c", "n", "s"}, 4)}
MCNmMounts == {NmEntry(<<"/", "c">>, <<"n">>, "CONSOLE"), NmEntry(<<"c">>, <<"n">>, "bad")}

(* What is typed while commands run, and all lines that only get parsed.   *)
MCJobLines ==
  {<<"c">>, <<"c", "&">>, <<"c", ">", "f">>, <<"k", "1">>, <<"k", "2">>, <<"x">>, <<"exit">>}
MCAllLines == BoundedSeq({"c", "f", "<", ">", "&"}, 6) \ {<<>>}

DiskVars == <<RdVars, LfVars, RfVars, TtyVars>>
LibVars == <<AsVars, QsVars>>
MCVars == <<DiskVars, NmVars, LxVars, ShVars, SdVars, LibVars, which>>
MCInit ==
  /\ which \in {"rds", "lfs", "rfs", "typing", "writing", "names", "lexan", "jobs", "parse", "sdmc",
                "dates", "sorting"}
  /\ LfInit /\ RfInit /\ TtyInit /\ ShInit /\ SdInit /\ AsInit
  /\ RdInit /\ (which = "rds" \/ rdmsgblk = 1)
  /\ LexInit /\ (which = "lexan" \/ lxline = <<>>)
  /\ NmInit /\ (which = "names" \/ nmleft = NmPrefixes("RFILESYS"))
  /\ IF which = "sorting" THEN QsInit ELSE qsort(<<>>)
DiskNext ==
  \/ which = "rds" /\ RdNext /\ UNCHANGED <<LfVars, RfVars, TtyVars>>
  \/ which = "lfs" /\ LfNext /\ UNCHANGED <<RdVars, RfVars, TtyVars>>
  \/ which = "rfs" /\ RfNext /\ UNCHANGED <<RdVars, LfVars, TtyVars>>
  \/ which = "typing" /\ TtyTypes(TtyKey \ {"stop", "start"}) /\ UNCHANGED <<RdVars, LfVars, RfVars>>
  \/ which = "typing" /\ TtyReads /\ UNCHANGED <<RdVars, LfVars, RfVars>>
  \/ which = "writing" /\ TtyTypes({"x", "nl", "stop", "start"}) /\ UNCHANGED <<RdVars, LfVars, RfVars>>
  \/ which = "writing" /\ (TtyWrites \/ SetEcho) /\ UNCHANGED <<RdVars, LfVars, RfVars>>
  \/ which \in {"typing", "writing"} /\ ttyhandle_out /\ UNCHANGED <<RdVars, LfVars, RfVars>>
MCNext ==
  /\ UNCHANGED which
  /\ \/ DiskNext /\ UNCHANGED <<NmVars, LxVars, ShVars, SdVars, LibVars>>
     \/ which = "dates" /\ AsNext /\ UNCHANGED <<DiskVars, NmVars, LxVars, ShVars, SdVars, QsVars>>
     \/ which = "sorting" /\ QsNext /\ UNCHANGED <<DiskVars, NmVars, LxVars, ShVars, SdVars, AsVars>>
     \/ which = "names" /\ NmNext /\ UNCHANGED <<DiskVars, LxVars, ShVars, SdVars, LibVars>>
     \/ which = "lexan" /\ lexan /\ UNCHANGED <<DiskVars, NmVars, ShVars, SdVars, LibVars>>
     \/ which = "jobs" /\ ShellNext(MCJobLines) /\ UNCHANGED <<DiskVars, NmVars, LxVars, SdVars, LibVars>>
     \/ which = "parse" /\ shline = <<>> /\ ShellReads(MCAllLines) /\ UNCHANGED <<DiskVars, NmVars, LxVars, SdVars, LibVars>>
     \/ which = "parse" /\ ShellCreates /\ UNCHANGED <<DiskVars, NmVars, LxVars, SdVars, LibVars>>
     \/ which = "sdmc" /\ SdNext /\ UNCHANGED <<DiskVars, NmVars, LxVars, ShVars, LibVars>>
MCSpec == MCInit /\ [][MCNext]_MCVars

(* Both algorithms of the library give what they promise (lib/qsort.c,     *)
(* system/ascdate.c).                                                      *)
LibrarySound == QsortSorts /\ AscdateRight
=============================================================================
