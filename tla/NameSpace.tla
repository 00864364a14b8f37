----------------------------- MODULE NameSpace -----------------------------
(* The syntactic name space (device/nam): a table of prefixes, the one     *)
(* naminit() builds and what mount() adds, and the mapping of names by it. *)
(* A name is a sequence of one-letter strings; its NULLCH is not written.  *)
EXTENDS Integers, Sequences, FiniteSets, SequencesExt

CONSTANTS
  NmDevs,          \* devtab: the name and the number of each device, in lower case
  NmRfs,           \* what RFILESYS may be: a device, or SYSERR if none is configured
  NmDir,           \* the prefixes naminit() writes out
  NmName,          \* the names that are opened
  NmMounts,        \* the entries that are mounted later
  NM_PRELEN, NM_REPLLEN, NM_MAXLEN, NNAMES,
  NmCharMax        \* the greatest value of a (signed) char

SysErr == "SYSERR"
NmEntry(prefix, replace, device) == [nprefix |-> prefix, nreplace |-> replace, ndevice |-> device]
NmNumbers == {NmDevs[i].num : i \in DOMAIN NmDevs}

(* The strings are strings.  The tables hold what naminit() mounts, its    *)
(* last prefix on LFILESYS is that of a device, and a replacement before a *)
(* name whose length a char can hold fits into newname (name.h, conf.h).   *)
ASSUME NmTypeAssumption ==
  /\ NmDevs \in Seq([name : Seq(STRING), num : STRING]) /\ NmName \subseteq Seq(STRING)
  /\ NmDir \in [dev : Seq(STRING), null : Seq(STRING), remote : Seq(STRING), local : Seq(STRING),
                home : Seq(STRING), root : Seq(STRING)]
ASSUME NmSizeAssumption ==
  /\ NM_PRELEN \in Nat \ {0} /\ NM_REPLLEN \in Nat \ {0} /\ NmCharMax \in Nat /\ NM_MAXLEN \in Nat
  /\ NmCharMax + NM_REPLLEN <= NM_MAXLEN
  /\ NNAMES \in Nat /\ Len(NmDevs) + 7 <= NNAMES /\ "LFILESYS" \in NmNumbers

(* What open() relies on: no device's name continues the name of another,  *)
(* none is a proper beginning of "null", and of the directories only "/"   *)
(* holds another, and "/dev/" holds "/dev/null".                           *)
ASSUME NmDevAssumption ==
  \A i \in DOMAIN NmDevs :
    /\ \A j \in DOMAIN NmDevs : i # j => ~IsPrefix(NmDevs[i].name, NmDevs[j].name)
    /\ IsPrefix(NmDir.dev \o NmDevs[i].name, NmDir.null) => NmDir.dev \o NmDevs[i].name = NmDir.null
ASSUME NmDirAssumption ==
  \A a, b \in {"dev", "null", "remote", "local", "home", "root"} :
    IsPrefix(NmDir[a], NmDir[b]) => a = b \/ a = "root" \/ (a = "dev" /\ b = "null")

VARIABLES
  nametab,         \* the entries in use, nnames of them
  nmleft,          \* what naminit() still has to mount
  nmboot,          \* history: what naminit() has put in the table
  nmopened         \* the last name that was opened and what nammap() made of it
NmVars == <<nametab, nmleft, nmboot, nmopened>>

(***************************************************************************)
(* mount() and naminit().                                                  *)
(***************************************************************************)
namlen(name, maxlen) == IF Len(name) < maxlen THEN Len(name) + 1 ELSE -1
Mounted(tab, e) ==
  IF \/ namlen(e.nprefix, NM_PRELEN) = -1 \/ namlen(e.nreplace, NM_REPLLEN) = -1
     \/ e.ndevice \notin NmNumbers \/ Len(tab) >= NNAMES
  THEN tab ELSE Append(tab, e)

DevPrefixes == [i \in DOMAIN NmDevs |-> NmEntry(NmDir.dev \o NmDevs[i].name, <<>>, NmDevs[i].num)]
(* Moves the prefix that matches every name from the end to the front.     *)
BugOtherPrefixes(rfs) ==
  <<NmEntry(<<>>, <<>>, "LFILESYS"), NmEntry(NmDir.null, <<>>, "NULLDEV")>>
OtherPrefixes(rfs) ==
  << NmEntry(NmDir.null, <<>>, "NULLDEV"), NmEntry(NmDir.remote, <<"remote:">>, rfs),
     NmEntry(NmDir.local, <<>>, "LFILESYS"), NmEntry(NmDir.dev, <<>>, SysErr),
     NmEntry(NmDir.home, <<>>, "LFILESYS"), NmEntry(NmDir.root, <<"root:">>, rfs),
     NmEntry(<<>>, <<>>, "LFILESYS") >>
NmPrefixes(rfs) == DevPrefixes \o OtherPrefixes(rfs)
NmInit ==
  /\ nmopened = [name |-> <<>>, dev |-> "none", newname |-> <<>>, ended |-> TRUE]
  /\ nametab = <<>> /\ nmboot = {} /\ \E rfs \in NmRfs : nmleft = NmPrefixes(rfs)

naminit ==
  /\ nmleft # <<>> /\ nmleft' = Tail(nmleft) /\ nametab' = Mounted(nametab, Head(nmleft))
  /\ nmboot' = Range(nametab') /\ UNCHANGED nmopened
mount(e) == nmleft = <<>> /\ nametab' = Mounted(nametab, e) /\ UNCHANGED <<nmleft, nmboot, nmopened>>

(***************************************************************************)
(* nammap() and namopen().  namrepl() holds the length of the name in a    *)
(* char; a negative one copies neither the rest of the name nor its end.   *)
(***************************************************************************)
AsChar(n) == ((n + NmCharMax + 1) % (2 * (NmCharMax + 1))) - (NmCharMax + 1)
NmResult(name, dev, newname, ended) == [name |-> name, dev |-> dev, newname |-> newname, ended |-> ended]
Matching(tab, name) == {i \in DOMAIN tab : IsPrefix(tab[i].nprefix, name)}
NmFirst(name) == CHOOSE i \in Matching(nametab, name) : \A j \in Matching(nametab, name) : i <= j
NmReplaced(name, e) ==
  LET remain == AsChar(namlen(name, NM_MAXLEN)) - Len(e.nprefix)
      rest == SubSeq(name, Len(e.nprefix) + 1, Len(name))
  IN IF Len(e.nreplace) + remain > NM_MAXLEN THEN NmResult(name, SysErr, <<>>, FALSE)
     ELSE IF remain <= 0 THEN NmResult(name, e.ndevice, e.nreplace, FALSE)
     ELSE NmResult(name, e.ndevice, e.nreplace \o rest, TRUE)
namrepl(name) ==
  IF Matching(nametab, name) = {} THEN NmResult(name, SysErr, <<>>, FALSE)
  ELSE NmReplaced(name, nametab[NmFirst(name)])

(* The loop never copies newname into tmpname: as long as the prefix leads *)
(* back to the name space it replaces the same one again, and gives up.    *)
nammap(name) ==
  IF namlen(name, NM_MAXLEN) = -1 \/ nametab = <<>> THEN NmResult(name, SysErr, <<>>, FALSE)
  ELSE LET r == namrepl(name)
       IN IF r.dev = "NAMESPACE" THEN [r EXCEPT !.dev = SysErr] ELSE r
namopen(name) ==
  /\ nmleft = <<>> /\ nmopened.dev = "none" /\ nmopened' = nammap(name)
  /\ UNCHANGED <<nametab, nmleft, nmboot>>
NmReturns ==
  /\ nmopened.dev # "none" /\ nmopened' = [nmopened EXCEPT !.name = <<>>, !.dev = "none", !.newname = <<>>, !.ended = TRUE]
  /\ UNCHANGED <<nametab, nmleft, nmboot>>

NmNext ==
  \/ naminit
  \/ \E e \in NmMounts : mount(e)
  \/ \E name \in NmName : namopen(name)
  \/ NmReturns
NmSpec == NmInit /\ [][NmNext]_NmVars

(* "Longest prefix first", says naminit(): a name that fits is opened on   *)
(* the device of the longest prefix that was mounted at start-up, with the *)
(* rest of the name whole behind the replacement, and nothing mounted      *)
(* later changes what a name means.  What becomes of a name that leads     *)
(* back to the name space is left open: nammap.c:28 speaks of repeated     *)
(* substitution, which newname never being copied to tmpname prevents.     *)
(* (Names too long for olen are left out.)                                 *)
NamesKeepTheirMeaning ==
  LET name == nmopened.name
      fit == {e \in nmboot : IsPrefix(e.nprefix, name)}
  IN nmopened.dev # "none" /\ Len(name) < NmCharMax =>
       \E e \in fit :
         /\ \A f \in fit : Len(f.nprefix) <= Len(e.nprefix)
         /\ e.ndevice # "NAMESPACE" =>
              nmopened = NmResult(name, e.ndevice, e.nreplace \o SubSeq(name, Len(e.nprefix) + 1, Len(name)), TRUE)
=============================================================================
