------------------------------- MODULE Qsort -------------------------------
(***************************************************************************)
(* qsort() of the C library.                                               *)
(*                                                                         *)
(* qs1() splits a segment [qsa, qsl) around its middle element: what is    *)
(* before qsi is smaller, qslp to qshp are equal to it, what is behind qsj *)
(* is larger.  An element is its key; the loop labels of the code are the  *)
(* values of qspc, and a call of qs1() within qs1() pushes the segment it  *)
(* leaves for later.                                                       *)
(***************************************************************************)
EXTENDS Integers, SequencesExt

CONSTANTS QsKey,    \* what the comparison tells apart
          QsMaxLen  \* bound: elements of the array

ASSUME QsAssumption == QsKey \subseteq Int /\ QsMaxLen \in Nat

VARIABLES qsgiven,  \* history: the array as it was given
          qsarr,    \* the array, from 1
          qsa, qsl, \* the segment
          qsi, qsj, qslp, qshp,
          qspc,
          qslater   \* segments whose qs1() waits for the return of another

QsVars == <<qsgiven, qsarr, qsa, qsl, qsi, qsj, qslp, qshp, qspc, qslater>>

qsort(arr) ==
  /\ qsgiven = arr /\ qsarr = arr
  /\ qsa = 1 /\ qsl = Len(arr) + 1
  /\ qsi = 0 /\ qsj = 0 /\ qslp = 0 /\ qshp = 0
  /\ qspc = "start" /\ qslater = <<>>
QsInit == \E arr \in BoundedSeq(QsKey, QsMaxLen) : qsort(arr)

-----------------------------------------------------------------------------
qsexc(arr, i, j) == [arr EXCEPT ![i] = arr[j], ![j] = arr[i]]
(* In this order, for j and k may be one element. *)
qstexc(arr, i, j, k) == [arr EXCEPT ![i] = arr[k], ![k] = arr[j], ![j] = arr[i]]

(* A segment of one element or none is sorted: the call returns, or the    *)
(* array is done.                                                          *)
QsReturns ==
  /\ qspc = "start" /\ qsl - qsa <= 1
  /\ IF qslater = <<>> THEN qspc' = "done" /\ UNCHANGED <<qsa, qsl, qslater>>
     ELSE /\ qsa' = Last(qslater)[1] /\ qsl' = Last(qslater)[2]
          /\ qslater' = Front(qslater) /\ UNCHANGED qspc
  /\ UNCHANGED <<qsgiven, qsarr, qsi, qsj, qslp, qshp>>

QsStarts ==
  /\ qspc = "start" /\ qsl - qsa > 1
  /\ qslp' = qsa + (qsl - qsa) \div 2 /\ qshp' = qslp'
  /\ qsi' = qsa /\ qsj' = qsl - 1
  /\ qspc' = "left"
  /\ UNCHANGED <<qsgiven, qsarr, qsa, qsl, qslater>>

(* From the left: an equal element joins the middle, a smaller one stays,  *)
(* a larger one waits for its partner.                                     *)
QsLeft ==
  /\ qspc = "left"
  /\ \/ /\ qsi < qslp /\ qsarr[qsi] = qsarr[qslp]
        /\ qslp' = qslp - 1 /\ qsarr' = qsexc(qsarr, qsi, qslp - 1)
        /\ UNCHANGED <<qsi, qspc>>
     \/ /\ qsi < qslp /\ qsarr[qsi] < qsarr[qslp]
        /\ qsi' = qsi + 1 /\ UNCHANGED <<qslp, qsarr, qspc>>
     \/ /\ qsi >= qslp \/ qsarr[qsi] > qsarr[qslp]
        /\ qspc' = "right" /\ UNCHANGED <<qsi, qslp, qsarr>>
  /\ UNCHANGED <<qsgiven, qsa, qsl, qsj, qshp, qslater>>

(* From the right: a smaller element changes places with the larger one on *)
(* the left, or moves the middle up when there is none.                    *)
QsRight ==
  /\ qspc = "right" /\ qsj > qshp
  /\ \/ /\ qsarr[qshp] = qsarr[qsj]
        /\ qshp' = qshp + 1 /\ qsarr' = qsexc(qsarr, qshp + 1, qsj)
        /\ UNCHANGED <<qsi, qsj, qslp, qspc>>
     \/ /\ qsarr[qshp] < qsarr[qsj]
        /\ qsj' = qsj - 1 /\ UNCHANGED <<qsi, qslp, qshp, qsarr, qspc>>
     \/ /\ qsarr[qshp] > qsarr[qsj] /\ qsi = qslp
        /\ qshp' = qshp + 1 /\ qslp' = qslp + 1 /\ qsi' = qslp + 1
        /\ qsarr' = qstexc(qsarr, qsi, qshp + 1, qsj)
        /\ UNCHANGED <<qsj, qspc>>
     \/ /\ qsarr[qshp] > qsarr[qsj] /\ qsi # qslp
        /\ qsarr' = qsexc(qsarr, qsi, qsj)
        /\ qsi' = qsi + 1 /\ qsj' = qsj - 1 /\ qspc' = "left"
        /\ UNCHANGED <<qslp, qshp>>
  /\ UNCHANGED <<qsgiven, qsa, qsl, qslater>>

(* Only a larger element on the left is left: the middle moves down. *)
BugMiddleDown ==
  /\ qspc = "right" /\ qsj <= qshp /\ qsi # qslp
  /\ qsarr' = qsexc(qsarr, qsj, qsi)
  /\ qslp' = qslp - 1 /\ qshp' = qshp - 1 /\ qsj' = qshp - 1 /\ qspc' = "left"
  /\ UNCHANGED <<qsgiven, qsa, qsl, qsi, qslater>>
QsMiddleDown ==
  /\ qspc = "right" /\ qsj <= qshp /\ qsi # qslp
  /\ qsarr' = qstexc(qsarr, qsj, qslp - 1, qsi)
  /\ qslp' = qslp - 1 /\ qshp' = qshp - 1 /\ qsj' = qshp - 1 /\ qspc' = "left"
  /\ UNCHANGED <<qsgiven, qsa, qsl, qsi, qslater>>

(* The segment is split: the shorter part first. *)
QsSplits ==
  /\ qspc = "right" /\ qsj <= qshp /\ qsi = qslp
  /\ IF qslp - qsa >= qsl - qshp
     THEN /\ qslater' = Append(qslater, <<qsa, qslp>>)
          /\ qsa' = qshp + 1 /\ UNCHANGED qsl
     ELSE /\ qslater' = Append(qslater, <<qshp + 1, qsl>>)
          /\ qsl' = qslp /\ UNCHANGED qsa
  /\ qspc' = "start"
  /\ UNCHANGED <<qsgiven, qsarr, qsi, qsj, qslp, qshp>>

QsNext == QsReturns \/ QsStarts \/ QsLeft \/ QsRight \/ QsMiddleDown \/ QsSplits

-----------------------------------------------------------------------------
(* qsort() only moves elements; the parts of a segment stay ordered by the *)
(* middle while its ends close in; and what is not in the segment or kept  *)
(* for later is where it belongs, so that in the end all is (qsort.c:33).  *)
QsortSorts ==
  LET idx  == DOMAIN qsarr
      seg  == qsa .. qsl - 1
      kept == {qslater[k][1] .. qslater[k][2] - 1 : k \in DOMAIN qslater} \cup {seg}
      open == IF qspc = "done" THEN {} ELSE kept
  IN /\ \A v \in QsKey : Len(SelectSeq(qsarr, LAMBDA x : x = v)) = Len(SelectSeq(qsgiven, LAMBDA x : x = v))
     /\ qspc \in {"left", "right"} =>
          /\ qsa <= qsi /\ qsi <= qslp /\ qslp <= qshp /\ qshp <= qsj /\ qsj < qsl
          /\ \A k \in qsa .. qsi - 1 : qsarr[k] < qsarr[qslp]
          /\ \A k \in qslp .. qshp : qsarr[k] = qsarr[qslp]
          /\ \A k \in qsj + 1 .. qsl - 1 : qsarr[k] > qsarr[qslp]
     /\ \A k, m \in idx : k < m /\ (\A s \in open : ~ {k, m} \subseteq s) => qsarr[k] <= qsarr[m]
=============================================================================
