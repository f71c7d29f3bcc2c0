------------------------------ MODULE GreenTrace ------------------------------
(***************************************************************************)
(* Green context traces: the SM count a trace prescribes for a step or for *)
(* a time.  A trace is a sequence of <<timestamp, SM count>>.              *)
(***************************************************************************)
EXTENDS Integers, Sequences, FiniteSets, SequencesExt

Abs(x) == IF x < 0 THEN -x ELSE x

TimeScale(unit) == IF unit = "s" THEN 1000000 ELSE IF unit = "ms" THEN 1000 ELSE 1

(* Mutant: an entry takes effect after its timestamp.                       *)
SmCountBefore(entries, scale, t, default) ==
  LET late == {i \in 1..Len(entries) : entries[i][1] * scale >= t}
      n == IF late = {} THEN Len(entries) ELSE (CHOOSE i \in late : \A j \in late : i <= j) - 1
  IN IF n = 0 THEN default ELSE entries[n][2]

(* The scan stops at the first entry that is still to come: the entry       *)
(* before it counts, whatever follows.                                      *)
SmCountAt(entries, scale, t, default) ==
  LET late == {i \in 1..Len(entries) : entries[i][1] * scale > t}
      n == IF late = {} THEN Len(entries) ELSE (CHOOSE i \in late : \A j \in late : i <= j) - 1
  IN IF n = 0 THEN default ELSE entries[n][2]


(* min(sm_counts, key=lambda x: abs(x - sm)): the first of the nearest.     *)
Nearest(sms, sm) ==
  CHOOSE x \in sms : \A y \in sms :
    Abs(x - sm) < Abs(y - sm) \/ (Abs(x - sm) = Abs(y - sm) /\ x <= y)

(***************************************************************************)
(* What a trace means, when its timestamps are in order: at every moment   *)
(* the SM count of the latest entry that has come, and the last of those   *)
(* that came together.                                                     *)
(***************************************************************************)
InOrder(entries) == \A i, j \in 1..Len(entries) : i < j => entries[i][1] <= entries[j][1]

Prescribed(entries, scale, t, default) ==
  LET past == {i \in 1..Len(entries) : entries[i][1] * scale <= t}
  IN IF past = {} THEN default
     ELSE entries[CHOOSE i \in past : \A j \in past :
                    \/ entries[j][1] < entries[i][1]
                    \/ entries[j][1] = entries[i][1] /\ j <= i][2]
===============================================================================
