------------------------------ MODULE SweepAnalysis ------------------------------
(***************************************************************************)
(* What run_coordinator_scaling concludes from its repetitions: the        *)
(* aggregate of each device count, the assessment of saturation over the   *)
(* measured points, and panel (a) of the figure, which reads the summary.  *)
(* A repetition is kept in the directory of its device count, so a count   *)
(* that is given twice runs twice and is read twice from the same files.   *)
(* CPU use is in percent of one CPU; means are <<sum, number>>.            *)
(***************************************************************************)
EXTENDS Integers, Sequences, FiniteSets, SequencesExt, FiniteSetsExt

CONSTANTS Repetition,    \* what a repetition may leave: exit status, error, runtime, CPU samples
          CountLists,    \* values of --device-counts
          Repetitions,   \* --repetitions
          LogicalCpus    \* CPUs of the host

VARIABLES
  counts,    \* the device counts, in the order of the command line
  ran,       \* repetitions done
  files,     \* <<device count, repetition>> |-> what its directory holds
  summary,   \* rows, and the assessment
  panel      \* device counts of the points drawn; "none" before, "refused"

sweepVars == <<counts, ran, files, summary, panel>>

Nothing == [status |-> 1, error |-> TRUE, runtime |-> 0, cpu |-> <<>>]

(***************************************************************************)
(* Repetitions                                                             *)
(***************************************************************************)
SweepInit ==
  /\ counts \in CountLists /\ ran = 0
  /\ files = [k \in ToSet(counts) \X (1..Repetitions) |-> Nothing]
  /\ summary = <<>> /\ panel = "none"

RunRepetition(m) ==
  /\ summary = <<>> /\ ran < Len(counts) * Repetitions
  /\ LET key == <<counts[(ran \div Repetitions) + 1], (ran % Repetitions) + 1>>
     IN files' = [files EXCEPT ![key] = m]
  /\ ran' = ran + 1
  /\ UNCHANGED <<counts, summary, panel>>

(***************************************************************************)
(* aggregate_repetitions                                                   *)
(***************************************************************************)
Peak(m) == Max(ToSet(m.cpu))

(* Twice the median of the samples of one repetition.                       *)
TwiceMedian(m) ==
  LET s == SortSeq(m.cpu, <)
      n == Len(s)
  IN s[(n + 1) \div 2] + s[(n \div 2) + 1]

(* Mutant: a repetition with a terminal error counts.                       *)
SuccessfulExit(count) ==
  {r \in 1..Repetitions : files[<<count, r>>].status = 0 /\ files[<<count, r>>].runtime > 0}

Successful(count) ==
  {r \in 1..Repetitions : LET m == files[<<count, r>>] IN m.status = 0 /\ ~m.error /\ m.runtime > 0}

Total(S, f(_)) == FoldSet(LAMBDA r, acc : f(r) + acc, 0, S)

(* Mutant: the smallest of the peaks is kept.                               *)
AggregateLowestPeak(count) ==
  LET ok == Successful(count)
      at(r) == files[<<count, r>>]
      n == Cardinality(ok)
  IN [devices |-> count, measured |-> n > 0,
      runtime |-> <<Total(ok, LAMBDA r : at(r).runtime), n>>,
      median |-> <<Total(ok, LAMBDA r : TwiceMedian(at(r))), 2 * n>>,
      peak |-> IF n = 0 THEN 0 ELSE Min({Peak(at(r)) : r \in ok})]

aggregate_repetitions(count) ==
  LET ok == Successful(count)
      at(r) == files[<<count, r>>]
      n == Cardinality(ok)
  IN [devices |-> count, measured |-> n > 0,
      runtime |-> <<Total(ok, LAMBDA r : at(r).runtime), n>>,
      median |-> <<Total(ok, LAMBDA r : TwiceMedian(at(r))), 2 * n>>,
      peak |-> IF n = 0 THEN 0 ELSE Max({Peak(at(r)) : r \in ok})]

(***************************************************************************)
(* assess_saturation                                                       *)
(***************************************************************************)
AtLeast(a, b) == a[1] * b[2] >= b[1] * a[2]

(* Mutant: a plateau alone is put down to the CPU.                          *)
AssessByPlateau(points) ==
  IF Len(points) < 2 THEN [plateau |-> FALSE, saturated |-> FALSE, bottleneck |-> "none"]
  ELSE LET previous == points[Len(points) - 1]
           current == points[Len(points)]
           plateau == 100 * current.runtime[1] * previous.runtime[2] >= 95 * previous.runtime[1] * current.runtime[2]
       IN [plateau |-> plateau, saturated |-> FALSE, bottleneck |-> IF plateau THEN "cpu" ELSE "none"]

(* The last two measured points, in the order of the command line: a plateau *)
(* at 95% of the runtime, saturation at 90% of the host's CPUs.             *)
assess_saturation(points) ==
  IF Len(points) < 2 THEN [plateau |-> FALSE, saturated |-> FALSE, bottleneck |-> "none"]
  ELSE LET previous == points[Len(points) - 1]
           current == points[Len(points)]
           plateau == 100 * current.runtime[1] * previous.runtime[2] >= 95 * previous.runtime[1] * current.runtime[2]
           saturated == AtLeast(current.median, <<90 * LogicalCpus, 1>>)
       IN [plateau |-> plateau, saturated |-> saturated,
           bottleneck |-> IF plateau /\ saturated THEN "cpu" ELSE IF plateau THEN "host" ELSE "none"]

Rows == [i \in DOMAIN counts |-> aggregate_repetitions(counts[i])]
Points == SelectSeq(Rows, LAMBDA row : row.measured)

write_summary ==
  /\ summary = <<>> /\ ran = Len(counts) * Repetitions
  /\ summary' = <<[rows |-> Rows, saturation |-> assess_saturation(Points)]>>
  /\ UNCHANGED <<counts, ran, files, panel>>

(***************************************************************************)
(* parse_device_scaling                                                    *)
(***************************************************************************)
(* Rows without a runtime are left out; the points are sorted by count.      *)
parse_device_scaling(rows) ==
  LET measured == SelectSeq(rows, LAMBDA row : row.measured)
  IN SortSeq([i \in DOMAIN measured |-> measured[i].devices], <)

DrawPanel ==
  /\ summary # <<>> /\ panel = "none"
  /\ panel' = IF parse_device_scaling(summary[1].rows) = <<>> THEN "refused" ELSE "drawn"
  /\ UNCHANGED <<counts, ran, files, summary>>

SweepNext == (\E m \in Repetition : RunRepetition(m)) \/ write_summary \/ DrawPanel

-------------------------------------------------------------------------------
(* The peak of a row is at least its median, though one is the largest and    *)
(* the other the mean over the repetitions.                                 *)
PeakAboveMedian ==
  summary # <<>> => \A i \in DOMAIN summary[1].rows :
    LET row == summary[1].rows[i] IN row.measured => row.peak * row.median[2] >= row.median[1]

(* The CPU is named the bottleneck only when some repetition of the last      *)
(* point that ended without an error had a median of 90% of the host.        *)
BottleneckIsMeasured ==
  summary # <<>> /\ summary[1].saturation.bottleneck = "cpu" =>
    LET last == Points[Len(Points)].devices
    IN \E r \in 1..Repetitions :
         LET m == files[<<last, r>>]
         IN m.status = 0 /\ ~m.error /\ TwiceMedian(m) >= 2 * 90 * LogicalCpus

(* The figure's points are in ascending order and are those device counts     *)
(* for which a repetition ended without an error.                           *)
PanelShowsMeasured ==
  summary # <<>> =>
    LET p == parse_device_scaling(summary[1].rows)
    IN /\ \A i \in 1..(Len(p) - 1) : p[i] <= p[i + 1]
       /\ ToSet(p) = {c \in ToSet(counts) : \E r \in 1..Repetitions :
                        LET m == files[<<c, r>>] IN m.status = 0 /\ ~m.error /\ m.runtime > 0}

(* The rows, the bottleneck and the figure's points of a sweep's summary come  *)
(* from repetitions that ended without an error (aggregate_repetitions,        *)
(* assess_saturation, parse_device_scaling).                                   *)
SummaryIsMeasured ==
  PeakAboveMedian /\ BottleneckIsMeasured /\ PanelShowsMeasured
===============================================================================
