------------------------------- MODULE SwapTiming -------------------------------
(***************************************************************************)
(* cross_validate_swap_timing: the cost of a context switch, measured      *)
(* inline (by the native runtime and around the Python call, while two     *)
(* LDPC traces are replayed) and by an isolated benchmark, and the verdict *)
(* on whether the measurements agree.                                      *)
(***************************************************************************)
EXTENDS Integers, Sequences, FiniteSets, FiniteSetsExt, SequencesExt

CONSTANTS
  RanSms,         \* SM counts in the traces
  GpuSms,         \* --total-sms
  SlotSms,        \* SM counts the runtime has contexts for
  ResidentSms,    \* SM count that is active between activations
  WallTimes,      \* us a Python activation takes
  BenchTimes,     \* p50 in us of a benchmark that ran
  MaxReplayed     \* rows of each trace

VARIABLES
  replayed,   \* trace |-> rows read
  python,     \* trace |-> python_samples_us
  native,     \* trace |-> cpp_samples_us
  bench,      \* trace |-> [status, p50]; status "pending" before
  verdict     \* [done |-> FALSE], or the cross validation

swapVars == <<replayed, python, native, bench, verdict>>

Traces == {"with_ctrl", "without_ctrl"}
Files == {"none", "good", "malformed"}
Binaries == {"none", "good", "failing"}

SwapInit ==
  /\ replayed = [t \in Traces |-> 0]
  /\ python = [t \in Traces |-> <<>>] /\ native = [t \in Traces |-> <<>>]
  /\ bench = [t \in Traces |-> [status |-> "pending", p50 |-> 0]]
  /\ verdict = [done |-> FALSE]

(***************************************************************************)
(* _collect_bench_isolated: a JSON file is preferred to running the        *)
(* benchmark, and one that does not parse is not replaced by a run.        *)
(***************************************************************************)
BenchIsolated(file, binary, p50) ==
  LET ok == [status |-> "ok", p50 |-> p50]
      warning == [status |-> "warning", p50 |-> 0]
  IN CASE file = "good" -> ok
       [] file = "malformed" -> warning
       [] file = "none" /\ binary = "good" -> ok
       [] file = "none" /\ binary = "failing" -> warning
       [] OTHER -> [status |-> "missing", p50 |-> 0]

CollectBench ==
  /\ \A t \in Traces : bench[t].status = "pending"
  /\ \E binary \in Binaries, files \in [Traces -> Files], p50s \in [Traces -> BenchTimes] :
       bench' = [t \in Traces |-> BenchIsolated(files[t], binary, p50s[t])]
  /\ UNCHANGED <<replayed, python, native, verdict>>

(***************************************************************************)
(* _measure_inline_trace, one row                                          *)
(***************************************************************************)
(* Mutant: a switch the runtime's clock is too coarse for counts as free.   *)
QuantizedSample(elapsed, wall) == elapsed

(* A total of 0 us is replaced by the wall time of the call.                *)
NativeSample(elapsed, wall) == IF elapsed = 0 THEN wall ELSE elapsed

(* swap_stats is read and reset after every activation, so it counts that   *)
(* activation alone; deactivate_for_thread restores the resident context.   *)
Switches(sms) == sms \in SlotSms /\ sms # ResidentSms

ReplayRow(t) ==
  /\ \A u \in Traces : bench[u].status # "pending"
  /\ ~verdict.done /\ replayed[t] < MaxReplayed
  /\ t = "without_ctrl" => replayed["with_ctrl"] = MaxReplayed
  /\ replayed' = [replayed EXCEPT ![t] = @ + 1]
  /\ \E ran \in RanSms, wall \in WallTimes : \E elapsed \in {0} \cup {e \in WallTimes : e <= wall} :
       LET sms == GpuSms - ran
       IN IF sms <= 0 THEN UNCHANGED <<python, native>>
          ELSE /\ python' = [python EXCEPT ![t] = Append(@, wall)]
               /\ native' = IF Switches(sms) THEN [native EXCEPT ![t] = Append(@, NativeSample(elapsed, wall))]
                            ELSE native
  /\ UNCHANGED <<bench, verdict>>

(***************************************************************************)
(* Summaries.  Durations are doubled, so that a median is an integer.      *)
(***************************************************************************)
Sorted(s) == SortSeq(s, LAMBDA a, b : a < b)

(* Mutant: the element at the upper rank.                                   *)
UpperMedian(s) == IF s = <<>> THEN 0 ELSE 2 * Sorted(s)[(Len(s) \div 2) + 1]

(* _percentile at 0.5: interpolated between the two middle ranks.           *)
Median(s) ==
  IF s = <<>> THEN 0
  ELSE Sorted(s)[(Len(s) + 1) \div 2] + Sorted(s)[(Len(s) \div 2) + 1]

Aggregate(samples) == samples["with_ctrl"] \o samples["without_ctrl"]

(* The mean of the benchmarks that ran, doubled.                            *)
BenchMean ==
  LET ok == {t \in Traces : bench[t].status = "ok" /\ bench[t].p50 > 0}
  IN IF ok = {} THEN 0 ELSE (2 * MapThenSumSet(LAMBDA t : bench[t].p50, ok)) \div Cardinality(ok)

(***************************************************************************)
(* The verdict                                                             *)
(***************************************************************************)
(* Mutant: only an isolated time that is too large is refused.              *)
WithinAbove(num, den, factor) == num > 0 /\ den > 0 /\ num <= factor * den

(* A ratio of 0, also for a denominator of 0, is within no factor.          *)
WithinFactor(num, den, factor) ==
  num > 0 /\ den > 0 /\ num <= factor * den /\ den <= factor * num

BenchStatus ==
  LET ok == {t \in Traces : bench[t].status = "ok"}
  IN IF ok = Traces THEN "ok" ELSE IF ok # {} THEN "partial" ELSE "missing"

CrossValidate ==
  /\ replayed["without_ctrl"] = MaxReplayed /\ ~verdict.done
  /\ LET isolated == BenchMean
         inline == Median(Aggregate(native))
         around == Median(Aggregate(python))
         over5 == isolated > 0 /\ ~WithinFactor(isolated, inline, 5)
     IN verdict' = [done |-> TRUE, status |-> BenchStatus,
                    isolated |-> isolated, inline |-> inline, python |-> around,
                    within2 |-> isolated > 0 /\ WithinFactor(isolated, inline, 2),
                    over5 |-> over5,
                    pythonWithin5 |-> around > 0 /\ inline > 0 /\ around <= 5 * inline,
                    skipped |-> isolated = 0,
                    inlineAuthoritative |-> isolated = 0 \/ over5]
  /\ UNCHANGED <<replayed, python, native, bench>>

SwapNext == CollectBench \/ (\E t \in Traces : ReplayRow(t)) \/ CrossValidate

-------------------------------------------------------------------------------
(* A switch is never reported as free and never as longer than the Python   *)
(* call around it, in either trace, though the native clock has whole       *)
(* microseconds; and there are no more switches than activations.           *)
NativeWithinPython ==
  \A t \in Traces :
    /\ Len(native[t]) <= Len(python[t]) /\ Len(python[t]) <= replayed[t]
    /\ native[t] # <<>> =>
         /\ \A i \in 1..Len(native[t]) : native[t][i] > 0
         /\ Max(ToSet(native[t])) <= Max(ToSet(python[t]))

(* A reported median is half way between the least sample with half of the *)
(* samples at or below it and the greatest with half at or above it, over   *)
(* the two traces together.                                                 *)
MediansAreMiddle ==
  verdict.done =>
    \A r \in {<<verdict.inline, Aggregate(native)>>, <<verdict.python, Aggregate(python)>>} :
      LET s == r[2]
          below(x) == Cardinality({i \in 1..Len(s) : s[i] <= x})
          above(x) == Cardinality({i \in 1..Len(s) : s[i] >= x})
      IN s # <<>> => r[1] = Min({x \in ToSet(s) : 2 * below(x) >= Len(s)})
                            + Max({x \in ToSet(s) : 2 * above(x) >= Len(s)})

(* The verdict says one thing: within twice and over five times exclude each *)
(* other, the isolated figure is used only when there is one within five     *)
(* times of the inline one, in either direction, and the check is skipped    *)
(* only without a usable benchmark.                                         *)
VerdictIsConsistent ==
  verdict.done =>
    /\ ~(verdict.within2 /\ verdict.over5)
    /\ ~verdict.inlineAuthoritative =>
         /\ verdict.status # "missing" /\ ~verdict.skipped
         /\ verdict.inline <= 5 * verdict.isolated /\ verdict.isolated <= 5 * verdict.inline
    /\ verdict.status = "missing" => verdict.skipped

(* Native switches lie within the Python calls around them, medians are the    *)
(* middle samples of both traces, and the verdict drawn from them says one     *)
(* thing.                                                                      *)
SwapVerdictIsSound ==
  NativeWithinPython /\ MediansAreMiddle /\ VerdictIsConsistent
===============================================================================
