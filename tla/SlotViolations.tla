----------------------------- MODULE SlotViolations -----------------------------
(***************************************************************************)
(* SM partition violations.  An LDPC trace gives each slot a start and the *)
(* SMs the RAN takes.  ldpc_trace_adapter turns it into the trace of the   *)
(* SMs left to training and reports where the RAN's share grows;           *)
(* validate_traces checks the file; analyze_violations assigns the GEMMs   *)
(* of a run to the slots of a trace (autograd mode) or the steps of a step *)
(* log (ldpreload mode) and finds those that spill into the next one when  *)
(* the SMs of the two together exceed a threshold.                         *)
(***************************************************************************)
EXTENDS Integers, FiniteSets, FiniteSetsExt, SequencesExt

CONSTANTS
  SmCounts,     \* SM counts in the trace
  TotalSms,     \* SMs of the GPU
  MaxSm,        \* --max-sm-count
  ValidSms,     \* VALID_SM_COUNTS
  LastSlotNs,   \* length given to the last slot of a trace
  StepIds,      \* step ids of a step log; those of a trace are its row numbers
  MaxNs,        \* bound on times
  MaxSlots, MaxGemms

VARIABLES
  file,       \* "trace" or "steps"; "none" before the first row
  slots,      \* its rows, in any order: sequence of [step, start, end, sm]
  gemms,      \* GEMM log: sequence of [start, end], in any order
  adapted,    \* [done |-> FALSE], or what the adapter gives
  analysis    \* [done |-> FALSE], or the violation report

slotVars == <<file, slots, gemms, adapted, analysis>>

SlotsInit ==
  /\ file = "none" /\ slots = <<>> /\ gemms = <<>>
  /\ adapted = [done |-> FALSE] /\ analysis = [done |-> FALSE]

(***************************************************************************)
(* The inputs.  Nothing orders the rows of a trace.  Steps take time and   *)
(* do not overlap; their ids may come back.                                *)
(***************************************************************************)
AddRow(kind, row) ==
  /\ file \in {"none", kind} /\ gemms = <<>> /\ ~adapted.done /\ ~analysis.done /\ Len(slots) < MaxSlots
  /\ file' = kind
  /\ slots' = Append(slots, row)
  /\ UNCHANGED <<gemms, adapted, analysis>>

TraceRow ==
  \E t \in 0..MaxNs, sm \in SmCounts :
    AddRow("trace", [step |-> Len(slots), start |-> t, end |-> 0, sm |-> sm])

StepRow ==
  \E s \in 0..MaxNs, sm \in SmCounts, id \in StepIds : \E e \in (s + 1)..MaxNs :
    /\ \A i \in 1..Len(slots) : slots[i].end <= s \/ e <= slots[i].start
    /\ AddRow("steps", [step |-> id, start |-> s, end |-> e, sm |-> sm])

(* The analysis sorts the GEMMs by their start.                             *)
LogGemm ==
  \E s \in 0..MaxNs : \E e \in s..MaxNs :
    /\ slots # <<>> /\ ~adapted.done /\ ~analysis.done /\ Len(gemms) < MaxGemms
    /\ gemms # <<>> => Last(gemms).start <= s
    /\ gemms' = Append(gemms, [start |-> s, end |-> e])
    /\ UNCHANGED <<file, slots, adapted, analysis>>

(***************************************************************************)
(* LdpcTraceAdapter and validate_trace                                     *)
(***************************************************************************)
Effective(sm) == IF sm > TotalSms THEN TotalSms ELSE sm

ToV2 == [i \in 1..Len(slots) |-> [at |-> slots[i].start, sms |-> TotalSms - Effective(slots[i].sm)]]

(* Mutant: rows are compared with the row after.                            *)
DetectNextDeltas(increase) ==
  {i \in 1..(Len(slots) - 1) :
     IF increase THEN slots[i + 1].sm > slots[i].sm ELSE slots[i + 1].sm < slots[i].sm}

(* Rows whose SM count, before clamping, differs from the row before.       *)
DetectDeltas(increase) ==
  {i \in 2..Len(slots) :
     IF increase THEN slots[i].sm > slots[i - 1].sm ELSE slots[i].sm < slots[i - 1].sm}

StartsInOrder(sl) == \A i \in 2..Len(sl) : sl[i - 1].start <= sl[i].start

ValidateTrace ==
  {slots[i].sm : i \in 1..Len(slots)} \subseteq ValidSms /\ StartsInOrder(slots)

Adapt ==
  /\ file = "trace" /\ gemms = <<>> /\ ~adapted.done
  /\ adapted' = [done |-> TRUE, v2 |-> ToV2, valid |-> ValidateTrace,
                 violations |-> DetectDeltas(TRUE), inefficiencies |-> DetectDeltas(FALSE)]
  /\ UNCHANGED <<file, slots, gemms, analysis>>

(***************************************************************************)
(* analyze_violations                                                      *)
(***************************************************************************)
(* parse_trace_boundaries: a slot ends where the next row's starts.          *)
ParseTraceBoundaries ==
  [i \in 1..Len(slots) |->
     [slots[i] EXCEPT !.end = IF i < Len(slots) THEN slots[i + 1].start ELSE slots[i].start + LastSlotNs]]

ParseStepBoundaries == SortSeq(slots, LAMBDA a, b : a.start < b.start)

ParsedSlots == IF file = "trace" THEN ParseTraceBoundaries ELSE ParseStepBoundaries

(* The binary search, whether or not the starts are in order: for ordered   *)
(* ones the number of those up to x.                                        *)
BisectRight(sl, x) ==
  LET search[lo \in 0..Len(sl), hi \in 0..Len(sl)] ==
        LET mid == (lo + hi) \div 2
        IN IF lo >= hi THEN lo
           ELSE IF x < sl[mid + 1].start THEN search[lo, mid]
           ELSE search[mid + 1, hi]
  IN search[0, Len(sl)]

(* Mutant: bisect_left, so a GEMM at a slot's start belongs to the one      *)
(* before.                                                                  *)
SlotBefore(sl, g) == BisectRight(sl, g.start - 1)

(* The slot a GEMM is assigned to; 0 for none.                              *)
SlotOf(sl, g) == BisectRight(sl, g.start)

(* <<slot, GEMM>> for each violation: only the next slot counts.            *)
DetectViolations(sl) ==
  {p \in (1..(Len(sl) - 1)) \X (1..Len(gemms)) :
     /\ sl[p[1]].sm + sl[p[1] + 1].sm > MaxSm
     /\ SlotOf(sl, gemms[p[2]]) = p[1]
     /\ gemms[p[2]].end > sl[p[1] + 1].start}

Overshoot(sl, p) == gemms[p[2]].end - sl[p[1] + 1].start

(* slot_map: the last slot with the step id.                                *)
SlotWithStep(sl, id) == sl[Max({i \in 1..Len(sl) : sl[i].step = id})]

Intervals(sl, vs) ==
  LET next(p) == SlotWithStep(sl, sl[p[1] + 1].step)
  IN {iv \in {<<next(p).start, Min({gemms[p[2]].end, next(p).end})>> : p \in vs} : iv[2] > iv[1]}

Earlier(a, b) == a[1] < b[1] \/ (a[1] = b[1] /\ a[2] < b[2])

(* One step of merging the sorted intervals.                                *)
MergeInterval(m, iv) ==
  IF m # <<>> /\ iv[1] <= Last(m)[2]
  THEN Append(Front(m), <<Last(m)[1], Max({Last(m)[2], iv[2]})>>)
  ELSE Append(m, iv)

(* Mutant: the intervals are added up.                                      *)
ViolationTimeSummed(sl, vs) == MapThenSumSet(LAMBDA iv : iv[2] - iv[1], Intervals(sl, vs))

ViolationTime(sl, vs) ==
  LET merged == FoldLeft(MergeInterval, <<>>, SetToSortSeq(Intervals(sl, vs), Earlier))
  IN MapThenSumSet(LAMBDA i : merged[i][2] - merged[i][1], 1..Len(merged))

AnalyzeViolations ==
  LET sl == ParsedSlots
      vs == DetectViolations(sl)
  IN /\ Len(slots) >= 2 /\ ~analysis.done /\ ~adapted.done
     /\ analysis' = [done |-> TRUE, slots |-> sl, violations |-> vs, time |-> ViolationTime(sl, vs),
                     overshoot |-> MapThenSumSet(LAMBDA p : Overshoot(sl, p), vs)]
     /\ UNCHANGED <<file, slots, gemms, adapted>>

SlotsNext == TraceRow \/ StepRow \/ LogGemm \/ Adapt \/ AnalyzeViolations

-------------------------------------------------------------------------------
(* Wherever the converted trace takes SMs from training, the adapter        *)
(* reports a violation, and wherever it gives some back, an inefficiency;   *)
(* clamping to the GPU's SMs hides none, and no row is both.                *)
ShrinkIsReported ==
  adapted.done =>
    /\ \A i \in 2..Len(slots) :
         /\ adapted.v2[i].sms < adapted.v2[i - 1].sms => i \in adapted.violations
         /\ adapted.v2[i].sms > adapted.v2[i - 1].sms => i \in adapted.inefficiencies
    /\ adapted.violations \cap adapted.inefficiencies = {}
    /\ \A i \in 1..Len(slots) : adapted.v2[i].sms \in 0..TotalSms

(* The reported violation time is the time during which some GEMM of a slot *)
(* runs in the next one over the threshold, overlapping violations counting *)
(* once, when the starts are in order (a trace validate_traces accepts, any *)
(* step log) and no step id is repeated.  A repeated id moves the time to   *)
(* the last slot that has it; what is reported is then still time that a    *)
(* violating GEMM ran past its slot, and no more than the added overshoots. *)
ViolationTimeIsUnion ==
  analysis.done /\ StartsInOrder(analysis.slots) =>
    LET sl == analysis.slots
        spilling(t, p) == sl[p[1] + 1].start <= t /\ t < gemms[p[2]].end
        times == 0..(MaxNs + LastSlotNs)
    IN /\ Cardinality({sl[i].step : i \in 1..Len(sl)}) = Len(sl)
            => analysis.time = Cardinality({t \in times : \E p \in analysis.violations :
                                              spilling(t, p) /\ t < sl[p[1] + 1].end})
       /\ analysis.time <= Cardinality({t \in times : \E p \in analysis.violations : spilling(t, p)})
       /\ analysis.time <= analysis.overshoot

(* With the starts in order, every GEMM that starts in a slot and runs into *)
(* the next, when the two slots' SMs exceed the threshold, is reported, and *)
(* for one boundary only.  A GEMM between two steps belongs to the first.   *)
SpillsFound ==
  analysis.done /\ StartsInOrder(analysis.slots) =>
    LET sl == analysis.slots
    IN /\ \A j \in 1..Len(gemms) : \A i \in 1..(Len(sl) - 1) :
            (/\ sl[i].start <= gemms[j].start /\ gemms[j].start < sl[i + 1].start
             /\ gemms[j].end > sl[i + 1].start /\ sl[i].sm + sl[i + 1].sm > MaxSm)
            <=> <<i, j>> \in analysis.violations
       /\ \A p, q \in analysis.violations : p[2] = q[2] => p = q

(* The adapter reports each loss of SMs; where the starts are in order the     *)
(* analysis reports each GEMM that spills over a slot boundary, and its        *)
(* violation time counts overlapping ones once.                                *)
ViolationsAreExact ==
  ShrinkIsReported /\ ViolationTimeIsUnion /\ SpillsFound
===============================================================================
