---------------------------- MODULE VirtualTimeLogs ----------------------------
(***************************************************************************)
(* The virtual time logs and the scripts that work on them: devices append *)
(* to their logs, merge_perf_logs merges the logs, sync_virtual_time       *)
(* shifts the merged log so that each GEMM's COMPUTE phases start together,*)
(* verify_sync_correctness and analyze_sync compare the two files, and     *)
(* compare_sync_strategies studies the offsets.                            *)
(* A line is a record; "vs" and "ve" are the virtual times of a VTIME line *)
(* and the epochs of a throughput line.                                    *)
(***************************************************************************)
EXTENDS Integers, FiniteSets, FiniteSetsExt, Functions, SequencesExt, TLC

CONSTANTS
  LogDevices,   \* device ids
  Gemms,        \* GEMM ids
  MaxVt,        \* bound on virtual times
  MaxLines,     \* bound on the lines of the devices' logs
  MaxOther      \* bound on the lines among them that are not of a COMPUTE phase

VARIABLES
  wall,      \* the devices' wall clock
  logs,      \* device |-> perf_device log
  merged,    \* perf_merged.log; <<>> when there is none
  synced,    \* perf_merged_synced.log; <<>> when there is none
  method,    \* baseline the synced log was written with
  report     \* what the last tool found in these two files

logVars == <<wall, logs, merged, synced, method, report>>

NONE == -1
Header == [kind |-> "header", ts |-> 0]
IsVtime(e) == e.kind = "vtime"
IsCompute(e) == IsVtime(e) /\ e.phase = "COMPUTE"
IsStart(e) == IsCompute(e) /\ e.event = "START"
Events(s) == SelectSeq(s, LAMBDA e : e.kind # "header")
Vtimes(s) == SelectSeq(s, IsVtime)
Computes(s) == SelectSeq(s, IsCompute)
Starts(s) == SelectSeq(s, IsStart)
MapSeq(f(_), s) == [i \in 1..Len(s) |-> f(s[i])]

(* For the mutant of MergeLogs.                                             *)
SortReversingTies(s, key(_)) ==
  LET keys == SetToSortSeq({key(e) : e \in ToSet(s)}, <)
  IN FlattenSeq(MapSeq(LAMBDA k : Reverse(SelectSeq(s, LAMBDA e : key(e) = k)), keys))

(* list.sort, which is stable.                                              *)
StableSort(s, key(_)) ==
  LET keys == SetToSortSeq({key(e) : e \in ToSet(s)}, <)
  IN FlattenSeq(MapSeq(LAMBDA k : SelectSeq(s, LAMBDA e : key(e) = k), keys))

LogsInit ==
  /\ wall = 1 /\ logs = [d \in LogDevices |-> <<>>]
  /\ merged = <<>> /\ synced = <<>> /\ method = "none" /\ report = << >>

(***************************************************************************)
(* The devices: a phase writes a START line and an END line with the same  *)
(* start, several of one GEMM may overlap, and throughput lines come in    *)
(* between.  "COMPUTE" is the phase the scripts look for, "DOWNLOAD"       *)
(* stands for the others.  The wall clock of a line may equal the one      *)
(* before.  The scripts run once the devices have stopped, and each once:  *)
(* the state they leave depends on the logs alone.                         *)
(***************************************************************************)
Written == MapThenSumSet(LAMBDA d : Len(logs[d]), LogDevices)

Running == merged = <<>> /\ Written < MaxLines

WriteLine(d, line) ==
  /\ wall' \in {wall, wall + Min({1, Written})}
  /\ logs' = [logs EXCEPT ![d] = Append(@, [line EXCEPT !.ts = wall'])]
  /\ UNCHANGED <<merged, synced, method, report>>

(* Virtual time does not go back on a device.                               *)
VtNow(d) == IF logs[d] = <<>> THEN 0 ELSE Last(logs[d]).ve

Others == MapThenSumSet(LAMBDA d : Len(logs[d]) - Len(Computes(logs[d])), LogDevices)

LogStart(d) ==
  /\ Running
  /\ \E p \in {"COMPUTE"} \cup (IF Others < MaxOther THEN {"DOWNLOAD"} ELSE {}),
       g \in Gemms, v \in VtNow(d)..MaxVt :
       WriteLine(d, [kind |-> "vtime", ts |-> 0, dev |-> d, gemm |-> g, phase |-> p, event |-> "START",
                     vs |-> v, ve |-> v])

Unfinished(d) ==
  {e \in ToSet(Vtimes(logs[d])) :
     /\ e.event = "START"
     /\ ~\E x \in ToSet(Vtimes(logs[d])) :
          x.event = "END" /\ x.gemm = e.gemm /\ x.phase = e.phase /\ x.vs = e.vs}

LogEnd(d) ==
  /\ Running
  /\ \E e \in Unfinished(d), v \in VtNow(d)..MaxVt : WriteLine(d, [e EXCEPT !.event = "END", !.ve = v])

LogThroughput(d) ==
  /\ Running /\ Others < MaxOther
  /\ \E g \in Gemms, v \in VtNow(d)..MaxVt :
       WriteLine(d, [kind |-> "throughput", ts |-> 0, dev |-> d, gemm |-> g, vs |-> VtNow(d), ve |-> v])

(***************************************************************************)
(* merge_perf_logs                                                         *)
(***************************************************************************)
LogFiles == SetToSortSeq(LogDevices, <)

(* Mutant: lines of one timestamp come out in reverse.                      *)
MergeLogsReversed ==
  SortReversingTies(<<Header>> \o FlattenSeq(MapSeq(LAMBDA d : logs[d], LogFiles)), LAMBDA e : e.ts)

MergeLogs == StableSort(<<Header>> \o FlattenSeq(MapSeq(LAMBDA d : logs[d], LogFiles)), LAMBDA e : e.ts)

Merge ==
  /\ merged = <<>>
  /\ merged' = MergeLogs
  /\ report' = << >>
  /\ UNCHANGED <<wall, logs, synced, method>>

(***************************************************************************)
(* sync_virtual_time                                                       *)
(***************************************************************************)
(* GEMM |-> device |-> virtual start of its last COMPUTE START.             *)
FindComputeStartTimes(s) ==
  LET of(g) == SelectSeq(Starts(s), LAMBDA e : e.gemm = g)
      at(g, d) == SelectSeq(of(g), LAMBDA e : e.dev = d)
  IN [g \in {e.gemm : e \in ToSet(Starts(s))} |->
        [d \in {e.dev : e \in ToSet(of(g))} |-> Last(at(g, d)).vs]]

Baseline(times, m) == IF m = "earliest" THEN Min(Range(times)) ELSE Max(Range(times))

DeviceOffsets(times, m) == [d \in DOMAIN times |-> Baseline(times, m) - times[d]]

CalculateOffsets(starts, m) == [g \in DOMAIN starts |-> DeviceOffsets(starts[g], m)]

OffsetOf(offsets, e) ==
  IF e.gemm \in DOMAIN offsets /\ e.dev \in DOMAIN offsets[e.gemm] THEN offsets[e.gemm][e.dev] ELSE 0

(* Mutant: only a line's start is moved.                                    *)
ShiftStart(e, by) == IF IsVtime(e) \/ e.vs > 0 THEN [e EXCEPT !.vs = @ + by] ELSE e

(* Epochs that are not positive are taken for missing.                      *)
Shift(e, by) ==
  LET moved(t) == IF IsVtime(e) \/ t > 0 THEN t + by ELSE t
  IN [e EXCEPT !.vs = moved(@), !.ve = moved(@)]

(* Mutant: the earliest end is taken for the earliest start.                *)
MinPositiveEnd(s) ==
  LET ends == {e.ve : e \in ToSet(s)} \ (-MaxVt..0)
  IN IF ends = {} THEN 0 ELSE Min(ends)

MinPositive(s) ==
  LET vs == {e.vs : e \in ToSet(s)} \ (-MaxVt..0)
  IN IF vs = {} THEN 0 ELSE Min(vs)

(* Mutant: the offsets are printed and not applied.                         *)
AdjustNothing(s, offsets) == s

Adjust(s, offsets) == MapSeq(LAMBDA e : Shift(e, OffsetOf(offsets, e)), s)

(* The VTIME lines, then the throughput lines.                              *)
ApplyOffsets(s, offsets) ==
  LET adjusted == Adjust(Vtimes(s) \o SelectSeq(Events(s), LAMBDA e : ~IsVtime(e)), offsets)
      first == MinPositive(adjusted)
  IN MapSeq(LAMBDA e : Shift(e, -first), adjusted)

WriteSynchronizedLog(s) == StableSort(<<Header>> \o s, LAMBDA e : e.ts)

SyncLog(s, m) == WriteSynchronizedLog(ApplyOffsets(s, CalculateOffsets(FindComputeStartTimes(s), m)))

Sync(m) ==
  /\ merged # <<>> /\ synced = <<>>
  /\ synced' = SyncLog(merged, m)
  /\ method' = m
  /\ report' = << >>
  /\ UNCHANGED <<wall, logs, merged>>

(***************************************************************************)
(* verify_sync_correctness and analyze_sync, given the two logs.           *)
(***************************************************************************)
(* analyze_gemm: all devices of a GEMM start together.                      *)
AnalyzeGemm(before, after, g) ==
  Cardinality({after[g][d] : d \in DOMAIN before[g]}) = 1

(* Only the first five ids below the number of GEMMs with a VTIME line are  *)
(* looked at.                                                               *)
Detailed(s) ==
  {g \in DOMAIN FindComputeStartTimes(s) : g < Min({5, Cardinality({e.gemm : e \in ToSet(Vtimes(s))})})}

VerifySync ==
  LET before == FindComputeStartTimes(merged)
      after == FindComputeStartTimes(synced)
  IN /\ merged # <<>> /\ synced # <<>>
     /\ report' = [tool |-> "verify", good |-> {g \in Detailed(merged) : AnalyzeGemm(before, after, g)}]
     /\ UNCHANGED <<wall, logs, merged, synced, method>>

(* Mutant: the end of the last COMPUTE line.                                *)
LastVtEnds(s) ==
  LET at(g, d) == SelectSeq(Computes(s), LAMBDA e : e.gemm = g /\ e.dev = d)
  IN [g \in {e.gemm : e \in ToSet(Computes(s))} |->
        [d \in {e.dev : e \in {x \in ToSet(Computes(s)) : x.gemm = g}} |-> Last(at(g, d)).ve]]

(* organize_by_gemm: the last COMPUTE line of a device, START or END.       *)
LastVtStarts(s) ==
  LET at(g, d) == SelectSeq(Computes(s), LAMBDA e : e.gemm = g /\ e.dev = d)
  IN [g \in {e.gemm : e \in ToSet(Computes(s))} |->
        [d \in {e.dev : e \in {x \in ToSet(Computes(s)) : x.gemm = g}} |-> Last(at(g, d)).vs]]

Spread(times) == Max(Range(times)) - Min(Range(times))

(* calculate_sync_metrics; the threshold of 100 us is below one unit here,  *)
(* and print_comparison divides by the number of GEMMs.                     *)
AnalyzeSync ==
  LET before == LastVtStarts(merged)
      after == LastVtStarts(synced)
  IN /\ merged # <<>> /\ synced # <<>>
     /\ report' = [tool |-> "analyze", raises |-> DOMAIN before = {},
                   good |-> {g \in DOMAIN before :
                               Spread([d \in DOMAIN before[g] |-> after[g][d]]) < 1}]
     /\ UNCHANGED <<wall, logs, merged, synced, method>>

(***************************************************************************)
(* compare_sync_strategies.  The guard of a START looks GEMMs up among the *)
(* devices, and leaves an empty entry where it looked.                     *)
(***************************************************************************)
ParseComputeTimes(s) ==
  LET none == [x \in {} |-> 0]
      entry(t, g) == IF g \in DOMAIN t THEN t[g] ELSE none
      put(t, g, d, v) == (g :> ((d :> v) @@ entry(t, g))) @@ t
      step(t, e) ==
        CASE ~IsCompute(e) -> t
          [] IsStart(e) ->
               LET looked == (e.dev :> entry(t, e.dev)) @@ t
               IN IF e.gemm \in DOMAIN entry(t, e.dev) THEN looked
                  ELSE put(looked, e.gemm, e.dev, <<e.vs, NONE>>)
          [] OTHER ->
               put(t, e.gemm, e.dev,
                   <<IF e.dev \in DOMAIN entry(t, e.gemm) THEN t[e.gemm][e.dev][1] ELSE NONE, e.ve>>)
  IN FoldLeft(step, none, s)

(* Mutant: devices that only have an END line count from 0.                 *)
AnalyzeAllDevices(times) ==
  LET starts(g) == [d \in DOMAIN times[g] |-> IF times[g][d][1] = NONE THEN 0 ELSE times[g][d][2]]
      known == {g \in DOMAIN times : DOMAIN starts(g) # {}}
  IN [g \in known |-> [earliest |-> DeviceOffsets(starts(g), "earliest"),
                       latest |-> DeviceOffsets(starts(g), "latest")]]

AnalyzeStrategies(times) ==
  LET starts(g) == LET ds == {d \in DOMAIN times[g] : times[g][d][1] # NONE}
                   IN [d \in ds |-> times[g][d][1]]
      known == {g \in DOMAIN times : DOMAIN starts(g) # {}}
  IN [g \in known |-> [earliest |-> DeviceOffsets(starts(g), "earliest"),
                       latest |-> DeviceOffsets(starts(g), "latest")]]

CompareSync ==
  /\ merged # <<>> /\ synced = <<>>
  /\ report' = [tool |-> "compare", strategies |-> AnalyzeStrategies(ParseComputeTimes(merged))]
  /\ UNCHANGED <<wall, logs, merged, synced, method>>

LogsNext ==
  \/ \E d \in LogDevices : LogStart(d) \/ LogEnd(d) \/ LogThroughput(d)
  \/ Merge
  \/ \E m \in {"earliest", "latest"} : Sync(m)
  \/ VerifySync \/ AnalyzeSync \/ CompareSync

-------------------------------------------------------------------------------
(* The merged log has the lines of every device in the order the device     *)
(* wrote them, between them in the order of the wall clock, headers first.  *)
MergeKeepsOrder ==
  merged # <<>> =>
    /\ merged[1] = Header
    /\ \A i \in 2..Len(merged) : merged[i - 1].ts <= merged[i].ts
    /\ \A d \in LogDevices : SelectSeq(Events(merged), LAMBDA e : e.dev = d) = logs[d]

(* What verify_sync_correctness says of a log just synchronized: the        *)
(* devices of each GEMM it looks at start together, with either baseline    *)
(* and however many computations of the GEMM a device made.                 *)
SyncAligns ==
  report # << >> /\ report.tool = "verify"
    => report.good = Detailed(merged)

(* Synchronization moves the virtual times of a GEMM on a device together:  *)
(* no duration and no interval between its events changes.  With the latest *)
(* start as the baseline its throughput epochs move along.                  *)
OfKind(s, kind) == SelectSeq(s, LAMBDA e : e.kind = kind)

Moves(kind) ==
  LET ins == OfKind(merged, kind)
      outs == OfKind(synced, kind)
  IN {[of |-> <<ins[i].gemm, ins[i].dev>>, by |-> <<outs[i].vs - ins[i].vs, outs[i].ve - ins[i].ve>>] :
        i \in {j \in 1..Len(ins) : kind = "vtime" \/ ins[j].vs > 0}}

ShiftsTogether ==
  synced # <<>> =>
    LET moves == Moves("vtime") \cup (IF method = "latest" THEN Moves("throughput") ELSE {})
    IN \A a, b \in moves : a.of = b.of => a.by[1] = b.by[2]

(* A synchronized log starts at 0, as far as it does: to the latest start,  *)
(* it has 0 as its earliest time when no time was 0 before, and only a line *)
(* that was at 0 before gets a negative one; with either baseline a GEMM's  *)
(* common start is negative only when a device had started it at 0.  Only   *)
(* positive times take part in the minimum that is subtracted.              *)
StartsAtZero ==
  synced # <<>> /\ Events(merged) # <<>> =>
    LET before == FindComputeStartTimes(merged)
        after == FindComputeStartTimes(synced)
        ins == Vtimes(merged)
        outs == Vtimes(synced)
    IN /\ method = "latest" /\ (\A e \in ToSet(Events(merged)) : e.vs > 0)
            => Min({e.vs : e \in ToSet(Events(synced))}) = 0
       /\ method = "latest" => \A i \in 1..Len(outs) : outs[i].vs < 0 => ins[i].vs = 0
       /\ \A g \in DOMAIN after : Min(Range(after[g])) < 0 => Min(Range(before[g])) = 0

(* analyze_sync, which takes the last COMPUTE line of a device, agrees that *)
(* a log just synchronized is so, when no device computes a GEMM twice.     *)
AnalysisAgrees ==
  /\ report # << >> /\ report.tool = "analyze" /\ Starts(merged) # <<>>
  /\ \A i, j \in 1..Len(Starts(merged)) :
       LET a == Starts(merged)[i]
           b == Starts(merged)[j]
       IN a.gemm = b.gemm /\ a.dev = b.dev => i = j
  => ~report.raises /\ report.good = DOMAIN FindComputeStartTimes(merged)

(* The strategy comparison studies the offsets synchronization applies,     *)
(* unless a device g computes a GEMM d and a device d the GEMM g, which its *)
(* guard takes for a repetition.                                            *)
ComparisonAgrees ==
  LET starts == FindComputeStartTimes(merged)
  IN /\ report # << >> /\ report.tool = "compare"
     /\ \A g, h \in DOMAIN starts : g \in DOMAIN starts[h] => h \notin DOMAIN starts[g]
     => report.strategies = [g \in DOMAIN starts |->
                               [earliest |-> CalculateOffsets(starts, "earliest")[g],
                                latest |-> CalculateOffsets(starts, "latest")[g]]]

(* Merging keeps every device's order; synchronizing moves a device's lines of *)
(* a GEMM together, aligns the devices and starts at 0 where it can; the      *)
(* verifier, the analysis and the comparison say so of the same log.          *)
SyncIsSound ==
  MergeKeepsOrder /\ SyncAligns /\ ShiftsTogether /\ StartsAtZero /\ AnalysisAgrees /\ ComparisonAgrees
===============================================================================
