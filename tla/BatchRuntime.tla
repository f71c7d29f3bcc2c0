------------------------------ MODULE BatchRuntime ------------------------------
(***************************************************************************)
(* The runtime of a batch: compute_batch_runtime charges the phases of the *)
(* manifest's entries (measured in a VTIME log, or computed from device    *)
(* profiles) to devices, levels and pipeline stages, and                   *)
(* run_within_batch_experiment overlays a trace of device rates.  Rates    *)
(* are halves (FullRate is 1.0); Unit is such that every quotient below is *)
(* exact.                                                                  *)
(***************************************************************************)
EXTENDS Integers, FiniteSets, FiniteSetsExt, Functions, SequencesExt

CONSTANTS
  BatchDevices, BatchGemms, Levels, Stages,
  Kinds,        \* parallelism types of entries
  Phases,       \* phases the log measures
  Profiles,     \* device |-> flops, ul_bw and dl_bw; 0 where the device config has none
  Baselines,    \* "cleave", "dtfm" (with a pipeline overlay), others without
  Options,      \* what command line and manifest override, 0 where they do not:
                \* pp_size, num_microbatches, group_size and the bandwidth
  Groups,       \* group ids of collectives
  MaxEntries, MaxEvents

VARIABLES
  baseline,   \* --baseline-type
  options,    \* the overrides in force
  entries,    \* manifest: sequence of dispatch entries
  events,     \* END events of the VTIME log: sequence of [gemm, phase]
  rates,      \* within-batch trace: device |-> bin |-> [flops, link]
  batch       \* what was computed; [done |-> FALSE] before

batchVars == <<baseline, options, entries, events, rates, batch>>

Unit == 60
FullRate == 2
NumBins == 2
OptimizerTail == Unit
AllreduceTypes == {"dp_allreduce", "tp_allreduce"}
MaxOr0(S) == IF S = {} THEN 0 ELSE Max(S)
SumOver(S, f(_)) == MapThenSumSet(f, S)

Bins == 0..(NumBins - 1)

(* A bin of a within-batch trace: nominal, throttled (which slows the link   *)
(* too), or with a link that drifted up.                                    *)
AtFull == [flops |-> FullRate, link |-> FullRate]
Throttled == [flops |-> 1, link |-> 1]
Drifted == [flops |-> FullRate, link |-> 3]

Nominal == [d \in BatchDevices |-> [b \in Bins |-> AtFull]]

BatchInit ==
  /\ baseline = "none" /\ options = [pp |-> 0, mb |-> 0, k |-> 0, bw |-> 0] /\ entries = <<>> /\ events = <<>>
  /\ rates = Nominal /\ batch = [done |-> FALSE]

(***************************************************************************)
(* Inputs.  A baseline's manifest has its entries level by level; only     *)
(* collectives have a group id.  GEMM and group ids are only compared with *)
(* each other, so they are given in the order of their first use.          *)
(***************************************************************************)
AddEntry ==
  \E g \in BatchGemms, l \in Levels, d \in BatchDevices, t \in Kinds, s \in Stages, c \in Groups :
    /\ ~batch.done /\ events = <<>> /\ Len(entries) < MaxEntries
    /\ IF baseline = "cleave" THEN s = 0 ELSE t # "cleave_tp"
    /\ t \notin AllreduceTypes => c = 0
    /\ g <= Len(entries) /\ c <= Len(entries)
    /\ entries # <<>> => Last(entries).level <= l
    /\ entries' = Append(entries, [gemm |-> g, level |-> l, dev |-> d, type |-> t, stage |-> s,
                                   group |-> c])
    /\ UNCHANGED <<baseline, options, events, rates, batch>>

LogEvent ==
  \E g \in BatchGemms, p \in Phases :
    /\ ~batch.done /\ entries # <<>> /\ Len(events) < MaxEvents
    /\ events' = Append(events, [gemm |-> g, phase |-> p])
    /\ UNCHANGED <<baseline, options, entries, rates, batch>>

(***************************************************************************)
(* Phases of an entry.                                                     *)
(***************************************************************************)
NumLevels(es) == Max({e.level : e \in ToSet(es)}) + 1

(* Batch progress level / num_levels picks the bin.                         *)
Bin(level, n) == IF n <= 1 THEN 0 ELSE Min({NumBins - 1, (level * NumBins) \div n})

(* All phases measured for the GEMM, by whichever device, go to the entry.  *)
VtimePhase(g, p) == Unit * Cardinality({i \in 1..Len(events) : events[i] = [gemm |-> g, phase |-> p]})

(* An entry's work is Unit over each rate; without a rate the phase is 0.   *)
Over(rate) == IF rate > 0 THEN Unit \div rate ELSE 0

AnalyticalPhase(d, p) ==
  CASE p = "COMPUTE" -> Over(Profiles[d].flops)
    [] p = "DOWNLOAD" -> Over(Profiles[d].dl_bw)
    [] p = "UPLOAD" -> Over(Profiles[d].ul_bw)
    [] OTHER -> 0

PhaseOf(e, p) == IF events # <<>> THEN VtimePhase(e.gemm, p) ELSE AnalyticalPhase(e.dev, p)

Scaled(e, p, n, r) ==
  LET at == r[e.dev][Bin(e.level, n)]
  IN CASE p = "COMPUTE" -> (PhaseOf(e, p) * FullRate) \div at.flops
       [] p \in {"DOWNLOAD", "UPLOAD"} -> (PhaseOf(e, p) * FullRate) \div at.link
       [] OTHER -> PhaseOf(e, p)

Transfer(e, n, r) == SumOver({"SEND", "DOWNLOAD", "UPLOAD", "RECEIVE"}, LAMBDA p : Scaled(e, p, n, r))

(* What an entry costs its device, its level and its stage.                 *)
EntryTime(e, n, r) ==
  LET phase(p) == Scaled(e, p, n, r)
  IN CASE baseline = "cleave" /\ e.type = "cleave_tp" ->
            Max({phase("DOWNLOAD"), phase("COMPUTE"), phase("UPLOAD")}) + phase("SEND") + phase("RECEIVE")
       [] baseline # "cleave" /\ e.type \in {"pp_local", "pp_boundary"} ->
            phase("COMPUTE") + Transfer(e, n, r)
       [] OTHER -> 0

(***************************************************************************)
(* Collectives: devices with the same type, level, stage and group id.     *)
(***************************************************************************)
Group(e, es) ==
  {x.dev : x \in {y \in ToSet(es) : /\ y.type = e.type /\ y.level = e.level
                                    /\ y.stage = e.stage /\ y.group = e.group}}

(* The bandwidth given, or the slowest link of the group's devices; 0 when  *)
(* none is known.                                                           *)
GroupBandwidth(group) ==
  LET known == {d \in group : Profiles[d].ul_bw > 0 /\ Profiles[d].dl_bw > 0}
  IN IF options.bw > 0 THEN options.bw
     ELSE IF known = {} THEN 0
     ELSE Min({Profiles[d].ul_bw : d \in known} \cup {Profiles[d].dl_bw : d \in known})

(* 2 (k - 1) / k * bytes / bandwidth, k being the size given or the group's. *)
AllreduceTime(group) ==
  LET k == IF options.k > 0 THEN options.k ELSE Cardinality(group)
  IN IF k <= 1 THEN 0 ELSE (2 * (k - 1) * Over(GroupBandwidth(group))) \div k

Allreduce(e, es) == IF e.type \in AllreduceTypes THEN AllreduceTime(Group(e, es)) ELSE 0

(***************************************************************************)
(* compute_batch_runtime                                                   *)
(***************************************************************************)
(* Every entry's time and collective, at the places that satisfy where(e).  *)
Charged(es, r, where(_)) ==
  SumOver({i \in 1..Len(es) : where(es[i])},
          LAMBDA i : EntryTime(es[i], NumLevels(es), r) + Allreduce(es[i], es))

(* Entries whose GEMM the log does not have, and under "cleave" those of     *)
(* another type, open no level and no stage.                                *)
Opens(e, es) ==
  \/ baseline = "cleave" /\ e.type = "cleave_tp" /\ (events # <<>> => \E ev \in ToSet(events) : ev.gemm = e.gemm)
  \/ baseline # "cleave" /\ (events # <<>> => \E ev \in ToSet(events) : ev.gemm = e.gemm)
  \/ Allreduce(e, es) > 0

(* Mutant: a level takes as long as its devices on average.                 *)
LevelTimeMean(l, es, r) ==
  Charged(es, r, LAMBDA e : e.level = l) \div Max({1, Cardinality({e.dev : e \in {x \in ToSet(es) : x.level = l}})})

(* A level takes as long as its slowest device.                             *)
LevelTime(l, es, r) ==
  MaxOr0({Charged(es, r, LAMBDA e : e.level = l /\ e.dev = d) : d \in BatchDevices})

LevelsOf(es) == {e.level : e \in {x \in ToSet(es) : Opens(x, es)}}

StageBottleneck(es, r) ==
  MaxOr0({Charged(es, r, LAMBDA e : e.stage = s /\ e.dev = d) : s \in Stages, d \in BatchDevices})

(* Pipeline size and microbatches as given, or inferred from the entries.   *)
NumStages(es) == Cardinality({e.stage : e \in ToSet(es)})
PpSize(es) == IF options.pp > 0 THEN options.pp ELSE NumStages(es)
NumMicrobatches == IF options.mb > 0 THEN options.mb ELSE 1

(* Mutant: one pass of the slowest stage per microbatch, without the bubble. *)
PipelineTimeNoBubble(es, r) == NumMicrobatches * StageBottleneck(es, r)

(* 1F1B: the slowest stage once per microbatch, and the bubble.             *)
PipelineTime(es, r) == (NumMicrobatches + PpSize(es) - 1) * StageBottleneck(es, r)

UsesPipelineOverlay(es) == baseline = "dtfm" \/ PpSize(es) > 1

TotalRuntime(es, r) ==
  LET levels == SumOver(LevelsOf(es), LAMBDA l : LevelTime(l, es, r))
  IN IF baseline = "cleave" THEN levels + OptimizerTail
     ELSE IF UsesPipelineOverlay(es) THEN PipelineTime(es, r)
     ELSE levels

DeviceTime(d, es, r) == Charged(es, r, LAMBDA e : e.dev = d)

(***************************************************************************)
(* run_within_batch_experiment                                             *)
(***************************************************************************)
LevelDevices(l, es) == {e.dev : e \in {x \in ToSet(es) : x.level = l}}

LevelRates(l, es, r) ==
  SumOver(LevelDevices(l, es), LAMBDA d : LET at == r[d][Bin(l, NumLevels(es))] IN Min({at.flops, at.link}))

(* Mutant: the rates are added up.                                          *)
InflatedBySum(t, l, es, r) == (t * FullRate) \div LevelRates(l, es, r)

(* A level's nominal time over the mean rate of its devices.                *)
Inflated(t, l, es, r) == (t * FullRate * Cardinality(LevelDevices(l, es))) \div LevelRates(l, es, r)

(* CLEAVE's runtime when work is moved in proportion to the current rates.  *)
CleaveReweighted(es, r) ==
  SumOver(LevelsOf(es), LAMBDA l : Inflated(LevelTime(l, es, Nominal), l, es, r)) + OptimizerTail

BatchStart ==
  /\ baseline = "none"
  /\ baseline' \in Baselines /\ options' \in Options
  /\ UNCHANGED <<entries, events, rates, batch>>

(* One baseline at magnitude 0 and at the trace's magnitude.                *)
RunBatch ==
  /\ entries # <<>> /\ ~batch.done
  /\ \E changed \in SUBSET {e.dev : e \in ToSet(entries)}, when \in Bins, to \in {Throttled, Drifted} :
       rates' = [d \in BatchDevices |-> [b \in Bins |-> IF d \in changed /\ b = when THEN to ELSE AtFull]]
  /\ batch' = [done |-> TRUE,
               nominal |-> TotalRuntime(entries, Nominal),
               runtime |-> IF baseline = "cleave" THEN CleaveReweighted(entries, rates')
                           ELSE TotalRuntime(entries, rates'),
               busy |-> SumOver(BatchDevices, LAMBDA d : DeviceTime(d, entries, Nominal)),
               devices |-> Cardinality({e.dev : e \in ToSet(entries)})]
  /\ UNCHANGED <<baseline, options, entries, events>>

BatchNext == BatchStart \/ (baseline # "none" /\ (AddEntry \/ LogEvent \/ RunBatch))

-------------------------------------------------------------------------------
(* No device is charged more than the batch takes: the idle fraction that   *)
(* _idle_fraction cuts off at 0 is not negative, whether levels are added   *)
(* up or a device works in several stages of the pipeline.  A --pp-size     *)
(* below the stages of the manifest breaks this, unless the microbatches    *)
(* make up for the missing stages.                                          *)
BusyWithinBatch ==
  batch.done /\ (baseline = "dtfm" => NumMicrobatches + PpSize(entries) - 1 >= NumStages(entries)) =>
    /\ \A d \in BatchDevices : DeviceTime(d, entries, Nominal) <= batch.nominal
    /\ batch.busy <= batch.devices * batch.nominal

(* More work never makes the batch shorter: without any one of its entries  *)
(* it takes no longer, as long as the pipeline overlay is used for both or  *)
(* for neither.  A collective grows with its members.                       *)
MoreWorkTakesLonger ==
  batch.done =>
    \A i \in 1..Len(entries) :
      LET fewer == RemoveAt(entries, i)
      IN fewer # <<>> /\ UsesPipelineOverlay(fewer) = UsesPipelineOverlay(entries)
           => TotalRuntime(fewer, Nominal) <= batch.nominal

(* A trace lengthens the batch by no more than its slowest rate and         *)
(* shortens it by no more than its fastest: the phases of the entries, and  *)
(* the levels that CLEAVE's reweighting inflates, stay between the two.     *)
SlowdownBounded ==
  batch.done =>
    LET seen == {FullRate} \cup UNION {{rates[d][b].flops, rates[d][b].link} : d \in BatchDevices, b \in Bins}
    IN /\ batch.runtime * Min(seen) <= batch.nominal * FullRate
       /\ batch.nominal * FullRate <= batch.runtime * Max(seen)

(* The batch runtime accounts for its work: no device is busier than the      *)
(* batch is long, more entries never shorten it, and a trace changes it by no *)
(* more than its extreme rates (compute_batch_runtime,                        *)
(* _cleave_reweighted_runtime).                                               *)
BatchTimeIsSound ==
  BusyWithinBatch /\ MoreWorkTakesLonger /\ SlowdownBounded
===============================================================================
