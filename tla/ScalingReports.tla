------------------------------ MODULE ScalingReports ------------------------------
(***************************************************************************)
(* The multi-coordinator scaling experiment above the level of one run:    *)
(* the plan built from the command line, the result of each rank and of    *)
(* each run, and the summaries, written mode by mode at the end.  A run    *)
(* itself, with its processes, is module MultiCoordinator.  Times are in   *)
(* nanoseconds and rates pairs <<numerator, denominator>>.  The figure     *)
(* script reads the summaries afterwards.                                  *)
(***************************************************************************)
EXTENDS Integers, Sequences, FiniteSets, SequencesExt, FiniteSetsExt

CONSTANTS Measurements,   \* what a rank may measure: phase times and losses
          ModeLists       \* values of --modes

VARIABLES
  modes, iterations, tiny,   \* the command line
  runs,                      \* the plan
  results,                   \* global results so far
  reports,                   \* file |-> "none", "stale" (of an earlier invocation) or "new"
  ended,                     \* "no", "done" or "failed"
  figure                     \* "none", "drawn" or "refused" by coord_scaling_plot

reportVars == <<modes, iterations, tiny, runs, results, reports, ended, figure>>

Modes == {"strong", "weak"}
ReportFiles == Modes \cup {"breakdown"}

(***************************************************************************)
(* Plan                                                                    *)
(***************************************************************************)
Point(mode, c, devices, batch, perCoord, local) ==
  [mode |-> mode, coordinators |-> c, devices |-> devices, globalBatch |-> batch, perCoordinator |-> perCoord, localBatch |-> local]

(* Mutant: the weak points keep the global batch.                           *)
BuildScalingConfigsWrong(mode, small) ==
  LET p(c, d, b, dc, l) == Point(mode, c, d, b, dc, l)
  IN IF mode = "strong" THEN <<p(1, 8, 16, 8, 16), p(2, 8, 16, 4, 8)>> ELSE <<p(1, 4, 8, 4, 8), p(2, 8, 8, 4, 8)>>

build_scaling_configs(mode, small) ==
  LET p(c, d, b, dc, l) == Point(mode, c, d, b, dc, l)
  IN CASE small /\ mode = "strong"  -> <<p(1, 8, 16, 8, 16), p(2, 8, 16, 4, 8)>>
       [] small /\ mode = "weak"    -> <<p(1, 4, 8, 4, 8), p(2, 8, 16, 4, 8)>>
       [] ~small /\ mode = "strong" -> <<p(1, 8, 2, 8, 2), p(2, 8, 2, 4, 1)>>
       [] ~small /\ mode = "weak"   -> <<p(1, 4, 1, 4, 1), p(2, 8, 2, 4, 1)>>

(* Mutant: consecutive proxy ports.                                         *)
BuildExperimentPlanPacked(ms, small) ==
  LET configs == FlattenSeq([i \in DOMAIN ms |-> build_scaling_configs(ms[i], small)])
  IN [i \in DOMAIN configs |-> [config |-> configs[i], masterPort |-> 29600 + i - 1, proxyPort |-> 39200 + i - 1]]

build_experiment_plan(ms, small) ==
  LET configs == FlattenSeq([i \in DOMAIN ms |-> build_scaling_configs(ms[i], small)])
  IN [i \in DOMAIN configs |-> [config |-> configs[i], masterPort |-> 29600 + i - 1, proxyPort |-> 39200 + 10 * (i - 1)]]

(***************************************************************************)
(* One rank                                                                *)
(***************************************************************************)
(* The phases a rank accounts for; without iterations it has none.           *)
RankPhases(m) == IF iterations = 0 THEN [total |-> 0, forward |-> 0, backward |-> 0, sync |-> 0, optimizer |-> 0] ELSE m.phases

(* The tolerance is the greater of a nanosecond and a millionth of the      *)
(* total.                                                                   *)
BeyondTolerance(excess, total) == 1000000 * excess > Max({1000000, total})

(* Mutant: the backward phase is left out.                                  *)
ReconcileForward(p) ==
  LET residual == p.total - (p.forward + p.sync + p.optimizer)
  IN [fails |-> BeyondTolerance(-residual, p.total), device |-> p.forward + p.backward, idle |-> Max({0, residual})]

(* Too negative a residual raises BreakdownReconciliationError in the rank.  *)
reconcile_breakdown(p) ==
  LET residual == p.total - (p.forward + p.backward + p.sync + p.optimizer)
  IN [fails |-> BeyondTolerance(-residual, p.total), device |-> p.forward + p.backward, idle |-> Max({0, residual})]

(* The losses track the golden ones: as many, all finite (a loss that is not *)
(* is -1), and the largest relative error within the tolerance of 1/20.      *)
LossesPass(m) ==
  LET losses == IF iterations = 0 THEN <<>> ELSE m.losses
      golden == IF iterations = 0 THEN <<>> ELSE m.golden
  IN /\ losses # <<>> /\ Len(losses) = Len(golden)
     /\ \A i \in DOMAIN losses : losses[i] >= 0 /\ 20 * Max({losses[i] - golden[i], golden[i] - losses[i]}) <= golden[i]

Rate(batch, seconds) == IF seconds > 0 THEN <<batch * iterations, seconds>> ELSE <<0, 1>>

build_rank_result(config, m) ==
  LET p == RankPhases(m)
      b == reconcile_breakdown(p)
  IN [total |-> p.total, device |-> b.device, sync |-> p.sync, optimizer |-> p.optimizer, idle |-> b.idle,
      throughput |-> Rate(config.localBatch, p.total), passed |-> LossesPass(m)]

(***************************************************************************)
(* One run                                                                 *)
(***************************************************************************)
(* Mutant: the run takes as long as its fastest rank.                       *)
BuildGlobalFastest(config, ranks) ==
  LET makespan == Min({ranks[r].total : r \in DOMAIN ranks})
  IN [total |-> makespan, throughput |-> Rate(config.globalBatch, makespan), ranks |-> ranks,
      passed |-> \A r \in DOMAIN ranks : ranks[r].passed]

build_global_result(config, ranks) ==
  LET makespan == Max({ranks[r].total : r \in DOMAIN ranks})
  IN [total |-> makespan, throughput |-> Rate(config.globalBatch, makespan), ranks |-> ranks,
      passed |-> \A r \in DOMAIN ranks : ranks[r].passed]

(* The next run of the plan.  A rank that raises, or whose losses do not     *)
(* pass, ends with status 1; the launcher then raises, which ends the       *)
(* experiment before any summary.                                           *)
ExecuteRun ==
  /\ ended = "no" /\ Len(results) < Len(runs)
  /\ LET config == runs[Len(results) + 1].config IN
     \E m \in [1..config.coordinators -> Measurements] :
       IF \E r \in DOMAIN m : reconcile_breakdown(RankPhases(m[r])).fails \/ ~LossesPass(m[r])
       THEN ended' = "failed" /\ UNCHANGED results
       ELSE /\ results' = Append(results, build_global_result(config, [r \in DOMAIN m |-> build_rank_result(config, m[r])]))
            /\ UNCHANGED ended
  /\ UNCHANGED <<modes, iterations, tiny, runs, reports, figure>>

RunFails ==
  /\ ended = "no" /\ Len(results) < Len(runs)
  /\ ended' = "failed"
  /\ UNCHANGED <<modes, iterations, tiny, runs, results, reports, figure>>

(***************************************************************************)
(* Summaries                                                               *)
(***************************************************************************)
Divided(a, b) == <<a[1] * b[2], a[2] * b[1]>>

(* A division by zero raises.                                               *)
ConclusionFails(base, scaled) == scaled.total = 0 \/ base.throughput[1] = 0

build_scaling_conclusion(mode, base, scaled, coordinators) ==
  [speedup |-> <<base.total, scaled.total>>,
   efficiency |-> IF mode = "strong" THEN <<base.total, coordinators * scaled.total>> ELSE <<base.total, scaled.total>>,
   throughputRatio |-> Divided(scaled.throughput, base.throughput),
   passed |-> base.passed /\ scaled.passed]

(* The runs of a mode, wherever it stands in --modes.                       *)
PointsOf(mode) == SelectSeq([i \in DOMAIN runs |-> i], LAMBDA i : runs[i].config.mode = mode)

(* The first of the slowest ranks stands for its run.                       *)
Slowest(result) == result.ranks[Min({r \in DOMAIN result.ranks : result.ranks[r].total = result.total})]

(* A mode that was given twice has four points and cannot be unpacked.       *)
ModeFails(mode) ==
  LET p == PointsOf(mode) IN Len(p) # 2 \/ ConclusionFails(results[p[1]], results[p[2]])

(* Modes are summarised in the order in which they first appear.            *)
FirstAt(mode) == Min({i \in DOMAIN modes : modes[i] = mode})

Summary(mode) ==
  LET p == PointsOf(mode)
  IN build_scaling_conclusion(mode, results[p[1]], results[p[2]], runs[p[2]].config.coordinators)

Breakdown == [i \in DOMAIN results |-> Slowest(results[i])]

Failing == {FirstAt(mode) : mode \in {x \in ToSet(modes) : ModeFails(x)}}
Summarised == {mode \in ToSet(modes) : \A i \in Failing : FirstAt(mode) < i}

(* Mutant: the breakdown is written whatever became of the modes.            *)
BreakdownAlways ==
  /\ ended = "no" /\ Len(results) = Len(runs)
  /\ reports' = [f \in ReportFiles |-> IF f \in Summarised \cup {"breakdown"} THEN "new" ELSE reports[f]]
  /\ ended' = IF Failing = {} THEN "done" ELSE "failed"
  /\ UNCHANGED <<modes, iterations, tiny, runs, results, figure>>

(* _write_summaries: a mode that raises leaves the files of the modes before *)
(* it, and the breakdown of an earlier invocation.                          *)
write_summaries ==
  /\ ended = "no" /\ Len(results) = Len(runs)
  /\ reports' = [f \in ReportFiles |->
                   IF f \in Summarised \/ (f = "breakdown" /\ Failing = {}) THEN "new" ELSE reports[f]]
  /\ ended' = IF Failing = {} THEN "done" ELSE "failed"
  /\ UNCHANGED <<modes, iterations, tiny, runs, results, figure>>

(***************************************************************************)
(* coord_scaling_plot                                                      *)
(***************************************************************************)
(* Mutant: the strong points are not divided by their coordinators.          *)
ParsedWeakly(mode) ==
  LET p == PointsOf(mode)
      baseline == Max({i \in ToSet(p) : runs[i].config.coordinators = 1})
  IN [i \in ToSet(p) |-> <<results[baseline].total, results[i].total>>]

(* The efficiency the figure shows for each point of a summary: the last one  *)
(* of a single coordinator is the baseline.                                 *)
parse_scaling_efficiency(mode) ==
  LET p == PointsOf(mode)
      baseline == Max({i \in ToSet(p) : runs[i].config.coordinators = 1})
  IN [i \in ToSet(p) |->
        IF mode = "strong" THEN <<results[baseline].total, runs[i].config.coordinators * results[i].total>>
        ELSE <<results[baseline].total, results[i].total>>]

(* Rows whose components are off by more than a microsecond and 2% of the     *)
(* total are refused.                                                       *)
parse_breakdown_fails ==
  \E i \in DOMAIN Breakdown :
    LET row == Breakdown[i]
        off == row.device + row.sync + row.optimizer + row.idle - row.total
    IN 50 * Max({off, -off}) > 50000 + row.total

(* A missing file, or one the schema refuses, ends with status 2 and no       *)
(* figure.  A file of an earlier invocation was written by the same code.    *)
RenderFigure ==
  /\ ended # "no" /\ figure = "none"
  /\ figure' = IF \/ \E f \in ReportFiles : reports[f] = "none"
                  \/ reports["breakdown"] = "new" /\ parse_breakdown_fails
               THEN "refused" ELSE "drawn"
  /\ UNCHANGED <<modes, iterations, tiny, runs, results, reports, ended>>

ReportsInit ==
  /\ modes \in ModeLists /\ tiny \in BOOLEAN
  /\ iterations \in IF tiny THEN {3} ELSE {0, 2}
  /\ runs = build_experiment_plan(modes, tiny)
  /\ results = <<>> /\ ended = "no" /\ figure = "none"
  /\ reports \in {[f \in ReportFiles |-> "none"], [f \in ReportFiles |-> "stale"]}

ReportsNext == ExecuteRun \/ RunFails \/ write_summaries \/ RenderFigure

-------------------------------------------------------------------------------
Ports(i) == {runs[i].masterPort} \cup {runs[i].proxyPort + r : r \in 0..(runs[i].config.coordinators - 1)}

(* No two runs of a plan, and no two processes of a run, share a port, so a   *)
(* socket that lingers after one run does not refuse the next.              *)
PortsDisjoint ==
  /\ \A i \in DOMAIN runs : Cardinality(Ports(i)) = 1 + runs[i].config.coordinators
  /\ \A i, j \in DOMAIN runs : i # j => Ports(i) \cap Ports(j) = {}

LessEq(a, b) == a[1] * b[2] <= b[1] * a[2]
Plus(a, b) == <<a[1] * b[2] + b[1] * a[2], a[2] * b[2]>>

(* A run never reports more throughput than its ranks together: the batch is *)
(* divided over the ranks and the run takes as long as the slowest.          *)
ThroughputWithinRanks ==
  \A i \in DOMAIN results :
    LET all == FoldSeq(LAMBDA r, acc : Plus(r.throughput, acc), <<0, 1>>, results[i].ranks)
    IN LessEq(results[i].throughput, all)

(* The components of each row of a written breakdown add up to the makespan   *)
(* of its run, and exceed it by no more than the tolerance.                  *)
BreakdownAddsUp ==
  reports["breakdown"] = "new" =>
    \A i \in DOMAIN results :
      LET row == Breakdown[i]
          excess == row.device + row.sync + row.optimizer + row.idle - results[i].total
      IN row.idle >= 0 /\ excess >= 0 /\ ~BeyondTolerance(excess, results[i].total)

(* The throughput ratio of a summary is its speedup times the growth of the  *)
(* batch: none in strong scaling, the number of coordinators in weak.  Every *)
(* loss behind it passed.                                                   *)
ConclusionsAgree ==
  \A mode \in Modes : reports[mode] = "new" =>
    LET c == Summary(mode)
        growth == IF mode = "strong" THEN 1 ELSE 2
    IN c.passed /\ c.throughputRatio[1] * c.speedup[2] = growth * c.speedup[1] * c.throughputRatio[2]

(* The figure refuses only missing files, never what the experiment wrote,   *)
(* and the efficiency it derives is that of the summary's conclusion.        *)
FigureAgrees ==
  /\ figure = "refused" => \E f \in ReportFiles : reports[f] = "none"
  /\ \A mode \in Modes : reports[mode] = "new" =>
       LET p == PointsOf(mode)
           shown == parse_scaling_efficiency(mode)
           stated == Summary(mode).efficiency
       IN shown[p[2]][1] * stated[2] = stated[1] * shown[p[2]][2] /\ shown[p[1]][1] = shown[p[1]][2]

(* A breakdown of this invocation is there only when every mode's summary is  *)
(* of this invocation too and it ended without an error.                     *)
BreakdownIsLast ==
  reports["breakdown"] = "new" => ended = "done" /\ \A mode \in ToSet(modes) : reports[mode] = "new"

(* A figure that mixes reports of this invocation with older ones is drawn     *)
(* only after an invocation that failed, which leaves the summaries of the     *)
(* modes before the failing one beside the old breakdown, or that was not      *)
(* asked for both modes.                                                     *)
MixtureIsExplained ==
  figure = "drawn" /\ (\E f \in ReportFiles : reports[f] = "new") /\ (\E f \in ReportFiles : reports[f] # "new")
    => \/ ended = "failed" /\ reports["breakdown"] # "new"
       \/ ended = "done" /\ ToSet(modes) # Modes

(* The runs of a plan share no port; throughputs, conclusions, breakdown and   *)
(* efficiencies of an invocation agree with its runs; and what an invocation   *)
(* that succeeds for both modes leaves is all its own.  After a failure the    *)
(* directory may hold reports of two invocations, and the figure does not      *)
(* tell them apart.                                                          *)
ReportsAgree ==
  PortsDisjoint /\ ThroughputWithinRanks /\ BreakdownAddsUp /\ ConclusionsAgree /\ BreakdownIsLast
  /\ MixtureIsExplained /\ FigureAgrees
===============================================================================
