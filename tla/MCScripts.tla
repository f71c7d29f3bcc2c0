------------------------------- MODULE MCScripts -------------------------------
(* The command-line tools beside the emulator.  They share no state: one of   *)
(* them, of the initial state's choice, runs on its own variables, and the    *)
(* others keep their first initial state.                                     *)
EXTENDS VirtualTimeLogs, BatchRuntime, SlotViolations, TraceGenerator, PerfLog, SwapTiming,
        ScalingReports, SweepAnalysis

VARIABLES tool

(***************************************************************************)
(* Values of the constants                                                 *)
(***************************************************************************)
MCProfiles == [d \in BatchDevices |-> [flops |-> d + 1, ul_bw |-> 1, dl_bw |-> 2 - 2 * d]]
MCOptions ==
  {[pp |-> 0, mb |-> 0, k |-> 0, bw |-> 0], [pp |-> 1, mb |-> 0, k |-> 3, bw |-> 0],
   [pp |-> 3, mb |-> 2, k |-> 0, bw |-> 2]}

(* The phases exceed the total beyond the tolerance, within it, or not.       *)
MCMeasurements ==
  {[phases |-> [total |-> t, forward |-> 100, backward |-> 100, sync |-> 100, optimizer |-> 100],
    losses |-> l, golden |-> <<40, 20>>] : t \in {398, 399, 600}, l \in {<<41, 20>>, <<40, -1>>}}

(* The last list fails for its second mode, after the first's summary.        *)
MCModeLists ==
  {<<"strong">>, <<"weak">>, <<"weak", "strong">>, <<"strong", "weak">>, <<"strong", "strong">>,
   <<"weak", "strong", "strong">>}

Ran(runtime, cpu) == [status |-> 0, error |-> FALSE, runtime |-> runtime, cpu |-> cpu]
MCRepetition ==
  {Nothing, [status |-> 0, error |-> TRUE, runtime |-> 10, cpu |-> <<190, 50>>],
   Ran(10, <<100, 190, 60>>), Ran(9, <<185, 195>>), Ran(20, <<180>>)}
MCCountLists == {<<1, 2>>, <<2, 1>>, <<2, 2>>, <<1>>}

-------------------------------------------------------------------------------
Tools == {"logs", "batch", "slots", "gen", "perf", "swap", "reports", "sweep"}

scriptVars == <<tool, logVars, batchVars, slotVars, genVars, perfVars, swapVars, reportVars, sweepVars>>

ScriptsInit ==
  /\ tool \in Tools
  /\ LogsInit /\ BatchInit /\ SlotsInit /\ GenInit /\ PerfInit /\ SwapInit /\ ReportsInit
  /\ SweepInit
  /\ tool # "reports" => modes = <<"weak">> /\ iterations = 0 /\ ~tiny /\ reports["breakdown"] = "none"
  /\ tool # "sweep" => counts = <<1>>

(* A step of one tool leaves the other tools' variables as they are.          *)
Keep(t, v) == IF tool = t THEN TRUE ELSE UNCHANGED v
Of(t, A) ==
  /\ tool = t /\ A /\ UNCHANGED tool
  /\ Keep("logs", logVars) /\ Keep("batch", batchVars) /\ Keep("slots", slotVars)
  /\ Keep("gen", genVars) /\ Keep("perf", perfVars) /\ Keep("swap", swapVars)
  /\ Keep("reports", reportVars) /\ Keep("sweep", sweepVars)

ScriptsNext ==
  \/ Of("logs", LogsNext) \/ Of("batch", BatchNext) \/ Of("slots", SlotsNext) \/ Of("gen", GenNext)
  \/ Of("perf", PerfNext) \/ Of("swap", SwapNext) \/ Of("reports", ReportsNext)
  \/ Of("sweep", SweepNext)

(* A generated trace can be used and the violations found in one are all that *)
(* there are (generate_trace.py, analyze_violations.py, the trace adapter).   *)
TraceToolsSound ==
  TraceIsUsable /\ ViolationsAreExact

(* What the measuring tools report is what was logged (analyze_perf.py,       *)
(* cross_validate_swap_timing.py).                                            *)
TimingToolsSound ==
  PerfIsExact /\ SwapVerdictIsSound

(* The summaries of both scaling experiments and the figure drawn from them   *)
(* agree with the runs and with each other (the scaling scripts and           *)
(* coord_scaling_plot).                                                       *)
ReportsAreSound ==
  ReportsAgree /\ SummaryIsMeasured
===============================================================================
