--------------------------- MODULE SingleCoordinator ---------------------------
(***************************************************************************)
(* The single-coordinator scaling sweep.  main of run_coordinator_scaling  *)
(* executes run after run; a run is one process of                         *)
(* run_single_coordinator_training.py, which starts a metrics collector,   *)
(* a backend and a fleet of device processes, trains, and cleans up.  At   *)
(* the end the sweep aggregates the runs' metrics files.                   *)
(*                                                                         *)
(* Any call of the training process may raise.  It has no finally: the     *)
(* exception ends the main thread, and once the backend is started its     *)
(* event loop keeps the process alive until the sweep's timeout kills it.  *)
(***************************************************************************)
EXTENDS MetricsCollector

CONSTANTS
  Runs,        \* number of runs of the sweep
  NumDevices,  \* --num_devices
  Warmup,      \* --warmup_steps
  Steps        \* --steps

ASSUME SweepAssumption ==
  /\ Runs \in Nat /\ NumDevices \in Nat /\ Warmup \in Nat /\ Steps \in Nat \ {0}
  /\ {"warmup_iteration", "iteration_total", "forward"} \subseteq Phases

VARIABLES
  inside,     \* /.dockerenv exists
  run,        \* index of the run the sweep is at
  pc,         \* where the training process is, "none" before and after
  recorder,   \* phase_recorder is not None
  step,       \* step_index of the training loop
  spawned,    \* devices started so far: the length of _device_processes
  alive,      \* <<run, index>> of the device processes that are alive
  connected,  \* devices connected to the current coordinator
  status,     \* exit status of the training process
  results,    \* result.json and metrics.jsonl of the runs
  sweep       \* "running", "aborted" or "summary"

script == <<run, pc, recorder, step, spawned, status>>
fleet == <<alive, connected>>
vars == <<metrics, inside, script, fleet, results, sweep>>

Devices == 1..NumDevices
Mine == {d \in alive : d[1] = run}

(***************************************************************************)
(* parse_metrics_jsonl: the final sample with a measured iteration, and    *)
(* whether the file reports an error.                                      *)
(***************************************************************************)
Measured(f) ==
  {i \in 1..Len(f) : f[i].record_type = "sample" /\ f[i].counts["iteration_total"] > 0}
Final(m) == CHOOSE i \in m : \A j \in m : j <= i

ParseMetrics(f) ==
  LET m == Measured(f)
  IN [error |-> m = {} \/ \E i \in 1..Len(f) : f[i].record_type = "terminal_error",
      phase_counts |-> IF m = {} THEN NoCounts ELSE f[Final(m)].counts]

(* What an earlier sweep, of a longer training, left in a run directory.    *)
LeftMetrics == <<Sample([NoCounts EXCEPT !["iteration_total"] = Steps + 1])>>
LeftResult == [status |-> 0, timed_out |-> FALSE, lost |-> FALSE,
               measurement |-> ParseMetrics(LeftMetrics)]

Init ==
  /\ InitMetrics
  /\ file = LeftMetrics
  /\ inside \in BOOLEAN
  /\ run = 0 /\ pc = "none" /\ recorder = FALSE /\ step = 0 /\ spawned = 0 /\ status = 0
  /\ alive = {} /\ connected = {}
  /\ results = [i \in 0..(Runs - 1) |-> LeftResult]
  /\ sweep = "running"

(* Mutant: every run has a container, and so the same port.                 *)
ContainerPort(i) == 39100

(* The coordinator of a run and its devices share its port.                 *)
port_for_run(i) == 39100 + i

(* An exception nobody catches.  The collector is not stopped, and a        *)
(* started backend keeps the process from ending.                           *)
Backed == pc \notin {"start", "sampling", "golden", "backend"}
Uncaught ==
  IF Backed THEN pc' = "hung" /\ UNCHANGED status ELSE pc' = "exited" /\ status' = 1

Running == pc \notin {"none", "hung", "killed", "exited"}

(***************************************************************************)
(* The sweep: run_command.                                                 *)
(***************************************************************************)
StartRun ==
  /\ sweep = "running" /\ run < Runs /\ pc = "none"
  /\ pc' = "start"
  /\ UNCHANGED <<metrics, inside, run, recorder, step, spawned, status, fleet, results, sweep>>

(* The command cannot be started: main of the sweep ends without a summary. *)
StartRunRaises ==
  /\ sweep = "running" /\ run < Runs /\ pc = "none"
  /\ sweep' = "aborted"
  /\ UNCHANGED <<metrics, inside, script, fleet, results>>

(* result.json and what _load_run will read; "lost": the collector failed   *)
(* and could not write its terminal record either.                          *)
Outcome(s, t) ==
  [status |-> s, timed_out |-> t, measurement |-> ParseMetrics(file),
   lost |-> failure /\ \A i \in 1..Len(file) : file[i] # Terminal]

(* The next run starts from nothing, in a directory of its own.             *)
Recorded(s, t) ==
  /\ results' = [results EXCEPT ![run] = Outcome(s, t)]
  /\ run' = run + 1 /\ pc' = "none"
  /\ recorder' = FALSE /\ step' = 0 /\ spawned' = 0 /\ status' = 0 /\ connected' = {}
  /\ ResetMetrics /\ file' = LeftMetrics
  /\ UNCHANGED <<inside, sweep>>

(* The process of the run ended; outside a container it took the container  *)
(* and every process of it along.                                           *)
RunReturns ==
  /\ sweep = "running" /\ pc = "exited"
  /\ Recorded(status, FALSE)
  /\ alive' = IF inside THEN alive ELSE alive \ Mine

(* Mutant: a run that timed out is tried again.                             *)
RunTimeoutRetried ==
  /\ sweep = "running" /\ pc \notin {"none", "exited"}
  /\ pc' = "start"
  /\ alive' = IF inside THEN alive ELSE alive \ Mine
  /\ recorder' = FALSE /\ step' = 0 /\ spawned' = 0 /\ status' = 0 /\ connected' = {}
  /\ ResetMetrics /\ UNCHANGED <<inside, run, file, results, sweep>>

(* subprocess.run kills the process it started; docker rm -f removes the    *)
(* container of a run that was started outside.                             *)
RunTimeout ==
  /\ sweep = "running" /\ pc \notin {"none", "exited"}
  /\ Recorded(124, TRUE)
  /\ alive' = IF inside THEN alive ELSE alive \ Mine

(* The exception carries what the process had printed as bytes, and         *)
(* write_text takes no bytes: unless the process printed nothing, main of   *)
(* the sweep ends without a result of the run and without a summary.        *)
RunTimeoutRaises ==
  /\ sweep = "running" /\ pc \notin {"none", "exited"}
  /\ sweep' = "aborted" /\ pc' = "killed" /\ connected' = {}
  /\ alive' = IF inside THEN alive ELSE alive \ Mine
  /\ UNCHANGED <<metrics, inside, run, recorder, step, spawned, status, results>>

WriteSummary ==
  /\ sweep = "running" /\ run = Runs
  /\ sweep' = "summary"
  /\ UNCHANGED <<metrics, inside, script, fleet, results>>

(***************************************************************************)
(* The training process, up to the training loop.                          *)
(***************************************************************************)
StartCollector ==
  /\ pc = "start"
  /\ \/ Open /\ pc' = "sampling" /\ UNCHANGED status
     \/ Uncaught /\ UNCHANGED metrics      \* mkdir or open raises an OSError
  /\ UNCHANGED <<inside, run, recorder, step, spawned, fleet, results, sweep>>

CollectorStarted ==
  /\ pc = "sampling"
  /\ \/ StartThread /\ recorder' = TRUE
     \/ at["main"] = "failed" /\ CloseOutput /\ recorder' = FALSE
  /\ pc' = "golden"
  /\ UNCHANGED <<inside, run, step, spawned, status, fleet, results, sweep>>

GoldenAndBackend ==
  /\ \/ pc = "golden" /\ pc' = "backend" /\ UNCHANGED status
     \/ pc = "backend" /\ pc' = "spawn" /\ UNCHANGED status
     \/ pc \in {"golden", "backend"} /\ Uncaught
  /\ UNCHANGED <<metrics, inside, run, recorder, step, spawned, fleet, results, sweep>>

SpawnFakeFleet ==
  /\ pc = "spawn"
  /\ \/ /\ spawned < NumDevices
        /\ spawned' = spawned + 1 /\ alive' = alive \cup {<<run, spawned + 1>>}
        /\ UNCHANGED <<pc, status>>
     \/ /\ spawned < NumDevices /\ Uncaught
        /\ UNCHANGED <<spawned, alive>>
     \/ /\ spawned = NumDevices /\ pc' = "connect"
        /\ UNCHANGED <<spawned, alive, status>>
  /\ UNCHANGED <<metrics, inside, run, recorder, step, connected, results, sweep>>

(* Too few connections are a warning.                                       *)
WaitForConnections ==
  /\ pc = "connect"
  /\ pc' = "iteration"
  /\ UNCHANGED <<metrics, inside, run, recorder, step, spawned, status, fleet, results, sweep>>

(***************************************************************************)
(* train_loop.  A phase is recorded in the finally of track(), whether its *)
(* block raised or not; without a recorder nothing is.  The inner phases   *)
(* are recorded in measured iterations only; "forward" stands for them.    *)
(***************************************************************************)
(* Mutant: the warmup iterations are published with the measured ones.      *)
TrackAll(p) ==
  IF recorder THEN Record(IF p = "warmup_iteration" THEN "iteration_total" ELSE p)
  ELSE UNCHANGED counts

Track(p) == IF recorder THEN Record(p) ELSE UNCHANGED counts
IterationPhase == IF step < Warmup THEN "warmup_iteration" ELSE "iteration_total"

(* A dispatched GEMM returns only if a device computes it.                  *)
Forward ==
  /\ pc = "iteration" /\ step < Warmup + Steps
  /\ \/ connected \cap alive # {} /\ pc' = "phase"
     \/ pc' = "phase_raising"
  /\ IF step >= Warmup THEN Track("forward") ELSE UNCHANGED counts
  /\ UNCHANGED <<collector, inside, run, recorder, step, spawned, status, fleet, results, sweep>>

EndIteration ==
  /\ \/ pc = "phase" /\ step' = step + 1 /\ pc' = "iteration" /\ UNCHANGED status
     \/ pc = "phase_raising" /\ Uncaught /\ UNCHANGED step
  /\ Track(IterationPhase)
  /\ UNCHANGED <<collector, inside, run, recorder, spawned, fleet, results, sweep>>

(***************************************************************************)
(* The verdict, the cleanup and the end.                                   *)
(***************************************************************************)
StopBackend ==
  /\ pc = "iteration" /\ step = Warmup + Steps
  /\ pc' = "cleanup"
  /\ UNCHANGED <<metrics, inside, run, recorder, step, spawned, status, fleet, results, sweep>>

(* Mutant: a device that outlives its SIGTERM is left alone.                *)
CleanupPolitely ==
  /\ pc = "cleanup"
  /\ \/ spawned > 0 /\ spawned' = spawned - 1 /\ UNCHANGED pc
        /\ alive' \in {alive, alive \ {<<run, NumDevices - spawned + 1>>}}
     \/ spawned = 0 /\ pc' = "collector" /\ UNCHANGED <<spawned, alive>>
  /\ connected' = connected \cap alive'
  /\ UNCHANGED <<metrics, inside, run, recorder, step, status, results, sweep>>

(* cleanup_fake_fleet: one device after the other is terminated, and killed *)
(* if it does not end in time.                                              *)
CleanupFakeFleet ==
  /\ pc = "cleanup"
  /\ \/ spawned > 0 /\ spawned' = spawned - 1 /\ UNCHANGED pc
        /\ alive' = alive \ {<<run, NumDevices - spawned + 1>>}
     \/ spawned = 0 /\ pc' = "collector" /\ UNCHANGED <<spawned, alive>>
  /\ connected' = connected \cap alive'
  /\ UNCHANGED <<metrics, inside, run, recorder, step, status, results, sweep>>

StopCollector ==
  /\ pc = "collector" /\ recorder
  /\ SetStopEvent \/ Join
  /\ UNCHANGED <<inside, script, fleet, results, sweep>>

(* os._exit, with the collector stopped or never started.                   *)
ForceExit ==
  /\ pc = "collector"
  /\ \/ at["main"] \in {"sampled", "failed"} /\ CloseOutput
     \/ ~recorder /\ UNCHANGED metrics
  /\ pc' = "exited"
  /\ status' \in {0, 1}
  /\ UNCHANGED <<inside, run, recorder, step, spawned, fleet, results, sweep>>

(* The collector's own steps; only its thread runs beside the script.       *)
CollectorStep ==
  /\ Running
  /\ \/ pc \in {"sampling", "collector"} /\ Sampling
     \/ Read("thread") \/ Snapshot("thread") \/ Write("thread") \/ RecordFailure("thread")
     \/ Run
  /\ UNCHANGED <<inside, script, fleet, results, sweep>>

(***************************************************************************)
(* The devices: one connects to the port it was given, and may end.        *)
(***************************************************************************)
Connect(d) ==
  /\ d \in alive /\ pc \notin {"none", "killed", "exited"} /\ Backed
  /\ port_for_run(d[1]) = port_for_run(run)
  /\ connected' = connected \cup {d}
  /\ UNCHANGED <<metrics, inside, script, alive, results, sweep>>

DeviceExits(d) ==
  /\ d \in alive
  /\ alive' = alive \ {d} /\ connected' = connected \ {d}
  /\ UNCHANGED <<metrics, inside, script, results, sweep>>

Finished == sweep # "running" /\ UNCHANGED vars

Next ==
  \/ StartRun \/ StartRunRaises \/ RunReturns \/ RunTimeout \/ RunTimeoutRaises \/ WriteSummary
  \/ StartCollector \/ CollectorStarted \/ GoldenAndBackend \/ SpawnFakeFleet
  \/ WaitForConnections \/ Forward \/ EndIteration \/ StopBackend
  \/ CleanupFakeFleet \/ StopCollector \/ ForceExit \/ CollectorStep
  \/ \E d \in alive : Connect(d) \/ DeviceExits(d)
  \/ Finished

(* The sweep is one thread that is never blocked for longer than the        *)
(* timeout it gives subprocess.run.                                         *)
Fairness ==
  /\ WF_vars(StartRun) /\ WF_vars(RunReturns) /\ WF_vars(RunTimeout \/ RunTimeoutRaises)
  /\ WF_vars(WriteSummary)
Spec == Init /\ [][Next]_vars /\ Fairness

(* aggregate_repetitions: the runs that count.                              *)
Successful(r) == r.status = 0 /\ ~r.measurement.error

(***************************************************************************)
(* Properties.                                                             *)
(***************************************************************************)
Counts == [Phases -> 0..(IF Warmup > Steps THEN Warmup ELSE Steps)]
(* The type of the state.                                                   *)
TypeOK ==
  /\ counts \in Counts /\ output \in {"none", "open"}
  /\ stop_event \in BOOLEAN /\ failure \in BOOLEAN
  /\ at["main"] \in {"idle", "read", "snapshot", "write", "raised", "failed", "sampled", "join"}
  /\ at["thread"] \in {"idle", "read", "snapshot", "write", "raised", "failed", "wait", "exited"}
  /\ \A w \in Samplers : snap[w] \in Counts
  /\ run \in 0..Runs /\ step \in 0..(Warmup + Steps) /\ spawned \in 0..NumDevices
  /\ pc \in {"none", "start", "sampling", "golden", "backend", "spawn", "connect", "iteration",
            "phase", "phase_raising", "cleanup", "collector", "hung", "killed", "exited"}
  /\ alive \subseteq (0..(Runs - 1)) \X Devices /\ connected \subseteq alive
  /\ sweep \in {"running", "aborted", "summary"}

(* A terminal_error record ends the metrics file: whichever of the thread   *)
(* and the process fails first, nothing is sampled afterwards and no second *)
(* one is written (_record_failure, _run, stop).                            *)
TerminalIsLast ==
  LET f == file \o buf IN \A i \in 1..(Len(f) - 1) : f[i].record_type = "sample"

(* The phase counts of the file never go back: the process takes its last   *)
(* sample after it joined the thread, never beside it (stop).               *)
SamplesGrow ==
  LET f == file \o buf
  IN \A i, j \in 1..Len(f) :
       i < j /\ f[i].record_type = "sample" /\ f[j].record_type = "sample" =>
         \A p \in Phases : f[i].counts[p] <= f[j].counts[p]

(* A run the summary counts was measured in full: its phase counts are      *)
(* those of every measured iteration and of no warmup, whatever an earlier  *)
(* sweep left in its directory.  The exception is a collector that failed   *)
(* and could not even write its terminal record (_load_run,                 *)
(* aggregate_repetitions, train_loop, stop).                                *)
CountedMeansComplete ==
  sweep = "summary" =>
    \A i \in DOMAIN results :
      Successful(results[i]) /\ ~results[i].lost =>
        \A p \in {"iteration_total", "forward"} : results[i].measurement.phase_counts[p] = Steps

(* A coordinator is never connected to a device an earlier run left behind  *)
(* (port_for_run).                                                          *)
OwnDevicesOnly == pc \notin {"none", "exited"} => \A d \in connected : d[1] = run

(* Devices outlive their run only if the run was killed by the timeout      *)
(* inside the container it shares with the sweep (cleanup_fake_fleet,       *)
(* run_command).                                                            *)
OrphansOnlyAfterTimeout ==
  \A d \in alive : d[1] < run => inside /\ results[d[1]].timed_out

(* The sweep ends, with its summary or without, though a training process   *)
(* that raised never does (run_command's timeout).                          *)
SweepEnds == <>(sweep # "running")

(* What the summary counts was measured: the file of the two samplers is in    *)
(* order and ends at the first failure, and a run that counts has every        *)
(* iteration in it.                                                            *)
CountedIsMeasured ==
  TerminalIsLast /\ SamplesGrow /\ CountedMeansComplete

(* Devices stay with the run that spawned them (port_for_run,                  *)
(* cleanup_fake_fleet): they connect to no other and outlive it only after a   *)
(* timeout inside the shared container.                                        *)
RunsStayApart ==
  OwnDevicesOnly /\ OrphansOnlyAfterTimeout
===============================================================================
