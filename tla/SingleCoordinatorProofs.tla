------------------------ MODULE SingleCoordinatorProofs ------------------------
(***************************************************************************)
(* The two safety properties of the single-coordinator sweep, for every    *)
(* number of runs, devices and steps.  RunsStayApart needs only the fleet  *)
(* (FleetInv).  CountedIsMeasured follows an iteration from the training   *)
(* loop (CountInv) through the two samplers (ControlInv) and the buffered  *)
(* file (FileInv) to the recorded run (ResultInv).                         *)
(***************************************************************************)
EXTENDS SingleCoordinator, TLAPS

(***************************************************************************)
(* The fleet.                                                              *)
(***************************************************************************)
Before == {"none", "start", "sampling", "golden", "backend"}
Stages == Before \cup {"spawn", "connect", "iteration", "phase", "phase_raising",
                       "cleanup", "collector", "hung", "killed", "exited"}

(* The inductive invariant of the fleet: until the first device is spawned  *)
(* and after the cleanup the run has none, and during the cleanup only      *)
(* those that were not terminated yet; devices of earlier runs are orphans  *)
(* of a timeout.                                                            *)
FleetInv ==
  /\ run \in Nat /\ spawned \in Nat /\ spawned <= NumDevices /\ inside \in BOOLEAN /\ pc \in Stages
  /\ DOMAIN results = 0..(Runs - 1)
  /\ pc # "none" => run < Runs
  /\ alive \subseteq Nat \X Nat
  /\ \A d \in alive : d[1] <= run /\ d[2] \in Devices
  /\ \A d \in connected : d[1] = run
  /\ OrphansOnlyAfterTimeout
  /\ pc \in Before \cup {"collector", "exited"} => \A d \in alive : d[1] # run
  /\ pc \in {"connect", "iteration", "phase", "phase_raising"} => spawned = NumDevices
  /\ pc = "cleanup" => \A d \in alive : d[1] = run => d[2] > NumDevices - spawned

(* No device exists before the first run.                                   *)
LEMMA FleetInit ==
  ASSUME Init PROVE FleetInv
  BY SweepAssumption DEF Init, FleetInv, Stages, Before, OrphansOnlyAfterTimeout, Devices

(* A step that moves the training process and leaves the fleet alone keeps  *)
(* FleetInv, provided it enters no stage whose claim about the fleet the    *)
(* stage before it did not make.                                            *)
LEMMA FleetMoves ==
  ASSUME FleetInv, UNCHANGED <<inside, run, spawned, alive, connected, results>>,
         pc' \in Stages,
         pc' # "none" => run < Runs,
         pc' \in Before \cup {"collector", "exited"} => pc \in Before \cup {"collector", "exited"},
         pc' \in {"connect", "iteration", "phase", "phase_raising"} => spawned = NumDevices,
         pc' = "cleanup" => pc = "cleanup" \/ spawned = NumDevices
  PROVE  FleetInv'
<1>1. /\ pc' \in Before \cup {"collector", "exited"} => \A d \in alive : d[1] # run
      /\ OrphansOnlyAfterTimeout'
  BY Zenon DEF FleetInv, OrphansOnlyAfterTimeout
<1>2. pc' = "cleanup" => \A d \in alive : d[1] = run => d[2] > NumDevices - spawned
  BY SweepAssumption DEF FleetInv, Devices
<1>3. QED
  BY <1>1, <1>2, Zenon DEF FleetInv, Devices

(* Recording a run: the devices it leaves behind are those of a run that    *)
(* timed out inside the container (run_command).                            *)
LEMMA FleetRecorded ==
  ASSUME FleetInv, NEW s, NEW t \in BOOLEAN, Recorded(s, t), pc # "none",
         t \/ pc = "exited",
         alive' = IF inside THEN alive ELSE alive \ Mine
  PROVE  FleetInv'
<1>1. /\ run \in Nat /\ run' = run + 1 /\ run < Runs /\ pc' = "none" /\ spawned' = 0 /\ connected' = {}
      /\ inside' = inside /\ alive' \subseteq alive /\ DOMAIN results' = DOMAIN results
  BY Zenon DEF FleetInv, Recorded, Mine
<1>2. ASSUME NEW d \in alive' PROVE d[1] \in Nat /\ d[1] <= run /\ d[2] \in Devices
  BY <1>1, <1>2, Zenon DEF FleetInv
<1>3. ASSUME NEW d \in alive', d[1] < run' PROVE inside' /\ results'[d[1]].timed_out
  <2>1. CASE d[1] < run
    <3>1. results'[d[1]] = results[d[1]]
      BY <1>2, <2>1 DEF Recorded
    <3>2. QED
      BY <1>1, <2>1, <3>1, Zenon DEF FleetInv, OrphansOnlyAfterTimeout
  <2>2. CASE d[1] = run
    <3>1. inside /\ t
      BY <1>1, <2>2, Zenon DEF FleetInv, Mine
    <3>2. results'[run].timed_out = t
      <4>1. run \in DOMAIN results
        BY <1>1, SweepAssumption DEF FleetInv
      <4>2. results'[run] = Outcome(s, t)
        BY <4>1, Zenon DEF Recorded
      <4>3. Outcome(s, t).timed_out = t
        BY Zenon DEF Outcome
      <4>4. QED
        BY <4>2, <4>3, Zenon
    <3>3. QED
      BY <1>1, <2>2, <3>1, <3>2, Zenon
  <2>3. QED
    BY <1>1, <1>2, <1>3, <2>1, <2>2
<1>4. QED
  BY <1>1, <1>2, <1>3, SweepAssumption DEF FleetInv, OrphansOnlyAfterTimeout, Stages, Before, Devices

(* Every step keeps FleetInv.                                               *)
LEMMA FleetStep ==
  ASSUME FleetInv, [Next]_vars PROVE FleetInv'
<1>1. ASSUME UNCHANGED vars PROVE FleetInv'
  BY <1>1, FleetMoves, Zenon DEF vars, script, fleet, FleetInv
<1>2. ASSUME StartRun \/ StartRunRaises \/ WriteSummary PROVE FleetInv'
  BY <1>2, FleetMoves, Zenon DEF StartRun, StartRunRaises, WriteSummary, script, fleet, FleetInv, Stages, Before
<1>3. ASSUME RunReturns PROVE FleetInv'
  BY <1>3, FleetRecorded, Zenon DEF RunReturns
<1>4. ASSUME RunTimeout PROVE FleetInv'
  BY <1>4, FleetRecorded, Zenon DEF RunTimeout
<1>4b. ASSUME RunTimeoutRaises PROVE FleetInv'
  <2>1. /\ alive' \subseteq alive /\ connected' = {} /\ pc' = "killed" /\ run < Runs
        /\ UNCHANGED <<inside, run, spawned, results>>
    BY <1>4b, Zenon DEF RunTimeoutRaises, FleetInv, Mine
  <2>2. QED
    BY <2>1, Zenon DEF FleetInv, OrphansOnlyAfterTimeout, Stages, Before, Devices
<1>5. ASSUME StartCollector \/ CollectorStarted \/ GoldenAndBackend PROVE FleetInv'
  BY <1>5, FleetMoves, Zenon DEF StartCollector, CollectorStarted, GoldenAndBackend, Uncaught, Backed,
     fleet, FleetInv, Stages, Before
<1>6. ASSUME SpawnFakeFleet PROVE FleetInv'
  <2>1. CASE spawned < NumDevices /\ spawned' = spawned + 1 /\ pc' = pc
    <3>1. /\ run \in Nat /\ spawned \in Nat /\ NumDevices \in Nat /\ pc = "spawn"
          /\ alive' = alive \cup {<<run, spawned + 1>>}
          /\ UNCHANGED <<inside, run, connected, results>>
      BY <1>6, <2>1, SweepAssumption DEF SpawnFakeFleet, FleetInv
    <3>2. \A d \in alive' : d \in Nat \X Nat /\ d[1] <= run /\ d[2] \in Devices /\ (d[1] < run => d \in alive)
      BY <2>1, <3>1 DEF FleetInv, Devices
    <3>3. QED
      BY <2>1, <3>1, <3>2 DEF FleetInv, OrphansOnlyAfterTimeout, Stages, Before, Devices
  <2>2. CASE UNCHANGED <<spawned, alive>>
    BY <1>6, <2>2, FleetMoves, Zenon DEF SpawnFakeFleet, Uncaught, Backed, FleetInv, Stages, Before
  <2>3. QED
    BY <1>6, <2>1, <2>2, Zenon DEF SpawnFakeFleet
<1>7. ASSUME WaitForConnections \/ Forward \/ EndIteration \/ StopBackend PROVE FleetInv'
  BY <1>7, FleetMoves, Zenon DEF WaitForConnections, Forward, EndIteration, StopBackend, Uncaught, Backed,
     fleet, FleetInv, Stages, Before
<1>8. ASSUME CleanupFakeFleet PROVE FleetInv'
  <2>1. CASE spawned > 0 /\ pc' = pc
    <3>1. /\ run \in Nat /\ spawned \in Nat /\ NumDevices \in Nat /\ pc = "cleanup" /\ spawned' = spawned - 1
          /\ alive' = alive \ {<<run, NumDevices - spawned + 1>>}
          /\ UNCHANGED <<inside, run, results>> /\ connected' \subseteq connected
      BY <1>8, <2>1, SweepAssumption, Zenon DEF CleanupFakeFleet, FleetInv
    <3>2. ASSUME NEW d \in alive', d[1] = run PROVE d[2] > NumDevices - spawned'
      <4>1. d = <<d[1], d[2]>> /\ d[2] \in Nat /\ d[2] > NumDevices - spawned
        BY <3>1, <3>2 DEF FleetInv
      <4>2. d[2] # NumDevices - spawned + 1
        BY <3>1, <3>2, <4>1, Zenon
      <4>3. QED
        BY <3>1, <4>1, <4>2
    <3>3. QED
      BY <2>1, <3>1, <3>2 DEF FleetInv, OrphansOnlyAfterTimeout, Stages, Before, Devices
  <2>2. CASE spawned = 0 /\ pc' = "collector"
    <3>1. /\ pc = "cleanup" /\ spawned' = 0 /\ alive' = alive /\ NumDevices \in Nat
          /\ UNCHANGED <<inside, run, results>> /\ connected' \subseteq connected
      BY <1>8, <2>2, SweepAssumption, Zenon DEF CleanupFakeFleet
    <3>2. \A d \in alive : d[1] # run
      BY <2>2, <3>1 DEF FleetInv, Devices
    <3>3. QED
      BY <2>2, <3>1, <3>2, Zenon DEF FleetInv, OrphansOnlyAfterTimeout, Stages, Before, Devices
  <2>3. QED
    BY <1>8, <2>1, <2>2, Zenon DEF CleanupFakeFleet
<1>9. ASSUME StopCollector \/ ForceExit \/ CollectorStep PROVE FleetInv'
  BY <1>9, FleetMoves, Zenon DEF StopCollector, ForceExit, CollectorStep, script, fleet, FleetInv, Stages, Before
<1>10. ASSUME NEW d \in alive, Connect(d) PROVE FleetInv'
  <2>1. d[1] = run
    BY <1>10 DEF Connect, port_for_run, FleetInv
  <2>2. QED
    BY <1>10, <2>1, Zenon DEF Connect, FleetInv, OrphansOnlyAfterTimeout, script, Devices
<1>11. ASSUME NEW d \in alive, DeviceExits(d) PROVE FleetInv'
  BY <1>11, Zenon DEF DeviceExits, FleetInv, OrphansOnlyAfterTimeout, script, Devices
<1>12. QED
  BY <1>1, <1>2, <1>3, <1>4, <1>4b, <1>5, <1>6, <1>7, <1>8, <1>9, <1>10, <1>11, Zenon DEF Next, Finished

(* Whatever the number of runs and devices, the devices of a run connect to *)
(* no other run (port_for_run) and outlive it only after a timeout inside   *)
(* the shared container (cleanup_fake_fleet, run_command).                  *)
THEOREM StayApart == Spec => []RunsStayApart
<1>1. Init => FleetInv
  BY FleetInit, Zenon
<1>2. FleetInv /\ [Next]_vars => FleetInv'
  BY FleetStep, Zenon
<1>3. FleetInv => RunsStayApart
  BY Zenon DEF FleetInv, RunsStayApart, OwnDevicesOnly
<1>4. QED
  BY <1>1, <1>2, <1>3, PTL DEF Spec

(***************************************************************************)
(* The metrics file.                                                       *)
(***************************************************************************)
Places == {"idle", "read", "snapshot", "write", "raised", "failed", "sampled", "wait", "join", "exited"}
PhaseCounts == [Phases -> Nat]
Entries == [record_type : {"sample", "terminal_error"}, counts : PhaseCounts]
(* What is written: the records of the file and of its buffer.              *)
Written == file \o buf

(* No phase is counted more often in c than in d.                           *)
Below(c, d) == \A p \in Phases : c[p] <= d[p]
OnlySamples(f) == \A i \in 1..Len(f) : f[i].record_type = "sample"
Ends(f) == \A i \in 1..(Len(f) - 1) : f[i].record_type = "sample"
Grows(f) ==
  \A i, j \in 1..Len(f) :
    i < j /\ f[i].record_type = "sample" /\ f[j].record_type = "sample" => Below(f[i].counts, f[j].counts)
AtMost(f, c) == \A i \in 1..Len(f) : f[i].record_type = "sample" => Below(f[i].counts, c)

(* The type of the collector's state.                                       *)
MetricsType ==
  /\ counts \in PhaseCounts /\ snap \in [Samplers -> PhaseCounts]
  /\ at \in [Samplers -> Places]
  /\ file \in Seq(Entries) /\ buf \in Seq(Entries)

(* What the collector writes are records, and the file an earlier sweep     *)
(* left is one sample.                                                      *)
LEMMA EntriesType ==
  /\ NoCounts \in PhaseCounts /\ Terminal \in Entries
  /\ Terminal.record_type = "terminal_error"
  /\ \A c \in PhaseCounts : Sample(c) \in Entries /\ Sample(c).record_type = "sample" /\ Sample(c).counts = c
  /\ LeftMetrics \in Seq(Entries) /\ Len(LeftMetrics) = 1 /\ LeftMetrics[1].record_type = "sample"
<1>1. NoCounts \in PhaseCounts
  BY Zenon DEF NoCounts, PhaseCounts
<1>2. Terminal \in Entries /\ Terminal.record_type = "terminal_error"
  BY <1>1, Zenon DEF Terminal, Entries
<1>3. ASSUME NEW c \in PhaseCounts PROVE Sample(c) \in Entries /\ Sample(c).record_type = "sample" /\ Sample(c).counts = c
  BY Zenon DEF Sample, Entries
<1>4. PICK c : c = [NoCounts EXCEPT !["iteration_total"] = Steps + 1]
  BY Zenon
<1>5. c \in PhaseCounts
  BY <1>1, <1>4, SweepAssumption DEF PhaseCounts
<1>6. PICK r \in Entries : r = Sample(c) /\ r.record_type = "sample"
  BY <1>3, <1>5, Zenon
<1>7. LeftMetrics = <<r>>
  BY <1>4, <1>6, Zenon DEF LeftMetrics
<1>8. QED
  BY <1>1, <1>2, <1>3, <1>6, <1>7

(* The counts of a record are phase counts.                                 *)
LEMMA EntryCounts ==
  ASSUME NEW r \in Entries PROVE r.counts \in PhaseCounts
  BY Zenon DEF Entries

(* Phase counts are ordered phase by phase.                                 *)
LEMMA BelowTransitive ==
  ASSUME NEW a \in PhaseCounts, NEW b \in PhaseCounts, NEW c \in PhaseCounts, Below(a, b), Below(b, c)
  PROVE  Below(a, c)
<1>1. ASSUME NEW p \in Phases PROVE a[p] <= c[p]
  <2>1. a[p] \in Nat /\ b[p] \in Nat /\ c[p] \in Nat
    BY Zenon DEF PhaseCounts
  <2>2. a[p] <= b[p] /\ b[p] <= c[p]
    BY Zenon DEF Below
  <2>3. QED
    BY <2>1, <2>2
<1>2. QED
  BY <1>1, Zenon DEF Below

(* Sequences of records with the same elements are equal.                   *)
LEMMA SameSeq ==
  ASSUME NEW f \in Seq(Entries), NEW g \in Seq(Entries), Len(f) = Len(g), \A i \in 1..Len(f) : f[i] = g[i]
  PROVE  f = g
  OBVIOUS

(* A flush that raises moves some of the buffer to the file and loses none  *)
(* of it.                                                                   *)
LEMMA SplitIsWhole ==
  ASSUME NEW f \in Seq(Entries), NEW b \in Seq(Entries), NEW k \in 0..Len(b)
  PROVE  /\ f \o SubSeq(b, 1, k) \in Seq(Entries) /\ SubSeq(b, k + 1, Len(b)) \in Seq(Entries)
         /\ (f \o SubSeq(b, 1, k)) \o SubSeq(b, k + 1, Len(b)) = f \o b
<1> DEFINE x == SubSeq(b, 1, k)
           y == SubSeq(b, k + 1, Len(b))
           z == f \o x
           u == z \o y
           v == f \o b
<1>1. x \in Seq(Entries) /\ Len(x) = k /\ \A i \in 1..k : x[i] = b[i]
  OBVIOUS
<1>2. y \in Seq(Entries) /\ Len(y) = Len(b) - k /\ \A i \in 1..(Len(b) - k) : y[i] = b[i + k]
  OBVIOUS
<1> HIDE DEF x, y
<1>3. /\ z \in Seq(Entries) /\ Len(z) = Len(f) + Len(x)
      /\ \A i \in 1..(Len(f) + Len(x)) : z[i] = IF i <= Len(f) THEN f[i] ELSE x[i - Len(f)]
  BY <1>1
<1>4. /\ v \in Seq(Entries) /\ Len(v) = Len(f) + Len(b)
      /\ \A i \in 1..(Len(f) + Len(b)) : v[i] = IF i <= Len(f) THEN f[i] ELSE b[i - Len(f)]
  OBVIOUS
<1> HIDE DEF z, v
<1>5. /\ u \in Seq(Entries) /\ Len(u) = Len(z) + Len(y)
      /\ \A i \in 1..(Len(z) + Len(y)) : u[i] = IF i <= Len(z) THEN z[i] ELSE y[i - Len(z)]
  <2>1. z \in Seq(Entries) /\ y \in Seq(Entries)
    BY <1>2, <1>3, Zenon
  <2>2. QED
    BY <2>1
<1> HIDE DEF u
<1>6. Len(f) \in Nat /\ Len(b) \in Nat /\ k <= Len(b) /\ Len(u) = Len(f) + Len(b) /\ Len(z) = Len(f) + k
  BY <1>1, <1>2, <1>3, <1>5
<1>7. ASSUME NEW i \in 1..Len(u) PROVE u[i] = v[i]
  <2>1. CASE i <= Len(f)
    <3>1. i \in 1..(Len(f) + Len(b)) /\ i \in 1..(Len(z) + Len(y)) /\ i \in 1..(Len(f) + Len(x)) /\ i <= Len(z)
      BY <1>1, <1>2, <1>6, <2>1
    <3>2. u[i] = z[i] /\ z[i] = f[i] /\ v[i] = f[i]
      BY <1>3, <1>4, <1>5, <2>1, <3>1, Zenon
    <3>3. QED
      BY <3>2, Zenon
  <2>2. CASE i > Len(f) /\ i <= Len(f) + k
    <3>1. /\ i \in 1..(Len(f) + Len(b)) /\ i \in 1..(Len(z) + Len(y)) /\ i \in 1..(Len(f) + Len(x))
          /\ i <= Len(z) /\ ~(i <= Len(f)) /\ i - Len(f) \in 1..k
      BY <1>1, <1>2, <1>6, <2>2
    <3>2. u[i] = z[i] /\ z[i] = x[i - Len(f)] /\ v[i] = b[i - Len(f)]
      BY <1>3, <1>4, <1>5, <3>1, Zenon
    <3>3. QED
      BY <1>1, <3>1, <3>2, Zenon
  <2>3. CASE i > Len(f) + k
    <3>1. /\ i \in 1..(Len(f) + Len(b)) /\ i \in 1..(Len(z) + Len(y)) /\ ~(i <= Len(z)) /\ ~(i <= Len(f))
          /\ i - Len(z) \in 1..(Len(b) - k) /\ i - Len(z) + k = i - Len(f)
      BY <1>2, <1>6, <2>3
    <3>2. u[i] = y[i - Len(z)] /\ v[i] = b[i - Len(f)]
      BY <1>4, <1>5, <3>1, Zenon
    <3>3. y[i - Len(z)] = b[i - Len(z) + k]
      BY <1>2, <3>1, Zenon
    <3>4. QED
      BY <3>1, <3>2, <3>3, Zenon
  <2>4. QED
    BY <1>6, <2>1, <2>2, <2>3
<1>8. u = v
  <2>1. u \in Seq(Entries) /\ v \in Seq(Entries) /\ Len(u) = Len(v)
    BY Zenon, <1>4, <1>5, <1>6
  <2>2. QED
    BY <1>7, <2>1, SameSeq, Zenon
<1>9. QED
  BY <1>2, <1>3, <1>8, Zenon DEF x, y, z, u, v

(* Writing to the buffer is appending to the file and the buffer together.  *)
LEMMA AppendWhole ==
  ASSUME NEW f \in Seq(Entries), NEW b \in Seq(Entries), NEW r \in Entries
  PROVE  f \o Append(b, r) = Append(f \o b, r) /\ f \o Append(b, r) \in Seq(Entries) /\ Append(b, r) \in Seq(Entries)
<1> DEFINE u == f \o Append(b, r)
           v == Append(f \o b, r)
<1>1. Append(b, r) \in Seq(Entries) /\ u \in Seq(Entries) /\ v \in Seq(Entries) /\ Len(u) = Len(v)
  OBVIOUS
<1>2. \A i \in 1..Len(u) : u[i] = v[i]
  OBVIOUS
<1> HIDE DEF u, v
<1>5. u = v
  BY <1>1, <1>2
<1>6. QED
  BY <1>1, <1>5, Zenon DEF u, v

(* Nothing is buffered after a flush.                                       *)
LEMMA EmptyTail ==
  ASSUME NEW f \in Seq(Entries) PROVE f \o <<>> = f /\ <<>> \o f = f
  OBVIOUS

(* write() and flush() add one record to what is written, whether flush     *)
(* raises or not (_sample_once, _record_failure).                           *)
LEMMA WriteAppends ==
  ASSUME MetricsType, NEW r \in Entries, Flushed(Append(buf, r)) \/ FlushRaises(Append(buf, r))
  PROVE  file' \in Seq(Entries) /\ buf' \in Seq(Entries) /\ Written' = Append(Written, r)
<1>1. PICK b : b = Append(buf, r)
  BY Zenon
<1>2. b \in Seq(Entries) /\ file \o b \in Seq(Entries) /\ file \o b = Append(Written, r)
  BY <1>1, AppendWhole, Zenon DEF MetricsType, Written
<1>3. CASE Flushed(b)
  BY <1>2, <1>3, EmptyTail DEF Flushed, Written
<1>4. CASE FlushRaises(b)
  <2>1. PICK k \in 0..Len(b) : file' = file \o SubSeq(b, 1, k) /\ buf' = SubSeq(b, k + 1, Len(b))
    BY <1>4, Zenon DEF FlushRaises
  <2>2. /\ file \o SubSeq(b, 1, k) \in Seq(Entries) /\ SubSeq(b, k + 1, Len(b)) \in Seq(Entries)
        /\ (file \o SubSeq(b, 1, k)) \o SubSeq(b, k + 1, Len(b)) = file \o b
    BY <1>2, SplitIsWhole, Zenon DEF MetricsType
  <2>3. QED
    BY <1>2, <2>1, <2>2, Zenon DEF Written
<1>5. QED
  BY <1>1, <1>3, <1>4, Zenon

(* _close_output may lose the end of what is written, and only what is      *)
(* still buffered.                                                          *)
LEMMA CloseTruncates ==
  ASSUME MetricsType, CloseOutput
  PROVE  /\ file' \in Seq(Entries) /\ buf' = <<>> /\ Written' = file'
         /\ Len(Written') <= Len(Written)
         /\ \A i \in 1..Len(Written') : Written'[i] = Written[i]
         /\ buf = <<>> => file' = file
<1>1. PICK k \in 0..Len(buf) : file' = file \o SubSeq(buf, 1, k)
  BY Zenon DEF CloseOutput
<1> DEFINE x == SubSeq(buf, 1, k)
<1>2. x \in Seq(Entries) /\ Len(x) = k /\ \A i \in 1..k : x[i] = buf[i]
  BY DEF MetricsType
<1> HIDE DEF x
<1>3. file' = file \o x
  BY <1>1, Zenon DEF x
<1>4. file' \in Seq(Entries) /\ Len(file') = Len(file) + k
  <2>1. file \in Seq(Entries) /\ x \in Seq(Entries) /\ Len(x) = k
    BY <1>2, Zenon DEF MetricsType
  <2>2. file \o x \in Seq(Entries) /\ Len(file \o x) = Len(file) + Len(x)
    BY <2>1
  <2>3. QED
    BY <1>3, <2>1, <2>2, Zenon
<1>5. Written' = file'
  BY <1>4, EmptyTail, Zenon DEF CloseOutput, Written
<1>6. Len(Written) = Len(file) + Len(buf) /\ Len(file) \in Nat /\ Len(buf) \in Nat
  BY DEF MetricsType, Written
<1>7. ASSUME NEW i \in 1..Len(file') PROVE file'[i] = Written[i]
  <2>1. CASE i <= Len(file)
    BY <1>2, <1>3, <1>4, <1>6, <2>1 DEF MetricsType, Written
  <2>2. CASE i > Len(file)
    <3>1. i - Len(file) \in 1..k
      BY <1>4, <1>6, <2>2
    <3>2. file'[i] = x[i - Len(file)] /\ Written[i] = buf[i - Len(file)]
      BY <1>2, <1>3, <1>4, <1>6, <2>2 DEF MetricsType, Written
    <3>3. QED
      BY <1>2, <3>1, <3>2, Zenon
  <2>3. QED
    BY <1>4, <1>6, <2>1, <2>2
<1>8. buf = <<>> => file' = file
  <2>1. buf = <<>> => x = <<>>
    BY <1>2
  <2>2. QED
    BY <1>3, <2>1, EmptyTail, Zenon DEF MetricsType
<1>9. Len(file') <= Len(Written)
  BY <1>4, <1>6
<1>10. QED
  BY <1>4, <1>5, <1>7, <1>8, <1>9, Zenon DEF CloseOutput

(* A sample of counts that no earlier sample exceeds keeps the file in      *)
(* order.                                                                   *)
LEMMA AppendSample ==
  ASSUME NEW f \in Seq(Entries), NEW c \in PhaseCounts, NEW d \in PhaseCounts,
         OnlySamples(f), Grows(f), AtMost(f, c), Below(c, d)
  PROVE  LET g == Append(f, Sample(c))
         IN OnlySamples(g) /\ Ends(g) /\ Grows(g) /\ AtMost(g, d) /\ Len(g) = Len(f) + 1 /\ g[Len(f) + 1] = Sample(c)
<1>1. PICK r \in Entries : r = Sample(c) /\ r.record_type = "sample" /\ r.counts = c
  BY EntriesType, Zenon
<1> DEFINE g == Append(f, r)
<1>2. /\ g \in Seq(Entries) /\ Len(g) = Len(f) + 1 /\ g[Len(f) + 1] = r
      /\ Len(f) \in Nat /\ \A i \in 1..Len(f) : g[i] = f[i]
  OBVIOUS
<1> HIDE DEF g
<1>3. OnlySamples(g) /\ Ends(g)
  BY <1>1, <1>2 DEF OnlySamples, Ends
<1>4. ASSUME NEW i \in 1..Len(g), NEW j \in 1..Len(g), i < j PROVE Below(g[i].counts, g[j].counts)
  <2>1. CASE j = Len(f) + 1
    BY <1>1, <1>2, <1>4, <2>1 DEF AtMost, OnlySamples
  <2>2. CASE j # Len(f) + 1
    BY <1>2, <1>4, <2>2 DEF Grows, OnlySamples
  <2>3. QED
    BY <2>1, <2>2, Zenon
<1>5. ASSUME NEW i \in 1..Len(g) PROVE Below(g[i].counts, d)
  <2>1. CASE i = Len(f) + 1
    BY <1>1, <1>2, <2>1, Zenon
  <2>2. CASE i # Len(f) + 1
    <3>1. Below(f[i].counts, c) /\ g[i] = f[i] /\ f[i] \in Entries
      BY <1>2, <2>2 DEF AtMost, OnlySamples
    <3>2. f[i].counts \in PhaseCounts
      BY <3>1, EntryCounts, Zenon
    <3>3. PICK e \in PhaseCounts : e = g[i].counts /\ Below(e, c)
      BY <3>1, <3>2, Zenon
    <3>4. Below(e, d)
      BY <3>3, BelowTransitive, Zenon
    <3>5. QED
      BY <3>3, <3>4, Zenon
  <2>3. QED
    BY <2>1, <2>2, Zenon
<1>6. QED
  BY <1>1, <1>2, <1>3, <1>4, <1>5, Zenon DEF Grows, AtMost, g

(* A terminal record after samples keeps the file in order.                 *)
LEMMA AppendTerminal ==
  ASSUME NEW f \in Seq(Entries), NEW d, OnlySamples(f), Grows(f)
  PROVE  LET g == Append(f, Terminal) IN Ends(g) /\ Grows(g) /\ (AtMost(f, d) => AtMost(g, d))
<1>1. PICK r \in Entries : r = Terminal /\ r.record_type = "terminal_error"
  BY EntriesType, Zenon
<1> DEFINE g == Append(f, r)
<1>2. /\ g \in Seq(Entries) /\ Len(g) = Len(f) + 1 /\ g[Len(f) + 1] = r
      /\ Len(f) \in Nat /\ \A i \in 1..Len(f) : g[i] = f[i]
  OBVIOUS
<1> HIDE DEF g
<1>3. Ends(g)
  BY <1>2 DEF Ends, OnlySamples
<1>4. Grows(g)
  BY <1>1, <1>2 DEF Grows
<1>5. AtMost(f, d) => AtMost(g, d)
  BY <1>1, <1>2 DEF AtMost
<1>6. QED
  BY <1>1, <1>2, <1>3, <1>4, <1>5, Zenon DEF g

(* Losing the end of the file keeps it in order.                            *)
LEMMA TruncateKeeps ==
  ASSUME NEW f \in Seq(Entries), NEW g \in Seq(Entries), Len(g) <= Len(f), \A i \in 1..Len(g) : g[i] = f[i],
         Ends(f), Grows(f)
  PROVE  Ends(g) /\ Grows(g) /\ (OnlySamples(f) => OnlySamples(g))
<1>1. Ends(g)
  BY DEF Ends
<1>2. Grows(g)
  BY DEF Grows
<1>3. OnlySamples(f) => OnlySamples(g)
  BY DEF OnlySamples
<1>4. QED
  BY <1>1, <1>2, <1>3, Zenon

(***************************************************************************)
(* Where the collector is.                                                 *)
(***************************************************************************)
Live == {"golden", "backend", "spawn", "connect", "iteration", "phase", "phase_raising", "cleanup"}
Trying == {"read", "snapshot", "write", "raised"}

(* Who samples when.  Between start() and stop() it is the thread, before   *)
(* and after it the process; a sampler that has not given up means that     *)
(* nobody failed, and without a recorder start() failed.                    *)
ControlInv ==
  /\ failure \in BOOLEAN /\ recorder \in BOOLEAN
  /\ pc \in {"none", "start"} =>
       at["main"] = "idle" /\ at["thread"] = "idle" /\ output = "none" /\ ~failure /\ ~recorder
  /\ pc = "sampling" =>
       /\ at["thread"] = "idle" /\ output = "open" /\ ~recorder
       /\ at["main"] \in Trying \cup {"sampled", "failed"}
  /\ pc \in Live => at["main"] = "idle"
  /\ pc \in Live \cup {"collector"} =>
       \/ recorder /\ output = "open" /\ at["thread"] \in Trying \cup {"wait", "failed", "exited"}
       \/ ~recorder /\ failure /\ at["thread"] = "idle" /\ at["main"] = "idle"
  /\ pc = "collector" /\ at["main"] \notin {"idle", "join"} => at["thread"] = "exited"
  /\ pc = "collector" => at["main"] \in Trying \cup {"idle", "join", "sampled", "failed"}
  /\ at["main"] \in Trying \cup {"sampled"} => ~failure
  /\ at["thread"] \in Trying \cup {"wait"} => ~failure
  /\ at["main"] = "failed" => failure
  /\ at["thread"] = "failed" => failure

(* A step of one sampler leaves the other where it is.                      *)
LEMMA GoesTo ==
  ASSUME at \in [Samplers -> Places], NEW w \in Samplers, NEW l \in Places, Goes(w, l)
  PROVE  at' \in [Samplers -> Places] /\ at'[w] = l /\ \A v \in Samplers : v # w => at'[v] = at[v]
  BY Zenon DEF Goes

(* GoesTo for the process.                                                  *)
LEMMA MainGoes ==
  ASSUME at \in [Samplers -> Places], NEW l \in Places, Goes("main", l)
  PROVE  at' \in [Samplers -> Places] /\ at'["main"] = l /\ at'["thread"] = at["thread"]
  BY GoesTo, Zenon DEF Samplers

(* GoesTo for the thread.                                                   *)
LEMMA ThreadGoes ==
  ASSUME at \in [Samplers -> Places], NEW l \in Places, Goes("thread", l)
  PROVE  at' \in [Samplers -> Places] /\ at'["thread"] = l /\ at'["main"] = at["main"]
  BY GoesTo, Zenon DEF Samplers

(* start() leaves the process idle and the thread waiting.                  *)
LEMMA ThreadStarts ==
  ASSUME at \in [Samplers -> Places], StartThread
  PROVE  at' \in [Samplers -> Places] /\ at'["thread"] = "wait" /\ at'["main"] = "idle"
  BY Zenon DEF StartThread, Samplers, Places

(* A fresh collector samples nothing.                                       *)
LEMMA AllIdle ==
  ASSUME ResetMetrics
  PROVE  at' \in [Samplers -> Places] /\ at'["thread"] = "idle" /\ at'["main"] = "idle"
  BY Zenon DEF ResetMetrics, Samplers, Places

(* PhaseRecorder counts one phase up when there is a recorder and nothing   *)
(* otherwise (track).                                                       *)
LEMMA TrackCounts ==
  ASSUME MetricsType, NEW p \in Phases, Track(p)
  PROVE  /\ counts' \in PhaseCounts /\ Below(counts, counts')
         /\ recorder => \A q \in Phases : counts'[q] = IF q = p THEN counts[q] + 1 ELSE counts[q]
         /\ ~recorder => counts' = counts
<1>1. CASE recorder
  <2>1. counts' = [counts EXCEPT ![p] = counts[p] + 1]
    BY <1>1, Zenon DEF Track, Record
  <2>2. counts[p] \in Nat
    BY Zenon DEF MetricsType, PhaseCounts
  <2>3. counts[p] + 1 \in Nat /\ counts[p] <= counts[p] + 1 /\ \A n \in Nat : n <= n
    BY <2>2
  <2>4. counts' \in PhaseCounts /\ \A q \in Phases : counts'[q] = IF q = p THEN counts[q] + 1 ELSE counts[q]
    BY <2>1, <2>3, Zenon DEF MetricsType, PhaseCounts
  <2>5. QED
    BY <1>1, <2>3, <2>4, Zenon DEF MetricsType, PhaseCounts, Below
<1>2. CASE ~recorder
  <2>1. \A n \in Nat : n <= n
    OBVIOUS
  <2>2. QED
    BY <1>2, <2>1, Zenon DEF MetricsType, PhaseCounts, Below, Track
<1>3. QED
  BY <1>1, <1>2, Zenon

(* The order of phase counts is reflexive.                                  *)
LEMMA BelowItself ==
  ASSUME NEW c \in PhaseCounts PROVE Below(c, c)
<1>1. \A n \in Nat : n <= n
  OBVIOUS
<1>2. QED
  BY <1>1, Zenon DEF PhaseCounts, Below

(* The collector of the first run is fresh.                                 *)
LEMMA ControlInit ==
  ASSUME Init PROVE ControlInv /\ MetricsType
<1>1. at \in [Samplers -> Places] /\ at["main"] = "idle" /\ at["thread"] = "idle"
  BY Zenon DEF Init, InitMetrics, Samplers, Places
<1>2. ControlInv
  BY <1>1, Zenon DEF Init, InitMetrics, ControlInv, Live, Trying
<1>3. MetricsType
  BY <1>1, EntriesType DEF Init, InitMetrics, MetricsType
<1>4. QED
  BY <1>2, <1>3, Zenon

(***************************************************************************)
(* The type.                                                               *)
(***************************************************************************)
(* The steps of _sample_once and _record_failure keep the type.             *)
LEMMA SampleType ==
  ASSUME MetricsType, NEW w \in Samplers, Read(w) \/ Snapshot(w) \/ Write(w) \/ RecordFailure(w)
  PROVE  MetricsType'
<1>1. CASE Read(w)
  BY <1>1, GoesTo, Zenon DEF Read, MetricsType, Places
<1>2. CASE Snapshot(w)
  <2>1. at' \in [Samplers -> Places]
    BY <1>2, GoesTo, Zenon DEF Snapshot, MetricsType, Places
  <2>2. snap' \in [Samplers -> PhaseCounts]
    BY <1>2, Zenon DEF Snapshot, MetricsType
  <2>3. QED
    BY <1>2, <2>1, <2>2, Zenon DEF Snapshot, MetricsType
<1>3. CASE Write(w)
  <2>1. at' \in [Samplers -> Places]
    BY <1>3, GoesTo, Zenon DEF Write, MetricsType, Places, Sampled
  <2>2. Sample(snap[w]) \in Entries
    BY EntriesType, Zenon DEF MetricsType
  <2>3. file' \in Seq(Entries) /\ buf' \in Seq(Entries)
    BY <1>3, <2>2, WriteAppends, Zenon DEF Write, MetricsType
  <2>4. QED
    BY <1>3, <2>1, <2>3, Zenon DEF Write, MetricsType
<1>4. CASE RecordFailure(w)
  <2>1. at' \in [Samplers -> Places]
    BY <1>4, GoesTo, Zenon DEF RecordFailure, MetricsType, Places
  <2>2. file' \in Seq(Entries) /\ buf' \in Seq(Entries)
    BY <1>4, EntriesType, WriteAppends, Zenon DEF RecordFailure, MetricsType
  <2>3. QED
    BY <1>4, <2>1, <2>2, Zenon DEF RecordFailure, MetricsType
<1>5. QED
  BY <1>1, <1>2, <1>3, <1>4, Zenon

(* So do the other calls of the collector.                                  *)
LEMMA CallType ==
  ASSUME MetricsType, Open \/ Run \/ StartThread \/ SetStopEvent \/ Join \/ CloseOutput
  PROVE  MetricsType'
<1>1. CASE Open
  <2>1. <<>> \in Seq(Entries)
    OBVIOUS
  <2>2. QED
    BY <1>1, <2>1, MainGoes, Zenon DEF Open, MetricsType, Places
<1>2. CASE Run
  BY <1>2, ThreadGoes, Zenon DEF Run, MetricsType, Places
<1>3. CASE StartThread
  BY <1>3, ThreadStarts, Zenon DEF StartThread, MetricsType
<1>4. CASE SetStopEvent \/ Join
  BY <1>4, MainGoes, Zenon DEF SetStopEvent, Join, MetricsType, Places
<1>5. CASE CloseOutput
  <2>1. file' \in Seq(Entries) /\ buf' \in Seq(Entries)
    BY <1>5, CloseTruncates
  <2>2. QED
    BY <1>5, <2>1, MainGoes, Zenon DEF CloseOutput, MetricsType, Places
<1>6. QED
  BY <1>1, <1>2, <1>3, <1>4, <1>5, Zenon

(* And so does the end of a run.                                            *)
LEMMA ResetType ==
  ASSUME ResetMetrics, file' = LeftMetrics PROVE MetricsType'
<1>1. buf' \in Seq(Entries) /\ file' \in Seq(Entries)
  BY EntriesType DEF ResetMetrics
<1>2. snap' \in [Samplers -> PhaseCounts] /\ counts' \in PhaseCounts
  BY EntriesType, Zenon DEF ResetMetrics
<1>3. QED
  BY <1>1, <1>2, AllIdle, Zenon DEF MetricsType

(* Every step keeps MetricsType.                                            *)
LEMMA TypeStep ==
  ASSUME MetricsType, [Next]_vars PROVE MetricsType'
<1>1. CASE UNCHANGED metrics
  BY <1>1, Zenon DEF metrics, collector, MetricsType
<1>2. CASE RunReturns \/ RunTimeout
  BY <1>2, ResetType, Zenon DEF RunReturns, RunTimeout, Recorded
<1>3. CASE StartCollector
  BY <1>1, <1>3, CallType, Zenon DEF StartCollector
<1>4. CASE CollectorStarted
  BY <1>4, CallType, Zenon DEF CollectorStarted
<1>5. CASE Forward \/ EndIteration
  <2>1. counts' \in PhaseCounts
    BY <1>5, TrackCounts, SweepAssumption, Zenon DEF Forward, EndIteration, IterationPhase, MetricsType
  <2>2. QED
    BY <1>5, <2>1, Zenon DEF Forward, EndIteration, collector, MetricsType
<1>6. CASE StopCollector \/ ForceExit
  BY <1>1, <1>6, CallType, Zenon DEF StopCollector, ForceExit
<1>7. CASE CollectorStep
  BY <1>7, CallType, SampleType, Zenon DEF CollectorStep, Sampling, Samplers
<1>8. QED
  BY <1>1, <1>2, <1>3, <1>4, <1>5, <1>6, <1>7, Zenon DEF Next, vars, StartRun, StartRunRaises, RunTimeoutRaises, WriteSummary,
     GoldenAndBackend, SpawnFakeFleet, WaitForConnections, StopBackend, CleanupFakeFleet,
     Connect, DeviceExits, Finished

(***************************************************************************)
(* The control of the collector.                                           *)
(***************************************************************************)
(* A step of the script alone keeps ControlInv when it moves from one stage *)
(* to the next or leaves the script.                                        *)
LEMMA ControlMoves ==
  ASSUME ControlInv, UNCHANGED <<at, output, failure, recorder>>,
         \/ pc' = pc
         \/ pc' \in {"hung", "killed", "exited"}
         \/ pc = "none" /\ pc' = "start"
         \/ pc \in Live /\ pc' \in Live \cup {"collector"}
  PROVE  ControlInv'
  BY Zenon DEF ControlInv, Live

(* The process samples in start() before there is a thread and in stop()    *)
(* after it has joined it.                                                  *)
LEMMA MainSamples ==
  ASSUME ControlInv, at \in [Samplers -> Places], pc \in {"sampling", "collector"},
         Read("main") \/ Snapshot("main") \/ Write("main") \/ RecordFailure("main"),
         UNCHANGED <<pc, recorder>>
  PROVE  ControlInv'
<1>1. /\ at["main"] \in Trying /\ at'["thread"] = at["thread"] /\ output' = output
      /\ \/ failure' = failure /\ at'["main"] \in Trying \cup {"sampled"}
         \/ failure' = TRUE /\ at'["main"] = "failed"
      /\ ~failure /\ at["thread"] \in {"idle", "exited"}
  BY MainGoes, Zenon DEF Read, Snapshot, Write, RecordFailure, Sampled, Trying, Places, ControlInv
<1>2. CASE pc = "sampling"
  <2>1. output' = "open" /\ ~recorder' /\ at'["thread"] = "idle" /\ pc' = "sampling" /\ recorder' \in BOOLEAN
    BY <1>1, <1>2, Zenon DEF ControlInv
  <2>2. CASE failure' = failure /\ at'["main"] \in Trying \cup {"sampled"}
    BY <1>1, <2>1, <2>2, Zenon DEF ControlInv, Live, Trying
  <2>3. CASE failure' = TRUE /\ at'["main"] = "failed"
    BY <2>1, <2>3, Zenon DEF ControlInv, Live, Trying
  <2>4. QED
    BY <1>1, <2>2, <2>3, Zenon
<1>3. CASE pc = "collector"
  <2>1. output' = "open" /\ recorder' /\ at'["thread"] = "exited" /\ pc' = "collector" /\ recorder' \in BOOLEAN
    BY <1>1, <1>3, Zenon DEF ControlInv, Trying
  <2>2. CASE failure' = failure /\ at'["main"] \in Trying \cup {"sampled"}
    BY <1>1, <2>1, <2>2, Zenon DEF ControlInv, Live, Trying
  <2>3. CASE failure' = TRUE /\ at'["main"] = "failed"
    BY <2>1, <2>3, Zenon DEF ControlInv, Live, Trying
  <2>4. QED
    BY <1>1, <2>2, <2>3, Zenon
<1>4. QED
  BY <1>2, <1>3, Zenon

(* The thread samples while the process does not.                           *)
LEMMA ThreadSamples ==
  ASSUME ControlInv, at \in [Samplers -> Places], Running, pc \in Stages,
         Read("thread") \/ Snapshot("thread") \/ Write("thread") \/ RecordFailure("thread") \/ Run,
         UNCHANGED <<pc, recorder>>
  PROVE  ControlInv'
<1>1. /\ at["thread"] \in Trying \cup {"wait", "failed"} /\ at'["main"] = at["main"] /\ output' = output
      /\ \/ failure' = failure /\ at'["thread"] \in Trying \cup {"wait"} /\ at["thread"] # "failed"
         \/ failure' = failure /\ at'["thread"] = "exited"
         \/ failure' = TRUE /\ at'["thread"] = "failed"
  BY ThreadGoes, Zenon DEF Read, Snapshot, Write, RecordFailure, Run, Sampled, Trying, Places, ControlInv
<1>2. pc \in Live \cup {"collector"} /\ at["main"] \in {"idle", "join"}
  BY <1>1, Zenon DEF ControlInv, Live, Trying, Running, Stages, Before
<1>3. /\ output' = "open" /\ recorder' /\ recorder' \in BOOLEAN /\ pc' \in Live \cup {"collector"}
      /\ at'["main"] \in {"idle", "join"} /\ (pc' \in Live => at'["main"] = "idle")
      /\ failure \in BOOLEAN /\ (at["thread"] # "failed" => ~failure)
  BY <1>1, <1>2, Zenon DEF ControlInv, Trying
<1>4. CASE failure' = failure /\ at'["thread"] \in Trying \cup {"wait"} /\ at["thread"] # "failed"
  BY <1>3, <1>4, Zenon DEF ControlInv, Live, Trying
<1>5. CASE failure' = failure /\ at'["thread"] = "exited"
  BY <1>3, <1>5, Zenon DEF ControlInv, Live, Trying
<1>6. CASE failure' = TRUE /\ at'["thread"] = "failed"
  BY <1>3, <1>6, Zenon DEF ControlInv, Live, Trying
<1>7. QED
  BY <1>1, <1>4, <1>5, <1>6, Zenon

(* Every step keeps ControlInv.                                             *)
LEMMA ControlStep ==
  ASSUME ControlInv, MetricsType, FleetInv, [Next]_vars PROVE ControlInv'
<1> USE Zenon DEF MetricsType
<1>1. ASSUME UNCHANGED <<at, output, failure, recorder, pc>> PROVE ControlInv'
  BY <1>1, ControlMoves, Zenon
<1>2. ASSUME StartRun \/ WaitForConnections \/ StopBackend \/ Forward \/ EndIteration \/ GoldenAndBackend
             \/ SpawnFakeFleet \/ CleanupFakeFleet \/ RunTimeoutRaises
      PROVE ControlInv'
  <2>1. UNCHANGED <<at, output, failure, recorder>>
    BY <1>2, Zenon DEF StartRun, WaitForConnections, StopBackend, Forward, EndIteration, GoldenAndBackend,
       SpawnFakeFleet, CleanupFakeFleet, RunTimeoutRaises, metrics, collector
  <2>2. \/ pc' = pc
        \/ pc' \in {"hung", "killed", "exited"}
        \/ pc = "none" /\ pc' = "start"
        \/ pc \in Live /\ pc' \in Live \cup {"collector"}
    BY <1>2, Zenon DEF StartRun, WaitForConnections, StopBackend, Forward, EndIteration, GoldenAndBackend,
       SpawnFakeFleet, CleanupFakeFleet, RunTimeoutRaises, Uncaught, Live
  <2>3. QED
    BY <2>1, <2>2, ControlMoves, Zenon
<1>3. ASSUME RunReturns \/ RunTimeout PROVE ControlInv'
  <2>1. ResetMetrics /\ pc' = "none" /\ recorder' = FALSE
    BY <1>3, Zenon DEF RunReturns, RunTimeout, Recorded
  <2>2. output' = "none" /\ failure' = FALSE /\ at'["main"] = "idle" /\ at'["thread"] = "idle"
    BY <2>1, AllIdle, Zenon DEF ResetMetrics
  <2>3. QED
    BY <2>1, <2>2, Zenon DEF ControlInv, Live, Trying
<1>4. ASSUME StartCollector PROVE ControlInv'
  <2>1. CASE Open /\ pc' = "sampling"
    BY <1>4, <2>1, MainGoes, SMT DEF StartCollector, Open, ControlInv, Live, Trying, Places
  <2>2. CASE Uncaught /\ UNCHANGED metrics
    <3>1. UNCHANGED <<at, output, failure, recorder>> /\ pc' \in {"hung", "killed", "exited"}
      BY <1>4, <2>2, Zenon DEF StartCollector, metrics, collector, Uncaught
    <3>2. QED
      BY <3>1, ControlMoves, Zenon
  <2>3. QED
    BY <1>4, <2>1, <2>2, Zenon DEF StartCollector
<1>5. ASSUME CollectorStarted PROVE ControlInv'
  <2>1. CASE StartThread /\ recorder'
    BY <1>5, <2>1, ThreadStarts, SMT DEF CollectorStarted, StartThread, ControlInv, Live, Trying
  <2>2. CASE at["main"] = "failed" /\ CloseOutput /\ recorder' = FALSE
    <3>1. /\ pc' = "golden" /\ failure /\ failure' = failure /\ failure \in BOOLEAN
          /\ at'["main"] = "idle" /\ at'["thread"] = "idle"
      BY <1>5, <2>2, MainGoes, Zenon DEF CollectorStarted, CloseOutput, ControlInv, Places
    <3>2. QED
      BY <2>2, <3>1, Zenon DEF ControlInv, Live, Trying
  <2>3. QED
    BY <1>5, <2>1, <2>2, Zenon DEF CollectorStarted
<1>6. ASSUME StopCollector PROVE ControlInv'
  <2>1. CASE SetStopEvent
    BY <1>6, <2>1, MainGoes, SMT DEF StopCollector, SetStopEvent, script, ControlInv, Live, Trying, Places
  <2>2. CASE Join
    BY <1>6, <2>2, MainGoes, SMT DEF StopCollector, Join, script, ControlInv, Live, Trying, Places
  <2>3. QED
    BY <1>6, <2>1, <2>2, Zenon DEF StopCollector
<1>7. ASSUME ForceExit PROVE ControlInv'
  <2>1. CASE CloseOutput
    BY <1>7, <2>1, MainGoes, SMT DEF ForceExit, CloseOutput, ControlInv, Live, Trying, Places
  <2>2. CASE UNCHANGED metrics
    <3>1. UNCHANGED <<at, output, failure, recorder>> /\ pc' \in {"hung", "killed", "exited"}
      BY <1>7, <2>2, Zenon DEF ForceExit, metrics, collector
    <3>2. QED
      BY <3>1, ControlMoves, Zenon
  <2>3. QED
    BY <1>7, <2>1, <2>2, Zenon DEF ForceExit
<1>8. ASSUME CollectorStep PROVE ControlInv'
  BY <1>8, MainSamples, ThreadSamples, Zenon DEF CollectorStep, Sampling, Samplers, script, FleetInv
<1>9. QED
  BY <1>1, <1>2, <1>3, <1>4, <1>5, <1>6, <1>7, <1>8, Zenon DEF Next, vars, script, metrics, collector,
     StartRunRaises, WriteSummary, Connect, DeviceExits, Finished

(***************************************************************************)
(* The file.                                                               *)
(***************************************************************************)
(* The file is in order, and no sample of an open file exceeds the counts,  *)
(* nor the snapshot that is about to be written.                            *)
FileInv ==
  /\ Ends(Written) /\ Grows(Written)
  /\ ~failure => OnlySamples(Written)
  /\ output = "open" => AtMost(Written, counts)
  /\ \A w \in Samplers : at[w] = "write" /\ output = "open" => AtMost(Written, snap[w]) /\ Below(snap[w], counts)

(* AtMost is monotone in the counts.                                        *)
LEMMA AtMostBelow ==
  ASSUME NEW f \in Seq(Entries), NEW c \in PhaseCounts, NEW d \in PhaseCounts, AtMost(f, c), Below(c, d)
  PROVE  AtMost(f, d)
<1>1. ASSUME NEW i \in 1..Len(f), f[i].record_type = "sample" PROVE Below(f[i].counts, d)
  <2>1. PICK r \in Entries : r = f[i]
    OBVIOUS
  <2>2. PICK e \in PhaseCounts : e = r.counts
    BY EntryCounts, Zenon
  <2>3. Below(e, c)
    BY <1>1, <2>1, <2>2, Zenon DEF AtMost
  <2>4. QED
    BY <2>1, <2>2, <2>3, BelowTransitive, Zenon
<1>2. QED
  BY <1>1, Zenon DEF AtMost

(* What is written are records.                                             *)
LEMMA WrittenType ==
  ASSUME MetricsType PROVE Written \in Seq(Entries)
  BY DEF MetricsType, Written

(* A step that writes nothing and only counts up keeps FileInv.             *)
LEMMA FileMoves ==
  ASSUME MetricsType, FileInv, UNCHANGED <<output, file, buf, failure, snap>>,
         counts' \in PhaseCounts, Below(counts, counts'), \A w \in Samplers : at'[w] = "write" => at[w] = "write"
  PROVE  FileInv'
<1>1. Written' = Written
  BY Zenon DEF Written
<1>2. AtMost(Written, counts) => AtMost(Written, counts')
  BY WrittenType, AtMostBelow, Zenon DEF MetricsType
<1>3. ASSUME NEW w \in Samplers, Below(snap[w], counts) PROVE Below(snap[w], counts')
  BY <1>3, BelowTransitive, Zenon DEF MetricsType
<1>4. QED
  BY <1>1, <1>2, <1>3, Zenon DEF FileInv

(* A sample is written in order, because only one of the two samplers is    *)
(* writing.                                                                 *)
LEMMA FileWrite ==
  ASSUME MetricsType, FileInv, NEW w \in Samplers, Write(w), ~failure,
         \A v \in Samplers : v # w => at[v] # "write"
  PROVE  FileInv'
<1>1. /\ at[w] = "write" /\ UNCHANGED <<counts, output, failure, snap>>
      /\ \A v \in Samplers : at'[v] # "write"
  BY GoesTo, Zenon DEF Write, Sampled, MetricsType, Places
<1>2. CASE output = "open"
  <2>1. snap[w] \in PhaseCounts /\ Sample(snap[w]) \in Entries
    BY EntriesType, Zenon DEF MetricsType
  <2>2. Written' = Append(Written, Sample(snap[w]))
    BY <1>2, <2>1, WriteAppends, Zenon DEF Write
  <2>3. /\ OnlySamples(Written) /\ Grows(Written) /\ AtMost(Written, snap[w]) /\ Below(snap[w], counts)
        /\ counts \in PhaseCounts
    BY <1>1, <1>2, Zenon DEF FileInv, MetricsType
  <2>4. LET g == Append(Written, Sample(snap[w])) IN OnlySamples(g) /\ Ends(g) /\ Grows(g) /\ AtMost(g, counts)
    BY <2>1, <2>3, WrittenType, AppendSample, Zenon
  <2>5. QED
    BY <1>1, <2>2, <2>4, Zenon DEF FileInv
<1>3. CASE output # "open"
  <2>1. Written' = Written
    BY <1>3, Zenon DEF Write, Written
  <2>2. QED
    BY <1>1, <1>3, <2>1, Zenon DEF FileInv
<1>4. QED
  BY <1>2, <1>3, Zenon

(* The first failure ends the file (_record_failure).                       *)
LEMMA FileFailure ==
  ASSUME MetricsType, FileInv, NEW w \in Samplers, RecordFailure(w)
  PROVE  FileInv'
<1>1. /\ UNCHANGED <<counts, output, snap>> /\ \A v \in Samplers : at'[v] = "write" => at[v] = "write"
  BY GoesTo, Zenon DEF RecordFailure, MetricsType, Places
<1>2. CASE UNCHANGED <<file, buf>>
  <2>1. Written' = Written
    BY <1>2, Zenon DEF Written
  <2>2. failure => failure'
    BY Zenon DEF RecordFailure
  <2>3. QED
    BY <1>1, <2>1, <2>2, Zenon DEF FileInv
<1>3. CASE Flushed(Append(buf, Terminal)) \/ FlushRaises(Append(buf, Terminal))
  <2>1. Written' = Append(Written, Terminal)
    BY <1>3, EntriesType, WriteAppends, Zenon
  <2>2. CASE failure
    BY <1>1, <1>2, <2>2, Zenon DEF RecordFailure
  <2>3. CASE ~failure
    <3>1. failure' /\ OnlySamples(Written) /\ Grows(Written)
      BY <2>3, Zenon DEF RecordFailure, FileInv
    <3>2. LET g == Append(Written, Terminal) IN Ends(g) /\ Grows(g) /\ \A d : AtMost(Written, d) => AtMost(g, d)
      BY <3>1, WrittenType, AppendTerminal, Zenon
    <3>3. QED
      BY <1>1, <2>1, <3>1, <3>2, Zenon DEF FileInv
  <2>4. QED
    BY <2>2, <2>3, Zenon
<1>4. QED
  BY <1>2, <1>3, Zenon DEF RecordFailure

(* Closing the output keeps the file in order.                              *)
LEMMA FileClose ==
  ASSUME MetricsType, FileInv, CloseOutput PROVE FileInv'
<1>1. output' = "none" /\ failure' = failure
  BY Zenon DEF CloseOutput
<1>2. Ends(Written') /\ Grows(Written') /\ (OnlySamples(Written) => OnlySamples(Written'))
  BY CloseTruncates, WrittenType, TruncateKeeps, Zenon DEF FileInv
<1>3. QED
  BY <1>1, <1>2, Zenon DEF FileInv

(* A file of at most one sample is in order.                                *)
LEMMA FileFresh ==
  ASSUME NEW f \in Seq(Entries), Len(f) <= 1, \A i \in 1..Len(f) : f[i].record_type = "sample"
  PROVE  Ends(f) /\ Grows(f) /\ OnlySamples(f)
  BY DEF Ends, Grows, OnlySamples

(* Every step keeps FileInv.                                                *)
LEMMA FileStep ==
  ASSUME FileInv, ControlInv, MetricsType, FleetInv, [Next]_vars PROVE FileInv'
<1> USE Zenon
<1>1. MetricsType' /\ counts \in PhaseCounts /\ counts' \in PhaseCounts /\ Below(counts, counts)
  BY TypeStep, BelowItself, Zenon DEF MetricsType
<1>2. ASSUME UNCHANGED metrics PROVE FileInv'
  BY <1>1, <1>2, FileMoves, Zenon DEF metrics, collector
<1>3. ASSUME RunReturns \/ RunTimeout PROVE FileInv'
  <2>1. ResetMetrics /\ file' = LeftMetrics
    BY <1>3, Zenon DEF RunReturns, RunTimeout, Recorded
  <2>2. Written' = LeftMetrics
    BY <2>1, EntriesType, EmptyTail, Zenon DEF Written, ResetMetrics
  <2>3. Len(LeftMetrics) <= 1 /\ \A i \in 1..Len(LeftMetrics) : LeftMetrics[i].record_type = "sample"
    BY EntriesType, SMT
  <2>4. Ends(Written') /\ Grows(Written') /\ OnlySamples(Written')
    BY <2>2, <2>3, EntriesType, FileFresh, Zenon
  <2>5. QED
    BY <2>1, <2>4, SMT DEF ResetMetrics, FileInv
<1>4. ASSUME Open, pc = "start" PROVE FileInv'
  <2>1. Written' = <<>> /\ output' = "open" /\ counts' = counts
    BY <1>4, EmptyTail, SMT DEF Open, Written
  <2>2. <<>> \in Seq(Entries) /\ Len(<<>>) = 0
    BY SMT
  <2>3. Ends(Written') /\ Grows(Written') /\ OnlySamples(Written') /\ AtMost(Written', counts')
    BY <2>1, SMT DEF Ends, Grows, OnlySamples, AtMost
  <2>4. \A v \in Samplers : at'[v] # "write"
    BY <1>4, MainGoes, SMT DEF Open, ControlInv, MetricsType, Samplers, Places
  <2>5. QED
    BY <2>3, <2>4, Zenon DEF FileInv
<1>5. ASSUME Run \/ StartThread \/ SetStopEvent \/ Join PROVE FileInv'
  <2>1. UNCHANGED <<counts, output, file, buf, failure, snap>>
    BY <1>5, Zenon DEF Run, StartThread, SetStopEvent, Join
  <2>2. \A w \in Samplers : at'[w] = "write" => at[w] = "write"
    <3>1. CASE Run
      BY <3>1, ThreadGoes, SMT DEF Run, Samplers, Places, MetricsType
    <3>2. CASE StartThread
      BY <3>2, ThreadStarts, SMT DEF Samplers, MetricsType
    <3>3. CASE SetStopEvent \/ Join
      BY <3>3, MainGoes, SMT DEF SetStopEvent, Join, Samplers, Places, MetricsType
    <3>4. QED
      BY <1>5, <3>1, <3>2, <3>3, Zenon
  <2>3. QED
    BY <1>1, <2>1, <2>2, FileMoves, Zenon
<1>6. ASSUME Forward \/ EndIteration PROVE FileInv'
  <2>1. Below(counts, counts')
    BY <1>1, <1>6, TrackCounts, SweepAssumption, Zenon DEF Forward, EndIteration, IterationPhase
  <2>2. QED
    BY <1>1, <1>6, <2>1, FileMoves, Zenon DEF Forward, EndIteration, collector
<1>7. ASSUME NEW w \in Samplers, Read(w) PROVE FileInv'
  <2>1. \A v \in Samplers : at'[v] = "write" => at[v] = "write"
    BY <1>7, GoesTo, Zenon DEF Read, Places, MetricsType
  <2>2. QED
    BY <1>1, <1>7, <2>1, FileMoves, Zenon DEF Read
<1>8. ASSUME NEW w \in Samplers, Snapshot(w) PROVE FileInv'
  <2>1. /\ UNCHANGED <<counts, output, file, buf, failure>> /\ snap'[w] = counts
        /\ \A v \in Samplers : v # w => at'[v] = at[v] /\ snap'[v] = snap[v]
    BY <1>8, GoesTo, Zenon DEF Snapshot, Places, MetricsType
  <2>2. Written' = Written
    BY <2>1, Zenon DEF Written
  <2>3. QED
    BY <1>1, <2>1, <2>2, Zenon DEF FileInv
<1>9. ASSUME NEW w \in Samplers, Write(w), Running, pc \in {"sampling", "collector"} \/ w = "thread" PROVE FileInv'
  <2>1. at[w] = "write" /\ ~failure
    BY <1>9, SMT DEF Write, ControlInv, Samplers, Trying
  <2>2. \A v \in Samplers : v # w => at[v] # "write"
    BY <1>9, <2>1, SMT DEF ControlInv, Samplers, Trying, Running, Live, FleetInv, Stages, Before
  <2>3. QED
    BY <1>9, <2>1, <2>2, FileWrite, Zenon
<1>10. ASSUME CollectorStep PROVE FileInv'
  BY <1>5, <1>7, <1>8, <1>9, <1>10, FileFailure, Zenon DEF CollectorStep, Sampling, Samplers
<1>11. QED
  BY <1>2, <1>3, <1>4, <1>5, <1>6, <1>10, FileClose, Zenon DEF Next, vars, StartRun, StartRunRaises, RunTimeoutRaises, WriteSummary,
     StartCollector, CollectorStarted, StopCollector, ForceExit,
     GoldenAndBackend, SpawnFakeFleet, WaitForConnections, StopBackend, CleanupFakeFleet,
     Connect, DeviceExits, Finished

(***************************************************************************)
(* The counts of the training loop.                                        *)
(***************************************************************************)
InPhase == {"phase", "phase_raising"}
Iterations == IF step < Warmup THEN 0 ELSE step - Warmup

(* What is counted is where the training loop is.                           *)
CountInv ==
  /\ step \in Nat /\ step <= Warmup + Steps
  /\ pc \in Before \cup {"spawn", "connect"} => step = 0
  /\ pc \in {"none", "start", "sampling"} => counts = NoCounts
  /\ pc \in InPhase => step < Warmup + Steps
  /\ pc \in {"cleanup", "collector"} => step = Warmup + Steps
  /\ recorder /\ pc \notin {"hung", "killed", "exited"} =>
       /\ counts["iteration_total"] = Iterations
       /\ counts["forward"] = IF pc \in InPhase /\ step >= Warmup THEN Iterations + 1 ELSE Iterations

(* A step between stages that counts nothing keeps CountInv.                *)
LEMMA CountMoves ==
  ASSUME CountInv, UNCHANGED <<counts, step, recorder>>,
         \/ pc' = pc
         \/ pc' \in {"hung", "killed", "exited"}
         \/ pc = "none" /\ pc' = "start"
         \/ pc = "start" /\ pc' = "sampling"
         \/ pc \in {"golden", "backend"} /\ pc' \in {"backend", "spawn"}
         \/ pc \in {"spawn", "connect"} /\ pc' \in {"connect", "iteration"}
         \/ pc = "iteration" /\ pc' = "cleanup" /\ step = Warmup + Steps
         \/ pc = "cleanup" /\ pc' = "collector"
  PROVE  CountInv'
<1>1. Iterations' = Iterations
  BY Zenon DEF Iterations
<1>2. /\ step' \in Nat /\ step' <= Warmup + Steps
      /\ pc' \in Before \cup {"spawn", "connect"} => step' = 0
      /\ pc' \in {"none", "start", "sampling"} => counts' = NoCounts
      /\ pc' \in InPhase => step' < Warmup + Steps
      /\ pc' \in {"cleanup", "collector"} => step' = Warmup + Steps
  BY Zenon DEF CountInv, Before, InPhase
<1>3. pc' \notin {"hung", "killed", "exited"} => pc \notin {"hung", "killed", "exited"} /\ (pc' \in InPhase <=> pc \in InPhase)
  BY Zenon DEF InPhase
<1>4. QED
  BY <1>1, <1>2, <1>3, Zenon DEF CountInv

(* Every step keeps CountInv; Forward and EndIteration are the ones that    *)
(* count.                                                                   *)
LEMMA CountStep ==
  ASSUME CountInv, MetricsType, ControlInv, [Next]_vars PROVE CountInv'
<1>1. ASSUME UNCHANGED <<counts, step, recorder, pc>> PROVE CountInv'
  BY <1>1, CountMoves, Zenon
<1>2. ASSUME StartRun \/ WaitForConnections \/ StopBackend \/ GoldenAndBackend \/ SpawnFakeFleet \/ CleanupFakeFleet
             \/ StartCollector \/ ForceExit \/ RunTimeoutRaises
      PROVE CountInv'
  <2>1. UNCHANGED <<counts, step, recorder>>
    BY <1>2, Zenon DEF StartRun, WaitForConnections, StopBackend, GoldenAndBackend, SpawnFakeFleet, CleanupFakeFleet,
       StartCollector, ForceExit, RunTimeoutRaises, Open, CloseOutput, metrics, collector
  <2>2. \/ pc' = pc
        \/ pc' \in {"hung", "killed", "exited"}
        \/ pc = "none" /\ pc' = "start"
        \/ pc = "start" /\ pc' = "sampling"
        \/ pc \in {"golden", "backend"} /\ pc' \in {"backend", "spawn"}
        \/ pc \in {"spawn", "connect"} /\ pc' \in {"connect", "iteration"}
        \/ pc = "iteration" /\ pc' = "cleanup" /\ step = Warmup + Steps
        \/ pc = "cleanup" /\ pc' = "collector"
    BY <1>2, Zenon DEF StartRun, WaitForConnections, StopBackend, GoldenAndBackend, SpawnFakeFleet, CleanupFakeFleet,
       StartCollector, ForceExit, RunTimeoutRaises, Uncaught
  <2>3. QED
    BY <2>1, <2>2, CountMoves, Zenon
<1>3. ASSUME RunReturns \/ RunTimeout PROVE CountInv'
  <2>1. counts' = NoCounts /\ pc' = "none" /\ recorder' = FALSE /\ step' = 0
    BY <1>3, Zenon DEF RunReturns, RunTimeout, Recorded, ResetMetrics
  <2>2. QED
    BY <2>1, SweepAssumption DEF CountInv, InPhase
<1>4. ASSUME CollectorStarted PROVE CountInv'
  <2>1. counts' = counts /\ pc = "sampling" /\ pc' = "golden" /\ step' = step
    BY <1>4, Zenon DEF CollectorStarted, StartThread, CloseOutput
  <2>2. step = 0 /\ counts = NoCounts
    BY <2>1, Zenon DEF CountInv, Before
  <2>3. counts["iteration_total"] = 0 /\ counts["forward"] = 0
    BY <2>2, SweepAssumption, Zenon DEF NoCounts
  <2>4. QED
    BY <2>1, <2>2, <2>3, SweepAssumption DEF CountInv, InPhase, Iterations
<1>5. ASSUME Forward PROVE CountInv'
  <2>1. /\ pc = "iteration" /\ pc' \in InPhase /\ step' = step /\ recorder' = recorder
        /\ step < Warmup + Steps /\ step \in Nat
    BY <1>5, Zenon DEF Forward, CountInv, InPhase
  <2>2. CASE step >= Warmup
    <3>1. recorder => counts'["iteration_total"] = counts["iteration_total"] /\ counts'["forward"] = counts["forward"] + 1
      <4>1. "forward" \in Phases /\ "iteration_total" \in Phases /\ Track("forward")
        BY <1>5, <2>2, SweepAssumption, Zenon DEF Forward
      <4>2. QED
        BY <4>1, TrackCounts, Zenon
    <3>2. QED
      BY <2>1, <2>2, <3>1, SweepAssumption, Zenon DEF CountInv, InPhase, Iterations, Before
  <2>3. CASE ~(step >= Warmup)
    <3>1. counts' = counts
      BY <1>5, <2>3, Zenon DEF Forward
    <3>2. QED
      BY <2>1, <2>3, <3>1, SweepAssumption, Zenon DEF CountInv, InPhase, Iterations, Before
  <2>4. QED
    BY <2>2, <2>3, Zenon
<1>6. ASSUME EndIteration PROVE CountInv'
  <2>1. CASE pc = "phase_raising"
    <3>1. pc' = "hung" /\ step' = step
      BY <1>6, <2>1, Zenon DEF EndIteration, Uncaught, Backed
    <3>2. QED
      BY <3>1, Zenon DEF CountInv, InPhase, Before
  <2>2. CASE pc = "phase"
    <3>1. /\ pc' = "iteration" /\ step' = step + 1 /\ recorder' = recorder
          /\ step < Warmup + Steps /\ step \in Nat
      BY <1>6, <2>2, Zenon DEF EndIteration, CountInv, InPhase
    <3>2. recorder => /\ counts'["forward"] = counts["forward"]
                      /\ counts'["iteration_total"] =
                           IF step < Warmup THEN counts["iteration_total"] ELSE counts["iteration_total"] + 1
      <4>1. PICK p \in Phases : p = IterationPhase /\ Track(p)
        BY <1>6, SweepAssumption, Zenon DEF EndIteration, IterationPhase
      <4>2. "forward" \in Phases /\ "iteration_total" \in Phases
        BY SweepAssumption, Zenon
      <4>3. p # "forward" /\ (p = "iteration_total" <=> ~(step < Warmup))
        BY <4>1, Zenon DEF IterationPhase
      <4>4. QED
        BY <4>1, <4>2, <4>3, TrackCounts, Zenon
    <3>3. QED
      BY <2>2, <3>1, <3>2, SweepAssumption DEF CountInv, InPhase, Iterations, Before
  <2>3. QED
    BY <1>6, <2>1, <2>2, Zenon DEF EndIteration
<1>7. ASSUME StopCollector \/ CollectorStep PROVE CountInv'
  <2>1. UNCHANGED <<counts, step, recorder, pc>>
    BY <1>7, Zenon DEF StopCollector, CollectorStep, script, Sampling, Samplers, Read, Snapshot, Write, RecordFailure,
       Run, SetStopEvent, Join
  <2>2. QED
    BY <1>1, <2>1, Zenon
<1>8. QED
  BY <1>1, <1>2, <1>3, <1>4, <1>5, <1>6, <1>7, Zenon DEF Next, vars, script, metrics,
     StartRunRaises, WriteSummary, Connect, DeviceExits, Finished

(***************************************************************************)
(* What a run leaves.                                                      *)
(***************************************************************************)
Complete(c) == c["iteration_total"] = Steps /\ c["forward"] = Steps
EndsWith(f, c) == Len(f) > 0 /\ f[Len(f)] = Sample(c)
(* What CountedMeansComplete says of one run.                               *)
Good(r) == Successful(r) /\ ~r.lost => Complete(r.measurement.phase_counts)

(* The last sample of stop() holds the final counts; a process that ended   *)
(* well has them at the end of its file; the recorded runs are Good.        *)
ResultInv ==
  /\ pc = "collector" /\ at["main"] = "write" => snap["main"] = counts
  /\ pc = "collector" /\ at["main"] = "sampled" => buf = <<>> /\ EndsWith(file, counts)
  /\ pc = "exited" /\ status = 0 => failure \/ (EndsWith(file, counts) /\ Complete(counts))
  /\ \A i \in 0..(Runs - 1) : i < run => Good(results[i])
  /\ run <= Runs
  /\ sweep = "summary" => run = Runs

(* parse_metrics_jsonl returns the counts of the last record when that is a *)
(* sample of a measured iteration.                                          *)
LEMMA FinalIsLast ==
  ASSUME NEW f \in Seq(Entries), NEW c \in PhaseCounts, EndsWith(f, c), c["iteration_total"] > 0
  PROVE  ParseMetrics(f).phase_counts = c
<1>1. PICK n \in Nat : n = Len(f)
  OBVIOUS
<1>2. PICK r \in Entries : r = Sample(c) /\ r.record_type = "sample" /\ r.counts = c
  BY EntriesType, Zenon
<1>3. n > 0 /\ f[n] = r
  BY <1>1, <1>2, Zenon DEF EndsWith
<1>4. n \in Measured(f)
  BY <1>1, <1>2, <1>3 DEF Measured
<1>5. Measured(f) \subseteq 1..n
  BY <1>1, Zenon DEF Measured
<1>6. \A j \in Measured(f) : j <= n
  BY <1>5
<1>7. Final(Measured(f)) \in Measured(f) /\ \A j \in Measured(f) : j <= Final(Measured(f))
  BY <1>4, <1>6, Zenon DEF Final
<1>8. Final(Measured(f)) = n
  BY <1>4, <1>5, <1>7
<1>9. ParseMetrics(f).phase_counts = IF Measured(f) = {} THEN NoCounts ELSE f[Final(Measured(f))].counts
  BY Zenon DEF ParseMetrics
<1>10. QED
  BY <1>2, <1>3, <1>4, <1>8, <1>9, Zenon

(* A run that ended with status 0, whose metrics report no error and did    *)
(* not lose one, has complete counts (_load_run, aggregate_repetitions).    *)
LEMMA OutcomeGood ==
  ASSUME MetricsType, NEW s, NEW t,
         s = 0 => failure \/ (EndsWith(file, counts) /\ Complete(counts))
  PROVE  Good(Outcome(s, t))
<1>1. PICK r : r = Outcome(s, t)
  BY Zenon
<1>2. /\ r.status = s /\ r.measurement = ParseMetrics(file)
      /\ r.lost = (failure /\ \A i \in 1..Len(file) : file[i] # Terminal)
  BY <1>1, Zenon DEF Outcome
<1>3. SUFFICES ASSUME s = 0, ~r.measurement.error, ~r.lost PROVE Complete(ParseMetrics(file).phase_counts)
  BY <1>1, <1>2, Zenon DEF Good, Successful
<1>4. ~failure
  <2>1. ParseMetrics(file).error =
          (Measured(file) = {} \/ \E i \in 1..Len(file) : file[i].record_type = "terminal_error")
    BY Zenon DEF ParseMetrics
  <2>2. \A i \in 1..Len(file) : file[i] # Terminal
    BY <1>2, <1>3, <2>1, EntriesType, Zenon
  <2>3. QED
    BY <1>2, <1>3, <2>2, Zenon
<1>5. EndsWith(file, counts) /\ Complete(counts)
  BY <1>3, <1>4, Zenon
<1>6. counts["iteration_total"] > 0
  BY <1>5, SweepAssumption DEF Complete
<1>7. ParseMetrics(file).phase_counts = counts
  BY <1>5, <1>6, FinalIsLast, Zenon DEF MetricsType
<1>8. QED
  BY <1>5, <1>7, Zenon

(* A step that records no run keeps ResultInv if the three claims about the *)
(* end of the process hold after it.                                        *)
LEMMA ResultMoves ==
  ASSUME ResultInv, UNCHANGED <<run, results>>, sweep' = "summary" => run = Runs,
         pc' = "collector" /\ at'["main"] = "write" => snap'["main"] = counts',
         pc' = "collector" /\ at'["main"] = "sampled" => buf' = <<>> /\ EndsWith(file, counts)',
         pc' = "exited" /\ status' = 0 => failure' \/ (EndsWith(file, counts) /\ Complete(counts))'
  PROVE  ResultInv'
  BY Zenon DEF ResultInv

(* Recording a run adds one more result that is Good.                       *)
LEMMA ResultRecorded ==
  ASSUME ResultInv, MetricsType, FleetInv, NEW s, NEW t, Recorded(s, t), pc # "none",
         s = 0 => pc = "exited" /\ status = 0
  PROVE  ResultInv'
<1>1. run \in Nat /\ run < Runs /\ run \in DOMAIN results /\ run' = run + 1 /\ pc' = "none" /\ Runs \in Nat
  BY SweepAssumption DEF FleetInv, Recorded
<1>2. Good(Outcome(s, t))
  BY OutcomeGood, Zenon DEF ResultInv
<1>3. results' = [results EXCEPT ![run] = Outcome(s, t)] /\ DOMAIN results = 0..(Runs - 1) /\ sweep' = sweep
  BY Zenon DEF Recorded, FleetInv
<1>4. ASSUME NEW i \in 0..(Runs - 1), i < run' PROVE Good(results'[i])
  <2>1. CASE i = run
    BY <1>1, <1>2, <1>3, <2>1, Zenon
  <2>2. CASE i < run
    <3>1. i # run
      BY <1>1, <2>2
    <3>2. results'[i] = results[i]
      BY <1>3, <3>1, Zenon
    <3>3. QED
      BY <2>2, <3>2, Zenon DEF ResultInv
  <2>3. QED
    BY <1>1, <1>4, <2>1, <2>2
<1>5. run' <= Runs /\ sweep # "summary"
  BY <1>1 DEF ResultInv
<1>6. QED
  BY <1>1, <1>3, <1>4, <1>5, Zenon DEF ResultInv

(* stop()'s own sample holds the final counts, and is in the file once it   *)
(* is taken.                                                                *)
LEMMA ResultMain ==
  ASSUME ResultInv, ControlInv, MetricsType, pc = "collector",
         Read("main") \/ Snapshot("main") \/ Write("main") \/ RecordFailure("main"),
         UNCHANGED <<pc, run, results, sweep>>
  PROVE  ResultInv'
<1>1. CASE Read("main") \/ RecordFailure("main")
  <2>1. at'["main"] \notin {"write", "sampled"}
    BY <1>1, MainGoes, Zenon DEF Read, RecordFailure, MetricsType, Places
  <2>2. QED
    BY <2>1, ResultMoves, Zenon DEF ResultInv
<1>2. CASE Snapshot("main")
  <2>1. at'["main"] = "write" /\ snap'["main"] = counts'
    BY <1>2, MainGoes, Zenon DEF Snapshot, MetricsType, Places, Samplers
  <2>2. QED
    BY <2>1, ResultMoves, Zenon DEF ResultInv
<1>3. CASE Write("main")
  <2>1. at["main"] = "write" /\ output = "open" /\ snap["main"] = counts /\ counts' = counts
    BY <1>3, Zenon DEF Write, ControlInv, ResultInv
  <2>2. CASE Flushed(Append(buf, Sample(snap["main"]))) /\ Goes("main", "sampled")
    <3>1. PICK r \in Entries : r = Sample(counts)
      BY EntriesType, Zenon DEF MetricsType
    <3>2. file' = file \o Append(buf, r) /\ buf' = <<>>
      BY <2>1, <2>2, <3>1, Zenon DEF Flushed
    <3>3. file' = Append(Written, r)
      BY <3>2, AppendWhole, Zenon DEF MetricsType, Written
    <3>4. Len(file') > 0 /\ file'[Len(file')] = r
      BY <3>3, WrittenType
    <3>5. EndsWith(file, counts)'
      BY <2>1, <3>1, <3>4, Zenon DEF EndsWith
    <3>6. at'["main"] = "sampled"
      BY <2>2, MainGoes, Zenon DEF MetricsType, Places
    <3>7. QED
      BY <3>2, <3>5, <3>6, ResultMoves, Zenon DEF ResultInv
  <2>3. CASE Goes("main", "raised")
    <3>1. at'["main"] = "raised"
      BY <2>3, MainGoes, Zenon DEF MetricsType, Places
    <3>2. QED
      BY <3>1, ResultMoves, Zenon DEF ResultInv
  <2>4. QED
    BY <1>3, <2>1, <2>2, <2>3, Zenon DEF Write, Sampled
<1>4. QED
  BY <1>1, <1>2, <1>3, Zenon

(* Every step keeps ResultInv.                                              *)
LEMMA ResultStep ==
  ASSUME ResultInv, CountInv, ControlInv, MetricsType, FleetInv, [Next]_vars PROVE ResultInv'
<1>1. ASSUME UNCHANGED <<metrics, run, pc, status, results, sweep>> PROVE ResultInv'
  BY <1>1, ResultMoves, Zenon DEF ResultInv, metrics, collector, EndsWith, Complete
<1>2. ASSUME StartRunRaises PROVE ResultInv'
  BY <1>2, ResultMoves, Zenon DEF StartRunRaises, script, metrics, collector, ResultInv, EndsWith, Complete
<1>3. ASSUME WriteSummary PROVE ResultInv'
  BY <1>3, ResultMoves, Zenon DEF WriteSummary, script, metrics, collector, ResultInv, EndsWith, Complete
<1>4. ASSUME UNCHANGED <<run, results, sweep>>, pc' \notin {"collector", "exited"} PROVE ResultInv'
  BY <1>4, ResultMoves, Zenon DEF ResultInv
<1>5. ASSUME UNCHANGED <<run, results, sweep>>, pc' = "exited", status' = 1 PROVE ResultInv'
  BY <1>5, ResultMoves DEF ResultInv
<1>6. ASSUME RunReturns PROVE ResultInv'
  BY <1>6, ResultRecorded, Zenon DEF RunReturns
<1>7. ASSUME RunTimeout PROVE ResultInv'
  <2>1. Recorded(124, TRUE) /\ pc # "none"
    BY <1>7, Zenon DEF RunTimeout
  <2>2. 124 # 0
    OBVIOUS
  <2>3. QED
    BY <2>1, <2>2, ResultRecorded, Zenon
<1>7b. ASSUME RunTimeoutRaises PROVE ResultInv'
  <2>1. UNCHANGED <<run, results>> /\ sweep' = "aborted" /\ pc' = "killed"
    BY <1>7b, Zenon DEF RunTimeoutRaises
  <2>2. QED
    BY <2>1, ResultMoves, Zenon
<1>8. ASSUME CleanupFakeFleet, pc' = "collector" PROVE ResultInv'
  <2>1. at'["main"] = "idle" /\ UNCHANGED <<run, results, sweep>>
    BY <1>8, Zenon DEF CleanupFakeFleet, metrics, collector, ControlInv, Live
  <2>2. QED
    BY <1>8, <2>1, ResultMoves, Zenon DEF ResultInv
<1>9. ASSUME StopCollector PROVE ResultInv'
  <2>1. at'["main"] \in {"join", "failed", "read"} /\ pc' = "collector" /\ UNCHANGED <<run, results, sweep>>
    BY <1>9, MainGoes, Zenon DEF StopCollector, SetStopEvent, Join, script, MetricsType, Places
  <2>2. QED
    BY <2>1, ResultMoves, Zenon DEF ResultInv
<1>10. ASSUME ForceExit PROVE ResultInv'
  <2>1. UNCHANGED <<run, results, sweep>> /\ pc' = "exited" /\ pc = "collector" /\ counts' = counts /\ failure' = failure
    BY <1>10, Zenon DEF ForceExit, metrics, collector, CloseOutput
  <2>2. failure \/ (at["main"] = "sampled" /\ recorder /\ CloseOutput)
    BY <1>10, Zenon DEF ForceExit, ControlInv
  <2>3. CASE failure
    BY <2>1, <2>3, ResultMoves, Zenon DEF ResultInv
  <2>4. CASE at["main"] = "sampled" /\ recorder /\ CloseOutput
    <3>1. file' = file /\ EndsWith(file, counts)
      BY <2>1, <2>4, CloseTruncates, Zenon DEF ResultInv
    <3>2. Complete(counts)
      BY <2>1, <2>4, SweepAssumption DEF CountInv, Complete, Iterations, InPhase
    <3>3. (EndsWith(file, counts) /\ Complete(counts))'
      BY <2>1, <3>1, <3>2, Zenon DEF EndsWith, Complete
    <3>4. QED
      BY <2>1, <3>3, ResultMoves, Zenon DEF ResultInv
  <2>5. QED
    BY <2>2, <2>3, <2>4, Zenon
<1>11. ASSUME CollectorStep PROVE ResultInv'
  <2>1. UNCHANGED <<run, pc, status, results, sweep>> /\ pc # "exited"
    BY <1>11, Zenon DEF CollectorStep, script, Running
  <2>2. CASE pc # "collector"
    BY <1>4, <2>1, <2>2, Zenon
  <2>3. CASE pc = "collector"
    <3>1. ASSUME Read("thread") \/ Snapshot("thread") \/ Write("thread") \/ RecordFailure("thread") \/ Run PROVE ResultInv'
      <4>1. at["main"] \in {"idle", "join"} /\ at'["main"] = at["main"]
        BY <2>3, <3>1, ThreadGoes, Zenon DEF Read, Snapshot, Write, RecordFailure, Run, Sampled, ControlInv, MetricsType, Places
      <4>2. QED
        BY <2>1, <4>1, ResultMoves, Zenon DEF ResultInv
    <3>2. ASSUME Read("main") \/ Snapshot("main") \/ Write("main") \/ RecordFailure("main") PROVE ResultInv'
      BY <2>1, <2>3, <3>2, ResultMain, Zenon
    <3>3. QED
      BY <1>11, <3>1, <3>2, Zenon DEF CollectorStep, Sampling, Samplers
  <2>4. QED
    BY <2>2, <2>3, Zenon
<1>12. ASSUME StartRun \/ StartCollector \/ CollectorStarted \/ GoldenAndBackend \/ SpawnFakeFleet
              \/ WaitForConnections \/ Forward \/ EndIteration \/ StopBackend
       PROVE ResultInv'
  <2>1. UNCHANGED <<run, results, sweep>> /\ (pc' \notin {"collector", "exited"} \/ (pc' = "exited" /\ status' = 1))
    BY <1>12, Zenon DEF StartRun, StartCollector, CollectorStarted, GoldenAndBackend, SpawnFakeFleet,
       WaitForConnections, Forward, EndIteration, StopBackend, Uncaught
  <2>2. QED
    BY <1>4, <1>5, <2>1, Zenon
<1>13. ASSUME CleanupFakeFleet, pc' # "collector" PROVE ResultInv'
  <2>1. UNCHANGED <<run, results, sweep>> /\ pc' = "cleanup"
    BY <1>13, Zenon DEF CleanupFakeFleet
  <2>2. QED
    BY <1>4, <2>1, Zenon
<1>14. QED
  BY <1>1, <1>2, <1>3, <1>6, <1>7, <1>7b, <1>8, <1>9, <1>10, <1>11, <1>12, <1>13, Zenon DEF Next, vars, script,
     Connect, DeviceExits, Finished

(***************************************************************************)
(* The theorem.                                                            *)
(***************************************************************************)
(* The inductive invariant of the sweep.                                    *)
SweepInv == FleetInv /\ MetricsType /\ ControlInv /\ FileInv /\ CountInv /\ ResultInv

(* The inductive invariant holds initially.                                 *)
LEMMA SweepInit ==
  ASSUME Init PROVE SweepInv
<1>1. Written = LeftMetrics /\ LeftMetrics \in Seq(Entries)
  BY EntriesType, EmptyTail, Zenon DEF Init, InitMetrics, Written
<1>2. Len(LeftMetrics) <= 1 /\ \A i \in 1..Len(LeftMetrics) : LeftMetrics[i].record_type = "sample"
  BY EntriesType
<1>3. Ends(Written) /\ Grows(Written) /\ OnlySamples(Written)
  BY <1>1, <1>2, FileFresh, Zenon
<1>4. FileInv
  BY <1>3, Zenon DEF FileInv, Init, InitMetrics
<1>5. CountInv
  BY SweepAssumption DEF CountInv, InPhase, Init, InitMetrics
<1>6. ResultInv
  BY SweepAssumption DEF ResultInv, Init
<1>7. QED
  BY <1>4, <1>5, <1>6, FleetInit, ControlInit, Zenon DEF SweepInv

(* It implies the property.                                                 *)
LEMMA SweepCounts ==
  ASSUME SweepInv PROVE CountedIsMeasured
<1>1. TerminalIsLast
  BY Zenon DEF SweepInv, FileInv, TerminalIsLast, Ends, Written
<1>2. SamplesGrow
  BY Zenon DEF SweepInv, FileInv, SamplesGrow, Grows, Written, Below
<1>3. CountedMeansComplete
  <2>1. SUFFICES ASSUME sweep = "summary", NEW i \in DOMAIN results, Successful(results[i]), ~results[i].lost
                 PROVE  \A p \in {"iteration_total", "forward"} : results[i].measurement.phase_counts[p] = Steps
    BY Zenon DEF CountedMeansComplete
  <2>2. i \in 0..(Runs - 1) /\ run = Runs
    BY <2>1, Zenon DEF SweepInv, FleetInv, ResultInv
  <2>3. i < run
    BY <2>2, SweepAssumption
  <2>4. QED
    BY <2>1, <2>2, <2>3, Zenon DEF SweepInv, ResultInv, Good, Complete
<1>4. QED
  BY <1>1, <1>2, <1>3, Zenon DEF CountedIsMeasured

(* For every set of phases and every number of runs, warmup steps and       *)
(* steps: the metrics file is in order and ends at the first failure, and a *)
(* run that the summary counts was measured in full                         *)
(* (CoordinatorMetricsCollector, train_loop, parse_metrics_jsonl,           *)
(* aggregate_repetitions).                                                  *)
THEOREM MeasuredIsSound == Spec => []CountedIsMeasured
<1>1. Init => SweepInv
  BY SweepInit, Zenon
<1>2. SweepInv /\ [Next]_vars => SweepInv'
  BY FleetStep, TypeStep, ControlStep, FileStep, CountStep, ResultStep, Zenon DEF SweepInv
<1>3. SweepInv => CountedIsMeasured
  BY SweepCounts, Zenon
<1>4. QED
  BY <1>1, <1>2, <1>3, PTL DEF Spec
================================================================================
