# Verification of Morphling

Morphling runs the matrix products (GEMMs) of a training job on edge devices. A proxy server cuts each
product into blocks, sends the blocks to the devices that are connected, writes their answers into the
output and returns it, while devices join and leave. Around it are a Python package that hooks the products
of a model into the runtime, experiments with one or several coordinators, launchers, a checkpoint
converter, and tools that read the logs. This directory holds TLA+ models of these parts, the TLC runs
that check them on small instances, and TLAPS proofs of some of the results for every instance. Every
definition is translated from the code; `PROJECT.json` maps it to its lines.

## The system and its parts

The runtime (`csrc/`):

| part | state | hard part | module |
|---|---|---|---|
| Partition dispatch and tracker, `backend/proxy_svr`, `partition_tracker` | outputs, counts, state and owner of a block | several loops at once; the owner is also written outside its lock | `PartitionDispatch`, `MatMulService` |
| Operation ids and gate, `backend/operation_id.h`, `dispatch_gate` | atomic counter, barrier, work queue | racing exchanges; lost wakeup; work run under another lock | `OperationId`, `DispatchGate`, `DispatchEntry` |
| Tiling, `backend/matrix_partition` | blocks, output | edge blocks, stacked operands | `MatrixBlocks` |
| Measurement session, `backend/device_measurement_session` | probe, timer, result | timeout against late answer | `MeasurementSession` |
| Device client, `backend/proxy_cli`, `core/lru.h` | tensor cache, saved blocks | eviction of what is in use | `DeviceClient` |
| Worker, `scheduler/worker_base.h` | queue, count, task states | one condition variable for all | `WorkerBase` |
| Event loop and timers, `network/` | functors, tasks, wakeup fd, timers, timerfd | only the first poster wakes the loop; cancel inside a batch | `EventLoop`, `TimerQueue` |
| Checkpoint writing, `checkpoint/`, `morphling/entrypoint/cmdline.py` | parameter file, index, map | killed between two files, started again | `CheckpointSave` |

The package and the scripts (`morphling/`, `scripts/`):

| part | state | hard part | module |
|---|---|---|---|
| Green contexts, `runtime/greenctx` | three backends, trace clock, stack of contexts | nesting, failures between activation and restore | `GreenTrace`, `GreenContext` |
| Autograd hooks, `hooks/autograd.py` | GEMM log, counters | two products in flight, one fails | `AutogradHooks` |
| Multi-coordinator training | launcher, rank processes, collectives, results | a rank fails while others wait for it | `MultiCoordinator` |
| Single-coordinator sweep and its metrics thread | one training process per run, its devices, samples | timeout of a run, samples against the terminal record | `SingleCoordinator`, `MetricsCollector` |
| Launchers | a fleet of processes, signals | a signal between two starts | `FleetLauncher` |
| Serving scripts | backend, fake devices, threads | a signal or a departure in every wait | `ServerScripts` |
| Scaling reports and the sweep's analysis | results, summaries, figures | files that must agree | `ScalingReports`, `SweepAnalysis` |
| Virtual-time logs | logs, offsets | one shift for all columns | `VirtualTimeLogs` |
| Batch runtime model | levels, pipeline, events | allocations that shrink meanwhile | `BatchRuntime` |
| Slot traces | slots, kernels | overlaps counted once | `TraceGenerator`, `SlotViolations` |
| Perf logs and swap timing | samples | sweeps over intervals, medians | `PerfLog`, `SwapTiming` |

How they interact: the application thread, usually a hook inside a model's backward pass, passes the gate,
draws an operation id, puts the blocks in the tracker and posts `SendIdlePartitions` to the main loop. Any
loop may run it; it claims all idle blocks, asks the policy for a placement over the connected devices, and
hands each block to the loop of the device's connection. The client keeps the block's tensors, multiplies
on a worker pool and answers; the answer is handled on the connection's loop and lowers the count the
application waits on. A registration may start a measurement session, whose timeouts are timers of the loop.
The experiments start coordinators and devices as processes, collect what they write, and the tools read it.

## Modules

A step of a model is what a thread does under one lock, or up to its next shared access.

**`PartitionDispatch`** has a program counter per loop; `queue` and `nrun` are a loop's functors and the
batch it swapped, so a functor queued by a functor waits for the next batch as in `DoPendingFunctors`.
`Dispatch`, `AddPartition`, `DispatchReturn` and `WaitMatMul` are the application. The close handler is
four steps because it takes four locks (`MarkDevicePartitionsFailed`, `RemoveDeviceConnection`,
`UnregisterDevice`, the post), and so is an answer (`WriteResultBlock`, `MarkPartitionFinished`,
`RemovePartitionByKey`, `IncRspCbCount`). `SendIdlePartitions` is claim, policy, then one step per block
placed and one per block sent; `RoundRobin` allows every order the unordered containers may list.
A connection and its device are one element of `Conns`: a client that reconnects draws a new uuid.
The shipped configuration is assumed: no gate, no probes.

**`MatMulService`** is what a caller is promised: an operation is submitted, each of its blocks is filled
once, and it returns when all are. `PartitionDispatch` implements it when no connection closes.

**`DispatchEntry`** composes **`DispatchGate`** and **`OperationId`** as `DispatchMatMulAsync` does: a call that
passes the gate draws an id, one that is queued or timed out does not. The gate has the callers, and one
thread per device that registers and disconnects; the tracker's mutex is a variable, because
`RegisterDevice` calls the gate while holding it. The ids separate the load, the bound check and each
compare-exchange, which may fail spuriously.

**`MatrixBlocks`** cuts a product into blocks and copies the answers back. Operands are counted in rows, and an
element of the output is the pair of rows it was computed from, so a wrong offset shows as a wrong pair.

**`MeasurementSession`** has the three probes in any combination, with answers that are right, wrong,
late, repeated or missing, a reference product computed at once or later, the timer and the close.
The server of this repository computes the reference at once; the other mode is the one the class's
interface offers.

**`DeviceClient`** has the loop's thread, which caches tensors, fills blocks with pointers, saves those that
lack one and hands over the others, and the pool, which reads through the pointers until it is done. A
pointer carries the allocation it was taken from, and the tensors used since its own. The server sends both
operands of every block at present (`matrix_partition.cpp:198`); a block without one is what `server_base.h`
provides for ("entry need to be fetched from cache"). A block comes once on a connection, which is `SentOnce`.
**`WorkerBase`** is one worker of the pool, with `AddTask`, `Run`, both forms of `WaitTaskDone`, `OnComplete` and
`Stop`. A section under `mutex_` and the `notify_all` after it are separate steps.

**`EventLoop`** numbers what is queued in each list by the order of the pushes; the loop's own thread
queues too, from inside what it runs. **`TimerQueue`** keeps the time left of each timer and of the timerfd, in
units of the 100 us below which the fd is never armed. Callbacks and other threads add and cancel at any
time. Timers that are late have no time left, so time needs no bound.

**`CheckpointSave`** writes the parameter file block by block, truncates and rewrites the index after each
tensor, and dumps the map last. The process dies anywhere, and the command is given again with or without
`--force`.

**`GreenTrace`**, **`GreenContext`** and **`AutogradHooks`** are layers of one machine: the lookup of SM counts by step
or time, the three backends (native torch, the C++ extension, no-op) with activation, deactivation, step
scopes, bundles and closing, and the hooked linear layer whose forward and backward passes dispatch, wait
and log. A dispatch, a wait, and torch's `set_context` and `pop_context` may raise; a context call that raises
leaves the stack as it was. `pop_failed` remembers that the last pop raised, which is the one way a context is
left on the thread.

**`MultiCoordinator`** has the launcher, the rank processes with their fleets, the handshake, the gradient
averaging (blocking, or overlapped with the backward pass), the result files and the cleanup. Every call
that can raise, time out or be killed does. **`SingleCoordinator`** runs a sweep of training processes, each
with the thread of **`MetricsCollector`**, devices and a timeout; what is left on disk is what the analysis
reads. A run that times out after it printed something ends the whole sweep: the exception has its output as
bytes, which `write_text` does not take (`RunTimeoutRaises`).

**`FleetLauncher`** and **`ServerScripts`** have the operator's signals, processes that ignore them, and the
waits with deadlines; the backend of the serving scripts outlives their shutdown code, as `ProxySvr` has neither
the `stop` nor the `disconnect` they look for. **`ScalingReports`** and **`SweepAnalysis`** compute the
summaries from the runs that are there; **`VirtualTimeLogs`**, **`BatchRuntime`**, **`TraceGenerator`**,
**`SlotViolations`**, **`PerfLog`** and **`SwapTiming`** apply a tool to every small input and compare what it
reports with a definition that is written without its algorithm. Where a tool departs from that definition, the
property states on which inputs, and what holds there. The rows of a log come in any order its writer allows:
the stamps of a throughput log are not sorted, the steps of a step log may repeat an id. Times of a report are
in nanoseconds, with the two tolerances of the code.

The modules `MC...` declare the model values and the small functions the configurations need. `MCDevice`,
`MCLifecycle` and `MCScripts` put parts that share no state under one run: the initial state chooses the part
that moves, the others keep their initial state, and fairness is stated of the moving part alone.

## Runs

`tlc -workers 2 -config X.cfg <module>`; `PROJECT.json` has the module, the configuration and the properties of
each run. A property that covers several claims of one part is a conjunction of named definitions, each
with a comment of its own. `mutants` lists for each property, and for most of its conjuncts, a change of the
model, of the kind a slip in the code would be, that TLC finds to violate it.

| run | states | shows |
|---|---|---|
| `stable_fleet` | 114,350 | devices join on loops of their own and none leaves: a GEMM returns complete (`WaitReturnsComplete`), no block is sent twice (`SentOnce`), the dispatcher implements `MatMulService` (`ImplementsService`), and a GEMM submitted once the fleet has settled returns (`EveryDispatchReturns`) |
| `churn` | 2,127,890 | two operations while devices join and leave: no block is dropped from the tracker before its result is written (`TrackedUntilWritten`), and a complete GEMM is counted as complete (`CompleteIsCounted`) |
| `dispatch_entry` | 41,820 | either mode of the gate, then the ids: no caller sleeps through a join, none passes before enough devices joined, queued work is in one place, ids go to those who passed (`GateAdmitsInTurn`); ids are distinct and dense (`IdsUnique`); callers of a timed barrier and registrations return (`BarrierReturns`) |
| `timers` | 261,900 | a cancelled timer stays quiet (`CancelledStaysQuiet`); the fd is armed no later than the earliest timer and every timer fires (`TimersKeepTime`) |
| `device` | 221,870 | the output is exact whatever the shape, the stacking and the order of the answers (`ProductIsExact`); a queued block reads memory that is still its tensors', within the cache's budget (`ReadsAliveWithinBudget`), and a saved one waits for a tensor that is missing (`SavedForAReason`); a wait covers its tasks (`WaitMeansDone`), callbacks are called once (`CalledOnce`), and waits, callbacks and Stop come to an end (`EveryoneReturns`) |
| `lifecycle` | 15,458 | queued work never lacks a wakeup (`WakeupPending`), runs in order and once (`InOrderOnce`) and is run (`EverythingRuns`); the measurement timer never outlives its session (`TimerGuardsSession`), a result is what was measured, in order (`ProfileIsEarned`), a session ends and reports when M3 is its last probe (`SessionReports`); a fleet's shutdown leaves no process and kills none it has not asked (`FleetShutsDown`); the waits and cleanups of the serving scripts end, and `run_server` succeeds only when it served and was asked to stop (`ServingEnds`); a checkpoint whose save may be killed at any step and given again reads back when it is used (`SavedIsReadable`) |
| `multi_coordinator` | 546,396 | every applied gradient is the mean over the ranks (`GradientIsGlobalMean`), `global.json` comes from ranks that all passed (`GlobalFromPassedRanks`), no process, device or group is left (`NothingLeft`), and the run ends, with ranks the launcher gave up on as well (`RunIsOver`) |
| `single_coordinator` | 678,729 | a run that is aggregated was measured completely, its samples grow and the terminal record is last (`CountedIsMeasured`); a run meets its own devices only, and leaves some behind only after a timeout (`RunsStayApart`); the sweep ends (`SweepEnds`) |
| `green_hooks` | 2,459,286 | the contexts on the thread are the ones the records say, a step keeps its own until a hook runs in it, and only a pop that raised leaves one behind (`ContextIsAsRecorded`); a product runs under the SM count logged for it, as the trace prescribes, and a result returned was waited for (`DispatchedAsLogged`) |
| `scripts` | 738,138 | every small input of the tools: merged logs keep their order and are aligned by one shift per device (`SyncIsSound`), a batch takes no less than its parts and no less with more work (`BatchTimeIsSound`), violation time is the union of the overlaps when step ids are distinct, and traces stay on the SM ladder (`TraceToolsSound`), totals, medians and verdicts are exact and peaks bounded by the concurrent rates (`TimingToolsSound`), reports agree with their runs, and files of two commands are mixed only after a failure or a command for one mode (`ReportsAreSound`) |

Two runs end in a counterexample to what a document or test of the repository says, quoted under `findings`:

| run | behaviour of the code |
|---|---|
| `device_close` | a device closes between the placement of a block and the look-up of its connection: two loops send the block, both answers are counted, and the product returns incomplete |
| `reopened_save` | a save that was killed and is given again without `--force` starts at offset 0 with a non-empty index: the next tensor that is new is written over the first |

### Other departures of the code from its documents

No run is kept for these. The definitions named are in the modules, marked false; TLC refutes each in under
a minute on the instance given, which changes the configuration of a run.

| definition | instance | behaviour of the code |
|---|---|---|
| `IdleIsRescheduled` | `StableFleet.cfg`, `Standing = {c1}` | a block placed on a device whose connection is not set yet is put back to idle, and nothing schedules it again, though the comment at `proxy_svr.cpp:1105` says "so it can be rescheduled" |
| `RunningIsResolved` | `StableFleet.cfg`, `Standing = {c1, c2}`, `Leavers = {c1}` | a block placed on a device after its close failed its blocks stays RUNNING |
| `WaitReturnsComplete` | `StableFleet.cfg`, `Spec`, `Loops = {lm, l1}`, `LoopOf <- MainAndOne`, `Standing = {c1}`, `Leavers = {c2}` | a connection that closes before it registered fails the blocks of device -1, which are the ones another loop has claimed and not placed |
| `OnDoneFires` | `Lifecycle.cfg` | if latency or bandwidth is the last probe the session finishes without its callback (`device_measurement_session.cpp:292`; `proxy_svr.h:88` promises it) |
| `MeasuredBeforeEligible` | `Lifecycle.cfg` | a device is given work before it is measured |
| `RegistrationReturns` | `DispatchEntry.cfg`, `Modes = {"DYNAMIC"}` | a registration that flushes queued work locks the tracker's mutex twice (`device_tracker.cpp:167`; `test_dispatch_gate.cpp:64` expects the flush) |
| `QueuedIsTaken` | the same | work queued just after the device joined is not run |
| `BarrierHasDevices` | `DispatchEntry.cfg`, `Modes = {"BARRIER"}` | the barrier opens on a count that includes devices that left |
| `SequenceReadAlive` | `Timers.cfg` | `AddTimer` reads a timer the loop may have deleted |

Seen while translating, stated by no definition:

- Hooks and contexts: an explicit backend that is not supported logs "Falling back." and then raises
  `ValueError`; the C++ backend's `activate_for_step` drops the previous SM count, so a step
  scope restores nothing (`cpp_backend.py:92`); when the wait for
  `grad_input` raises, `grad_weight` is never waited for; the native parser scales timestamps at load, so
  lookups by step compare with microseconds; `get_gemm_log(reset=True)` rewinds the trace clock. After a hook
  inside a step scope the rest of the step runs on the primary context (torch) or the hook's (C++): torch's
  `deactivate` in the hook pops the step's own context. `StepContextHeld` states both.
- Metrics: an `OSError` of `mkdir` or `open` aborts training, though `coordinator_metrics.py:246` says "without
  allowing setup failure to abort training".
- Virtual-time tools: "minimum vt_start_us becomes 0" fails when an adjusted start is not positive
  (`sync_virtual_time.py:303`); `StartsAtZero` says that only times that were 0 end up negative;
  `compare_sync_strategies.py:45` looks a GEMM up among devices; `analyze_vtime_log.py:63` expects 8 columns
  where `device_tracker.cpp:892` writes 9.
- Traces: the generator writes `time_decode_start_est_ns` (`generate_trace.py:325`), the adapter and the validator
  need `time_decode_start_actual_ns`; a kernel over two slot boundaries counts against the next slot only; a step
  id that is repeated moves its violation time to the last step with the id. The generator's decode may start later
  than the next slot at 60 and 120 kHz: `DecodeKeepsPace` allows two slots and three.
- Performance logs: "sum of all active packets" (`analyze_perf.py:113`) is one packet per device, a packet without
  duration stays active until its device's next event, and the packets of a device with both directions take
  each other's epochs; the warm-up filter indexes the bytes of one direction by the row number, and raises
  when the directions are mixed.
- Launchers: `run_server.py:148` says "Inference will proceed when devices connect", and goes on to skip it;
  the kill of the devices on SIGINT in `run_devices.py:67` is commented out; "Stopping backend..."
  (`run_server.py:242`) stops nothing.
- Reports: a mode given twice ends in `ValueError` after all runs; a device count given twice reuses its
  directory; after a failure the figure is drawn from the summaries of the new command and the breakdown of the
  old one.
- Checkpoints: a map cut short counts as "Saved model exists". The scheduler of the AIO threads clears
  `pending_callbacks` and notifies without the request's mutex (`archer_prio_aio_handle.cpp:162`).
- Client: a block whose row is at the old end of the cache may lose it to its own column, and then reads the
  message after it is drained; a failed `malloc` of the result drops the block silently.

### Bounds

Two blocks, two devices and two or three loops are what it takes for two `SendIdlePartitions` to overlap with a
third actor's close; `churn` has two operations of one block each, and both devices on one loop, the
dispatcher's loop being the other. Three callers, a barrier of two, a queue of two and two ids make each of the
limits bind. Three posters with three entries per list let the loop swap between a push and its wakeup, and a
second poster find the list empty again. Three timers, one repeating, allow a batch with a cancelled member and
an insertion before the earliest. Two tasks and a waiter, for one task or for all, share the condition variable
with the worker, which is enough for a notification to reach the wrong one. Four tensors, one of them of size
two, in a cache of three let a block be evicted by each of the others; shapes up to eight elements have edge
blocks in both directions, stacks and empty products. Two ranks with two parameters and two steps let one fail
at any point of the other's averaging, and a warmup differ from what is measured. Two runs let the devices of
one outlive it into the next. Two SM counts, two times and three log entries let activation and log disagree.
The tools take two or three lines, events, slots or samples of two or three values: enough for ties, overlaps,
gaps, an odd and an even median, and a missing device. Three saves allow a killed one, one on what it left, and
one with `--force`. The overrides of the batch model (`Options`) are each given and left out, and two group ids
(`Groups`) let collectives of one level be apart. `StepIds` has two ids for three steps, so one may come back.
Two packets in four units of time overlap, touch or are apart, in either order of their stamps (`MaxPackets`,
`MaxPerfTime`). Of the log lines one is not a COMPUTE line (`MaxOther`). A pop that raises does so in the first
two switches (`MaxSwitch`): later ones differ in the two counters only, which would grow for ever. `MaxJoins`,
`MaxPosts`, `MaxDelay`, `MaxBlocks`, `MaxFailures`, `MaxSaves`, `MaxRecords` and the sizes of inputs bound what
is otherwise unbounded; `MaxQueue`, `Capacity`, `MaxBytes` and `SmMax` are limits the code has.

Deadlock is not checked where the system may come to rest: all operations returned, a worker stopped,
all posts done, a tool or an experiment at its end. It is checked in `timers`, `green_hooks` and
`single_coordinator`.

### Fairness

Weak fairness of each thread: a thread that can take a step does. `PartitionDispatch` adds strong
fairness of a connection's registration and answers, since the loop serves events and functors in turn
and a readable socket is not passed over for ever; a device that stays connected is assumed to answer,
as the server has no timeout for it. Nothing ever has to close. `DispatchEntry` has strong fairness of a
caller, which waits for mutexes others take and release, and of a compare-exchange that fails spuriously.
`TimerQueue` has strong fairness of the two fds of a loop, as `event_base_loop` serves every ready fd of a round. A
timeout of the gate, a Stop and a cancel may happen and need not. The measurement timer fires if it is
armed. In the experiments a process that runs takes its next step, a process that was killed dies, and a
deadline passes; a device, a signal, a failing call and a stubborn process promise nothing.

## Proofs

`tlapm <module>Proofs.tla`. All hold for every value of the constants that satisfies the named
assumptions of the module; finiteness is assumed of the blocks and the timers, and the number of ranks is
a positive integer. Each inductive invariant was first checked by TLC on the instance of the run.

- **`PartitionDispatchProofs`** has what `TypeCorrect` and `NeverDropped` rest on, one lemma per group of
  actions; the two are concluded in `PartitionCopyProofs`. `TypeOK` carries what makes it inductive: a loop's batch
  is no longer than its queue, and a handler at a label that uses its connection or block has one. `NeverDropped` is
  `[]TrackedUntilWritten`: a block leaves the tracker only when it is written. The strengthening says that a loop
  about to finish or remove a block has written it; most actions leave these variables alone, which one frame lemma
  covers.
- **`PartitionCopyProofs`** follows the copies of a block: claimed by a `SendIdlePartitions`, queued for a loop
  to send, on the wire, or being taken in. `CountIsSound` is `[]CompleteIsCounted`, with devices that leave: the
  count is at most the number of blocks unwritten or being taken in (`CountInv`), which needs that a block that is
  not dispatched yet has no copy (`FreshInv`) and what a handler's locals hold at its labels (`HandlerInv`).
  `SendsOnce`, `ReturnsComplete` and `Implements` are `SentOnce`, `WaitReturnsComplete` and the refinement of
  `MatMulService`, under the hypothesis `Leavers = {}`: with leavers they are false, which `device_close` shows.
  Their invariant says that a block has at most one copy, none while it is IDLE, and none to be sent or answered once
  it is written (`CopyInv`), that nobody closes (`NobodyLeft`), and that the count is not below the number of unsettled
  blocks either (`ReturnInv`).
  The refinement maps an operation to its phase and to the blocks written; each step is a stutter or one step of the
  service.
- **`WorkerLoopProofs`**, the event loop: `WakeupNotLost`, whose invariant tells where the wakeup of a non-empty
  list is (in the fd, with the poster that found the list empty, or with the loop between its read and its
  swap), and `OrderKept`, which needs that batch and pending list are consecutive numbers starting after what
  was run. The proof rests on two lemmas on appending to and taking from such a sequence. The worker:
  `WaitsAreSound`, `CallbacksCalledOnce` and `WakeupsAreKept`, which says of every thread on the one condition
  variable that a true condition comes with a `notify_all` still to happen; the waits' liveness rests on it,
  though that itself is left to TLC. Tasks may be added after `Stop`, as the code allows.
- **`DispatchSaveProofs`**, the dispatch entry: `UniqueIds` and `RefusalMeansFull` of the counter. `IdTypeOK` is
  not inductive by itself: that a thread in the loop holds an id below the capacity has to be added, since the
  exchange stores its successor. `GateIsSound` of the gate: `BarrierInv` says that the barrier is met by
  registrations alone and that BARRIER calls pass it met, `HoldInv` that the work of a queued call is in the
  queue or in the local list of one device's thread, at one position. `EntryComposes` shows that each step of
  the composition is a step of one of them, so that both results carry over (`EntryIdsUnique`, `AdmitsInTurn`);
  the link between them is `EntryInv`, by which a call draws one id, and only once it has passed. The
  checkpoint: `SavedCanBeRead` is `[]SavedIsReadable`, for every list of parameters and every alignment,
  wherever a save is killed. `SaveInv` has what the loop of a run knows of its map, index and place (`LoopInv`);
  for a run that found no tensor in the index, that tensors lie one after the other and the last is written as
  far as it got (`FreshInv`), without which a later tensor could overwrite an earlier one, as it does in
  `reopened_save`; and what a whole map on disk says (`MapInv`).
- **`TimerSessionProofs`**, the timers: `CancelledIsQuiet`, an action property. Its invariant `QuietInv` says
  that no insertion is posted behind a cancel of its timer or for a dead one (`PostedInv`), that the queue has
  no dead timer, and that the batch being called remembers the cancel of a dead one (`BatchInv`). `ArmedInTime`
  is the safety part of `TimersKeepTime`. `ResetToEarliest` is stated with a quantifier because a minimum
  defined by CHOOSE gives the provers nothing to work with. The measurement session: `TimerIsSafe` and
  `ReportsAreEarned`, for every choice of probes and both modes of the reference. `SessionInv` adds the order of
  the probes spelled out (`ProbesOrdered`), that the probe waited for is enabled and open (`InFlight`), when the
  reference is asked for (`Reference`), and that what was reported stays true (`Reported`).
- **`MultiCoordinatorProofs`** and **`MultiTrainingProofs`**: `ReplicasStayEqual`, `GlobalIsEarned` and
  `RunLeavesNothing`, for any number of ranks, parameters, steps and devices, with every failure of the model.
  The invariant `RunInv` has, beside the types and the property itself, six parts. `PlaceInv` says at each label
  how many collectives a rank has issued and how many are complete, counted from the `Base` of its step;
  `IssuedInv` that the n-th collective of every rank is the same parameter of the same step (`Order`, reversed
  when overlapped), which is why an all-reduce matches like with like; `GradInv` that a gradient is the rank's
  own, then the sum once its collective is complete, then divided once. Without the first two the sum could mix
  parameters or steps. `MemberInv` and `ExitInv` say what a rank started and that an exit with status 0 means
  trained, passed and without devices; `LaunchInv` has the launcher's loops.
- **`SingleCoordinatorProofs`**: `StayApart` is `[]RunsStayApart`, by `FleetInv`: a run has no device before the
  first is spawned and after the cleanup, and a device of an earlier run was left by a timeout.
  `MeasuredIsSound` is `[]CountedIsMeasured`, for any number of runs, devices and steps, with failures of every
  read, write and process. `SweepInv` adds to `FleetInv` who samples when (`ControlInv`: the thread between
  `start` and `stop`, the process otherwise), that the file is in order and below the counts (`FileInv`), that
  the counts are where the training loop is (`CountInv`), and that a process that ended well has its final
  counts at the end of its file (`ResultInv`). The timeout that ends the sweep is one of its steps.

What is proved of a part holds in the composed runs too: the parts of `MCDevice`, `MCLifecycle` and `MCScripts`
share no state.

Only model-checked:

- liveness (`EveryDispatchReturns`, `TimersKeepTime` apart from `ArmedInTime`, `EveryoneReturns`, `RunIsOver`,
  `SweepEnds`, `EverythingRuns`, `SessionReports`, `BarrierReturns`, and the endings in `FleetShutsDown` and
  `ServingEnds`): the prover has neither fairness nor ENABLED;
- `ProductIsExact`, `BatchTimeIsSound`, `SyncIsSound`, `TraceToolsSound`, `TimingToolsSound` and
  `ReportsAreSound`: what recursive functions and folds compute, which takes induction over data;
- `ReadsAliveWithinBudget` and `SavedForAReason`: what a fold over the saved blocks fills and which tensors a sum of
  sizes lets the cache keep take induction too;
- safety not proved: `ContextIsAsRecorded` and `DispatchedAsLogged` of the hooks, and the safety parts of
  `FleetShutsDown` and `ServingEnds`. They hold on the instances of the runs.

## Not modelled

Numerical kernels, tensor contents, CUDA driver calls, socket options, logging, statistics and plotting
have no control worth a model. `HandleDeviceFailure`, `CheckFailedPartitions`, `RephrasePartitions`,
`PurgeDevice`, `FlushQueue` and `NotifyDeviceLeft` have no caller, and reconnection by uuid
(`device_tracker.cpp:619`) no client: each registration draws a new uuid. `protobuf_dispatcher.cpp` is compiled out.
Of the virtual clock the runtime calls `Initialize` and `GetCurrentTime` only. Memory is sequentially
consistent: the atomics that are used with relaxed order (operation ids, the worker's count) guard no other
data. `rmtree` of a checkpoint is one step. Still without a module, though they have state: the SM target
channel with the chunked GEMM, the caching allocators, the shared-memory segments, the checkpoint's AIO
threads, the reconnecting connector, message framing, and the load-balanced policies. Of the scripts, the
ones that compare numerical outputs, make references, print (`compare_sync_methods` among them) or plot are left out.

## Plan

Proofs: the balance of contexts (`ContextIsAsRecorded`) and the shutdown of a fleet. Models: the SM sequence lock, the AIO
threads, the allocators.
