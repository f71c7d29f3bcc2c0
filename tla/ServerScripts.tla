------------------------------ MODULE ServerScripts ------------------------------
(***************************************************************************)
(* The three scripts that run one model through the proxy backend:         *)
(* run_server (waits for one device, infers once, serves until a signal),  *)
(* run_devices (starts its devices, waits for all of them, runs forward    *)
(* and backward) and run_mixed_devices (starts fake devices in threads and *)
(* waits for devices started by hand).  Devices connect and leave at any   *)
(* time after the backend has started; a signal may come at any step.      *)
(***************************************************************************)
EXTENDS Integers, FiniteSets

CONSTANTS FakeDevices,   \* fake devices of run_mixed_devices
          MaxConnected   \* most devices connected at once

VARIABLES
  script, options,   \* which script runs, and its arguments
  spc,               \* where its main thread is
  backend,           \* "none" or "started": ProxySvr has no stop
  connected,         \* devices connected to the backend now
  counted,           \* the connection count the script acted on
  hooked,            \* apply_hooks("linear") was called
  logits,            \* files under logits_comparison/ this script wrote
  fake,              \* fake device |-> its thread, its running flag, its socket
  stopAsked,         \* `stop' of run_server's handler
  rc                 \* the script's exit status; -1 while its main thread runs

serverVars == <<script, options, spc, backend, connected, counted, hooked, logits, fake, stopAsked, rc>>

ScriptNames == {"run_server", "run_devices", "run_mixed_devices"}
NoFake == [thread |-> "none", running |-> FALSE, open |-> FALSE]

(* The number of devices a script waits for.                                *)
MinDevices == IF script = "run_server" THEN 1 ELSE 2

ServerInit ==
  /\ script \in ScriptNames
  /\ options \in [hooks : BOOLEAN, nowait : BOOLEAN, model : BOOLEAN]
  /\ script # "run_server" => ~options.nowait /\ options.model
  /\ script = "run_mixed_devices" => options.hooks
  /\ spc = "load" /\ backend = "none" /\ connected = 0 /\ counted = 0 /\ hooked = FALSE
  /\ logits = {} /\ fake = [f \in FakeDevices |-> NoFake] /\ stopAsked = FALSE /\ rc = -1

Leave(status) == spc' = "exited" /\ rc' = status

(* The model is loaded and start_backend returns, or one of them raises.     *)
StartBackend ==
  /\ spc = "load"
  /\ \/ /\ backend' = "started"
        /\ spc' = CASE script = "run_mixed_devices" -> "fakes"
                    [] script = "run_devices" -> "spawn"
                    [] options.nowait -> "count"
                    [] OTHER -> "wait"
        /\ UNCHANGED rc
     \/ Leave(1) /\ UNCHANGED backend
  /\ UNCHANGED <<script, options, connected, counted, hooked, logits, fake, stopAsked>>

(* run_devices starts its devices in the background; without a GPU, or with   *)
(* too few values for them, the loop raises and leaves those it started.     *)
SpawnDevices ==
  /\ spc = "spawn"
  /\ \/ spc' = "wait" /\ UNCHANGED rc
     \/ Leave(1)
  /\ UNCHANGED <<script, options, backend, connected, counted, hooked, logits, fake, stopAsked>>

(***************************************************************************)
(* Fake devices                                                            *)
(***************************************************************************)
(* start(): a device whose connection is refused is not kept.               *)
StartFake(f) ==
  /\ spc = "fakes" /\ fake[f].thread = "none"
  /\ \/ /\ connected < MaxConnected
        /\ connected' = connected + 1
        /\ fake' = [fake EXCEPT ![f] = [thread |-> "starting", running |-> FALSE, open |-> TRUE]]
     \/ fake' = [fake EXCEPT ![f].thread = "failed"] /\ UNCHANGED connected
  /\ UNCHANGED <<script, options, spc, backend, counted, hooked, logits, stopAsked, rc>>

FakesStarted ==
  /\ spc = "fakes" /\ \A f \in FakeDevices : fake[f].thread # "none"
  /\ spc' = "wait"
  /\ UNCHANGED <<script, options, backend, connected, counted, hooked, logits, fake, stopAsked, rc>>

(* run(): the thread sets `running' itself, then loops over recv.  A recv    *)
(* begun before stop() closes the socket is not woken by the close.         *)
FakeStep(f) ==
  /\ spc # "exited"
  /\ LET d == fake[f] IN
     \/ d.thread = "starting" /\ fake' = [fake EXCEPT ![f].thread = "loop", ![f].running = TRUE]
     \/ d.thread = "loop" /\ fake' = [fake EXCEPT ![f].thread = IF d.running /\ d.open THEN "recv" ELSE "ended"]
  /\ UNCHANGED <<script, options, spc, backend, connected, counted, hooked, logits, stopAsked, rc>>

(* A task arrives and a made-up result is sent; or the peer closes and the   *)
(* thread ends; or fewer than 8 bytes arrive, unpack raises and the thread   *)
(* ends with its connection open.                                           *)
FakeReceives(f) ==
  /\ spc # "exited" /\ fake[f].thread = "recv"
  /\ \/ fake' = [fake EXCEPT ![f].thread = "loop"] /\ UNCHANGED connected
     \/ fake' = [fake EXCEPT ![f].thread = "ended"] /\ connected > 0 /\ connected' \in {connected, connected - 1}
  /\ UNCHANGED <<script, options, spc, backend, counted, hooked, logits, stopAsked, rc>>

(* Mutant: join without a timeout.                                          *)
StopFakeForever(f) ==
  /\ spc = "cleanup" /\ fake[f].thread \notin {"none", "failed", "stopped"}
  /\ \/ fake[f].open /\ fake' = [fake EXCEPT ![f].running = FALSE, ![f].open = FALSE]
     \/ ~fake[f].open /\ fake[f].thread = "ended" /\ fake' = [fake EXCEPT ![f].thread = "stopped"]
  /\ UNCHANGED <<script, options, spc, backend, connected, counted, hooked, logits, stopAsked, rc>>

(* stop() clears the flag and closes the socket, then joins the thread; the  *)
(* join gives up after 5 s and the daemon thread is left behind.            *)
StopFake(f) ==
  /\ spc = "cleanup" /\ fake[f].thread \notin {"none", "failed", "stopped"}
  /\ \/ fake[f].open /\ fake' = [fake EXCEPT ![f].running = FALSE, ![f].open = FALSE]
     \/ ~fake[f].open /\ fake' = [fake EXCEPT ![f].thread = "stopped"]
  /\ UNCHANGED <<script, options, spc, backend, connected, counted, hooked, logits, stopAsked, rc>>

CleanupDone ==
  /\ spc = "cleanup" /\ \A f \in FakeDevices : fake[f].thread \in {"none", "failed", "stopped"}
  /\ Leave(0)
  /\ UNCHANGED <<script, options, backend, connected, counted, hooked, logits, fake, stopAsked>>

(***************************************************************************)
(* Waiting for devices                                                     *)
(***************************************************************************)
DeviceConnects ==
  /\ backend = "started" /\ spc # "exited" /\ connected < MaxConnected
  /\ connected' = connected + 1
  /\ UNCHANGED <<script, options, spc, backend, counted, hooked, logits, fake, stopAsked, rc>>

DeviceLeaves ==
  /\ backend = "started" /\ spc # "exited" /\ connected > Cardinality({f \in FakeDevices : fake[f].open /\ fake[f].thread # "ended"})
  /\ connected' = connected - 1
  /\ UNCHANGED <<script, options, spc, backend, counted, hooked, logits, fake, stopAsked, rc>>

(* --no-wait reads the count once.                                          *)
CountOnce ==
  /\ spc = "count"
  /\ counted' = connected /\ spc' = "counted"
  /\ UNCHANGED <<script, options, backend, connected, hooked, logits, fake, stopAsked, rc>>

(* One turn of the polling loop; a count that raises is one more turn.       *)
PollConnections ==
  /\ spc = "wait" /\ connected >= MinDevices
  /\ counted' = connected /\ spc' = "counted"
  /\ UNCHANGED <<script, options, backend, connected, hooked, logits, fake, stopAsked, rc>>

(* Mutant: the script waits until the devices are there.                    *)
WaitsForAll == PollConnections

(* The time is up.  The count is read once more, outside the try, and may    *)
(* raise; run_mixed_devices asks whether to go on.                          *)
WaitTimesOut ==
  /\ spc = "wait"
  /\ \/ counted' = connected /\ spc' = (IF script = "run_mixed_devices" THEN "asked" ELSE "counted") /\ UNCHANGED rc
     \/ Leave(1) /\ UNCHANGED counted
  /\ UNCHANGED <<script, options, backend, connected, hooked, logits, fake, stopAsked>>

OperatorAnswers ==
  /\ spc = "asked"
  /\ spc' \in {"counted", "cleanup"}
  /\ UNCHANGED <<script, options, backend, connected, counted, hooked, logits, fake, stopAsked, rc>>

(***************************************************************************)
(* Inference                                                               *)
(***************************************************************************)
(* Mutant: run_server infers whatever the count was.                        *)
BeginAlways ==
  /\ spc = "counted"
  /\ hooked' = options.hooks /\ spc' = "forward"
  /\ UNCHANGED <<script, options, backend, connected, counted, logits, fake, stopAsked, rc>>

(* run_server infers only when it counted a device and has a model; the       *)
(* other two go on with the devices they have.                              *)
Begin ==
  /\ spc = "counted"
  /\ IF script = "run_server" /\ (counted = 0 \/ ~options.model)
     THEN spc' = "serve" /\ UNCHANGED hooked
     ELSE spc' = "forward" /\ hooked' = options.hooks
  /\ UNCHANGED <<script, options, backend, connected, counted, logits, fake, stopAsked, rc>>

(* A hooked layer waits for its partitions, so for a device; any pass may    *)
(* raise.                                                                   *)
CanCompute == hooked => connected > 0

Forward ==
  /\ spc = "forward"
  /\ \/ /\ CanCompute
        /\ logits' = IF script = "run_mixed_devices" THEN logits
                     ELSE logits \cup {IF options.hooks THEN "with_hooks" ELSE "without_hooks"}
        /\ spc' = IF script = "run_server" THEN "serve" ELSE "backward"
        /\ UNCHANGED rc
     \/ Leave(1) /\ UNCHANGED logits
  /\ UNCHANGED <<script, options, backend, connected, counted, hooked, fake, stopAsked>>

(* run_devices ends here and leaves its devices running.                     *)
Backward ==
  /\ spc = "backward"
  /\ \/ CanCompute /\ IF script = "run_mixed_devices" THEN spc' = "cleanup" /\ UNCHANGED rc ELSE Leave(0)
     \/ Leave(1)
  /\ UNCHANGED <<script, options, backend, connected, counted, hooked, logits, fake, stopAsked>>

(***************************************************************************)
(* Signals and the end of run_server                                       *)
(***************************************************************************)
(* Mutant: the handler is not installed when the server runs.               *)
SignalEnds ==
  /\ spc # "exited" /\ Leave(IF script = "run_server" THEN 0 ELSE 1)
  /\ UNCHANGED <<script, options, backend, connected, counted, hooked, logits, fake, stopAsked>>

(* run_server installs its handlers after the inference; before that, and in *)
(* the other scripts, a signal ends the process where it is (exit status 0   *)
(* when run_mixed_devices catches KeyboardInterrupt).                       *)
SignalArrives ==
  /\ spc # "exited"
  /\ IF spc = "serve" THEN stopAsked' = TRUE /\ UNCHANGED <<spc, rc>>
     ELSE Leave(IF script = "run_mixed_devices" THEN 0 ELSE 1) /\ UNCHANGED stopAsked
  /\ UNCHANGED <<script, options, backend, connected, counted, hooked, logits, fake>>

(* The loop sees `stop' within a second.  stop and disconnect are called only *)
(* if the backend has them, and ProxySvr has neither: the main thread ends    *)
(* with its loop running.                                                   *)
StopServing ==
  /\ spc = "serve" /\ stopAsked
  /\ Leave(0)
  /\ UNCHANGED <<script, options, backend, connected, counted, hooked, logits, fake, stopAsked>>

ScriptStep ==
  \/ StartBackend \/ SpawnDevices \/ FakesStarted \/ CleanupDone \/ CountOnce \/ PollConnections \/ Begin
  \/ Forward \/ Backward \/ StopServing
  \/ \E f \in FakeDevices : StartFake(f) \/ StopFake(f)

ServerNext ==
  \/ ScriptStep \/ WaitTimesOut \/ OperatorAnswers \/ SignalArrives \/ DeviceConnects \/ DeviceLeaves
  \/ \E f \in FakeDevices : FakeStep(f) \/ FakeReceives(f)

-------------------------------------------------------------------------------
(* A run_server that reports success had a backend and was asked to stop     *)
(* while it served; when it wrote logits it had counted a device, and logits  *)
(* named after the hooks were computed with them.                           *)
SuccessIsEarned ==
  script = "run_server" =>
    /\ rc = 0 => stopAsked /\ backend = "started"
    /\ logits # {} => counted > 0
    /\ "with_hooks" \in logits => hooked

(* Waiting for devices ends though none ever connects.                      *)
WaitEnds == spc = "wait" ~> spc # "wait"

(* Stopping the fake devices ends though their threads stay in recv.        *)
CleanupEnds == spc = "cleanup" ~> spc = "exited"

(* A signal ends a serving run_server; a server is not ended otherwise.      *)
ServingEndsOnSignal ==
  /\ (spc = "serve" /\ stopAsked) ~> spc = "exited"
  /\ [][spc = "serve" /\ spc' = "exited" => stopAsked]_serverVars

(* The serving scripts come to an end where they should                       *)
(* (wait_for_connections, FakeDevice.stop, the signal handler), and run_server *)
(* reports success only when it served and was asked to stop.  That the       *)
(* backend stops is not part of it: nothing stops its loop.                   *)
ServingEnds ==
  []SuccessIsEarned /\ WaitEnds /\ CleanupEnds /\ ServingEndsOnSignal
===============================================================================
