------------------------------ MODULE MCLifecycle ------------------------------
(* What is handed over is run and what is started comes to an end: an event   *)
(* loop, a device's measurement session, the launcher of a fleet, a serving   *)
(* script, and a checkpoint saved by a command that may be killed and given   *)
(* again.  They share no state; one of them, of the initial state's choice,   *)
(* runs.                                                                      *)
EXTENDS EventLoop, MeasurementSession, FleetLauncher, ServerScripts, MCCheckpointSave

CONSTANTS t1, t2, me, f1, f2

VARIABLES part

AllConfigs == SUBSET Probes
Both == BOOLEAN

lifeVars == <<part, loopVars, sessionVars, fleetVars, serverVars, saveVars>>

LifecycleInit ==
  /\ part \in {"loop", "session", "fleet", "script", "save"}
  /\ LoopInit /\ SessionInit /\ FleetInit /\ ServerInit /\ SaveInit
  /\ part # "session" => cfg = {} /\ ~async
  /\ part # "script" => script = "run_devices" /\ ~options.hooks

(* A step of one part leaves the others' variables as they are.               *)
Keep(p, v) == IF part = p THEN TRUE ELSE UNCHANGED v
Of(p, A) ==
  /\ part = p /\ A /\ UNCHANGED part
  /\ Keep("loop", loopVars) /\ Keep("session", sessionVars)
  /\ Keep("fleet", fleetVars) /\ Keep("script", serverVars)
  /\ Keep("save", saveVars)

LifecycleNext ==
  \/ Of("loop", LoopNext) \/ Of("session", SessionNext)
  \/ Of("fleet", FleetNext) \/ Of("script", ServerNext)
  \/ Of("save", SaveNext)

(* The loop's thread runs and a thread that has pushed writes the eventfd; an *)
(* armed timer fires and a reference product comes to an end; the launcher    *)
(* and the main thread of a script run, time passes, and a killed process     *)
(* dies.  Nobody has to post, a save may be killed at any step, and devices,  *)
(* data, the operator and the fake devices' threads promise nothing.          *)
LifecycleFairness ==
  /\ WF_lifeVars(Of("loop", LoopStep)) /\ \A t \in Posters : WF_lifeVars(Of("loop", Wakeup(t)))
  /\ WF_lifeVars(Of("session", OnTimeout))
  /\ WF_lifeVars(Of("session", ReferenceDone \/ ReferenceFailed))
  /\ WF_lifeVars(Of("fleet", Launcher)) /\ WF_lifeVars(Of("fleet", DeadlinePasses))
  /\ \A i \in Fleet : WF_lifeVars(Of("fleet", KilledDies(i)))
  /\ WF_lifeVars(Of("script", ScriptStep)) /\ WF_lifeVars(Of("script", WaitTimesOut))

LifecycleSpec == LifecycleInit /\ [][LifecycleNext]_lifeVars /\ LifecycleFairness
===============================================================================
