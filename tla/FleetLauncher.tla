------------------------------ MODULE FleetLauncher ------------------------------
(***************************************************************************)
(* start_devices_from_config: one process per entry of the fleet file, a   *)
(* monitor loop, and a handler of SIGINT and SIGTERM that may run between  *)
(* any two steps of the launcher: it terminates the devices recorded in    *)
(* `processes', gives them one deadline together, kills those that are     *)
(* left and exits.                                                         *)
(***************************************************************************)
EXTENDS Integers, FiniteSets

CONSTANTS FleetSize   \* entries of the fleet file

VARIABLES
  lpc,        \* where the launcher is
  cursor,     \* entry or process its loop is at
  recorded,   \* processes
  device,     \* entry |-> state of its process
  stopping,
  overdue,       \* the deadline of 5 s has passed
  status      \* exit status; -1 while it runs

fleetVars == <<lpc, cursor, recorded, device, stopping, overdue, status>>

Fleet == 1..FleetSize
Gone == {"exited", "killed"}

FleetInit ==
  /\ lpc = "spawn" /\ cursor = 1 /\ recorded = {} /\ device = [i \in Fleet |-> "none"]
  /\ stopping = FALSE /\ overdue = FALSE /\ status = -1

(* Popen has forked; the launcher has not appended the process yet.         *)
Spawn ==
  /\ lpc = "spawn"
  /\ device' = [device EXCEPT ![cursor] = "running"]
  /\ lpc' = "record"
  /\ UNCHANGED <<cursor, recorded, stopping, overdue, status>>

(* A missing field, or a Popen that raises: the devices launched so far are  *)
(* left running.                                                            *)
SpawnFails ==
  /\ lpc = "spawn"
  /\ lpc' = "exited" /\ status' = 1
  /\ UNCHANGED <<cursor, recorded, device, stopping, overdue>>

Record ==
  /\ lpc = "record"
  /\ recorded' = recorded \cup {cursor}
  /\ IF cursor = FleetSize THEN lpc' = "monitor" /\ UNCHANGED cursor
     ELSE lpc' = "spawn" /\ cursor' = cursor + 1
  /\ UNCHANGED <<device, stopping, overdue, status>>

(* The monitor raises RuntimeError when a device has exited.                *)
Monitor ==
  /\ lpc = "monitor"
  /\ \E i \in recorded : device[i] = "exited"
  /\ lpc' = "exited" /\ status' = 1
  /\ UNCHANGED <<cursor, recorded, device, stopping, overdue>>

(***************************************************************************)
(* _shutdown                                                               *)
(***************************************************************************)
(* A signal while the handler runs returns at once.                         *)
Signal ==
  /\ lpc # "exited" /\ ~stopping
  /\ stopping' = TRUE /\ lpc' = "terminate" /\ cursor' = 1
  /\ UNCHANGED <<recorded, device, overdue, status>>

Terminate ==
  /\ lpc = "terminate"
  /\ IF cursor \in recorded
     THEN /\ device' = [device EXCEPT ![cursor] = IF @ = "running" THEN "asked" ELSE @]
          /\ cursor' = cursor + 1 /\ UNCHANGED lpc
     ELSE lpc' = "wait" /\ cursor' = 1 /\ UNCHANGED device
  /\ UNCHANGED <<recorded, stopping, overdue, status>>

(* Mutant: the devices that are left are not killed.                        *)
WaitOnly ==
  /\ lpc = "wait"
  /\ IF cursor \in recorded
     THEN (device[cursor] = "exited" \/ overdue) /\ cursor' = cursor + 1 /\ UNCHANGED <<lpc, status>>
     ELSE lpc' = "exited" /\ status' = 0 /\ UNCHANGED cursor
  /\ UNCHANGED <<recorded, device, stopping, overdue>>

(* Mutant: wait without a timeout.                                          *)
WaitForever ==
  /\ lpc = "wait"
  /\ IF cursor \in recorded
     THEN device[cursor] = "exited" /\ cursor' = cursor + 1 /\ UNCHANGED <<lpc, status>>
     ELSE lpc' = "exited" /\ status' = 0 /\ UNCHANGED cursor
  /\ UNCHANGED <<recorded, device, stopping, overdue>>

(* Mutant: a device that is still running is killed at once.                *)
WaitEager ==
  /\ lpc = "wait"
  /\ IF cursor \in recorded
     THEN /\ device' = [device EXCEPT ![cursor] = IF @ = "exited" THEN @ ELSE "killed"]
          /\ cursor' = cursor + 1 /\ UNCHANGED <<lpc, status>>
     ELSE lpc' = "exited" /\ status' = 0 /\ UNCHANGED <<cursor, device>>
  /\ UNCHANGED <<recorded, stopping, overdue>>

(* Each process is waited for until it exits or the deadline passes.        *)
Wait ==
  /\ lpc = "wait"
  /\ IF cursor \in recorded
     THEN /\ device[cursor] = "exited" \/ overdue
          /\ device' = [device EXCEPT ![cursor] = IF @ = "exited" THEN @ ELSE "killed"]
          /\ cursor' = cursor + 1 /\ UNCHANGED <<lpc, status>>
     ELSE lpc' = "exited" /\ status' = 0 /\ UNCHANGED <<cursor, device>>
  /\ UNCHANGED <<recorded, stopping, overdue>>

DeadlinePasses ==
  /\ lpc = "wait" /\ ~overdue /\ overdue' = TRUE
  /\ UNCHANGED <<lpc, cursor, recorded, device, stopping, status>>

(***************************************************************************)
(* Device processes: one may exit at any time, may ignore SIGTERM, but not *)
(* SIGKILL.                                                                *)
(***************************************************************************)
DeviceExits(i) ==
  /\ device[i] \in {"running", "asked", "killed"}
  /\ device' = [device EXCEPT ![i] = "exited"]
  /\ UNCHANGED <<lpc, cursor, recorded, stopping, overdue, status>>

Launcher == Spawn \/ SpawnFails \/ Record \/ Monitor \/ Terminate \/ Wait

FleetNext == Launcher \/ Signal \/ DeadlinePasses \/ (\E i \in Fleet : DeviceExits(i))

KilledDies(i) == device[i] = "killed" /\ DeviceExits(i)

-------------------------------------------------------------------------------
(* When the handler has exited, every recorded device has exited or been     *)
(* killed, wherever the signal came; the one that may be left running is the *)
(* process that was forked and not yet appended to `processes'.             *)
NoneOutlivesShutdown ==
  status = 0 =>
    /\ \A i \in recorded : device[i] \in Gone
    /\ Cardinality({i \in Fleet : device[i] = "running"}) <= 1

(* A device is killed only after it was asked to terminate and the deadline  *)
(* has passed.                                                              *)
KilledWereAsked ==
  [][\A i \in Fleet : device'[i] = "killed" /\ device[i] # "killed" => device[i] = "asked" /\ overdue]_fleetVars

(* The launcher exits after a signal though devices ignore SIGTERM, and when *)
(* a device of the running fleet exits.                                     *)
LauncherExits ==
  /\ stopping ~> lpc = "exited"
  /\ (lpc = "monitor" /\ \E i \in recorded : device[i] = "exited") ~> lpc = "exited"

(* After a shutdown every recorded device is eventually gone.               *)
FleetEnds == status = 0 ~> \A i \in recorded : device[i] = "exited"

(* A launcher that is told to stop ends, kills only what did not listen, and  *)
(* leaves no device it recorded (main, _shutdown).                            *)
FleetShutsDown ==
  []NoneOutlivesShutdown /\ KilledWereAsked /\ LauncherExits /\ FleetEnds
===============================================================================
