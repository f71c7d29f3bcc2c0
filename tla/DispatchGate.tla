----------------------------- MODULE DispatchGate -----------------------------
(***************************************************************************)
(* The gate before a dispatch: DispatchMatMulAsync waits for a number of   *)
(* devices (BARRIER) or queues its work while there is none (DYNAMIC), and *)
(* the device tracker tells the gate of every device that registers.       *)
(*                                                                         *)
(* Threads: the callers of DispatchMatMulAsync, and the event loops, here  *)
(* one per device, on which devices register and disconnect.  A step is    *)
(* what a thread does under the gate's mutex, or up to the next lock it    *)
(* takes.  The tracker's mutex_ is a variable: RegisterDevice holds it     *)
(* across NotifyDeviceJoined.  A device that registers again is one that   *)
(* came back, whatever id it gets.                                         *)
(***************************************************************************)
EXTENDS Integers, Sequences

CONSTANTS
  Calls,        \* calls of DispatchMatMulAsync, each on its own thread
  Devices,
  Modes,        \* the modes the gate may be configured with
  BarrierCount, \* barrier_count_
  Timed,        \* barrier_timeout_ms_ > 0
  MaxQueue,     \* max_queue_size_
  MaxJoins,     \* bound on the registrations of a behaviour
  None

ASSUME ModesAssumption == Modes \subseteq {"BARRIER", "DYNAMIC"} /\ Timed \in BOOLEAN
ASSUME BoundsAssumption ==
  BarrierCount \in Nat /\ MaxQueue \in Nat /\ MaxJoins \in Nat
ASSUME DevicesAssumption == None \notin Devices

VARIABLES
  mode,     \* mode_
  met,      \* barrier_met_
  joined,   \* connected_count_
  work,     \* work_queue_, the calls queued in it
  lock,     \* the thread that holds the tracker's mutex_
  devs,     \* devices with is_connected set
  call,     \* where a call is
  dev,      \* where the thread of a device is
  flush     \* to_flush, what the thread of a device took from work_queue_

gate == <<mode, met, joined, work>>
vars == <<gate, lock, devs, call, dev, flush>>

Init ==
  /\ mode \in Modes
  /\ met = FALSE
  /\ joined = 0
  /\ work = <<>>
  /\ lock = None
  /\ devs = {}
  /\ call = [c \in Calls |-> "new"]
  /\ dev = [d \in Devices |-> "away"]
  /\ flush = [d \in Devices |-> <<>>]

(***************************************************************************)
(* DispatchMatMulAsync, up to ReserveOperationId.                          *)
(***************************************************************************)
(* WaitForReady: a thread told of the barrier looks at barrier_met_ again.  *)
WaitForReady(c) ==
  /\ mode = "BARRIER"
  /\ call[c] \in {"new", "woken"}
  /\ call' = [call EXCEPT ![c] = IF met THEN "dispatched" ELSE "waiting"]
  /\ UNCHANGED <<gate, lock, devs, dev, flush>>

(* Mutant: a wait that timed out is resumed.                                *)
WaitResumed(c) ==
  /\ Timed
  /\ call[c] = "waiting"
  /\ call' = [call EXCEPT ![c] = IF met THEN "dispatched" ELSE "woken"]
  /\ UNCHANGED <<gate, lock, devs, dev, flush>>

(* wait_for returns the predicate; false makes the dispatch return -1.      *)
WaitTimeout(c) ==
  /\ Timed
  /\ call[c] = "waiting"
  /\ call' = [call EXCEPT ![c] = IF met THEN "dispatched" ELSE "failed"]
  /\ UNCHANGED <<gate, lock, devs, dev, flush>>

(* GetConnectedDeviceCount, under the tracker's mutex_.                     *)
GetConnectedDeviceCount(c) ==
  /\ mode = "DYNAMIC"
  /\ call[c] = "new"
  /\ lock = None
  /\ call' = [call EXCEPT ![c] = IF devs = {} THEN "enqueue" ELSE "dispatched"]
  /\ UNCHANGED <<gate, lock, devs, dev, flush>>

EnqueueWork(c) ==
  /\ call[c] = "enqueue"
  /\ IF Len(work) < MaxQueue
     THEN /\ work' = Append(work, c)
          /\ call' = [call EXCEPT ![c] = "queued"]
     ELSE /\ call' = [call EXCEPT ![c] = "full"]
          /\ UNCHANGED work
  /\ UNCHANGED <<mode, met, joined, lock, devs, dev, flush>>

(***************************************************************************)
(* RegisterDevice and DisconnectDevice.                                    *)
(***************************************************************************)
RegisterDevice(d) ==
  /\ dev[d] = "away"
  /\ joined < MaxJoins
  /\ lock = None
  /\ lock' = d
  /\ devs' = devs \cup {d}
  /\ dev' = [dev EXCEPT ![d] = "notify"]
  /\ UNCHANGED <<gate, call, flush>>

Wake(from, to) == [c \in Calls |-> IF call[c] = from THEN to ELSE call[c]]

(* Mutants: one waiting thread is woken, or a barrier is met one early; the *)
(* queue is copied and not cleared.                                         *)
NotifyOneJoined(d) ==
  LET full == {c \in Calls : call[c] \in {"full", "waiting"}} IN
  /\ dev[d] = "notify"
  /\ joined' = joined + 1
  /\ met' = (met \/ (mode = "BARRIER" /\ joined + 1 >= BarrierCount))
  /\ \/ full = {} /\ UNCHANGED call
     \/ \E c \in full : call' = [call EXCEPT ![c] = IF met' THEN "woken"
                                   ELSE IF mode = "DYNAMIC" THEN "enqueue" ELSE @]
  /\ work' = IF mode = "DYNAMIC" THEN <<>> ELSE work
  /\ flush' = [flush EXCEPT ![d] = IF mode = "DYNAMIC" THEN work ELSE <<>>]
  /\ lock' = IF flush'[d] = <<>> THEN None ELSE lock
  /\ dev' = [dev EXCEPT ![d] = IF flush'[d] = <<>> THEN "up" ELSE "flush"]
  /\ UNCHANGED <<mode, devs>>

NotifyJoinedEarly(d) ==
  /\ dev[d] = "notify"
  /\ joined' = joined + 1
  /\ met' = (met \/ (mode = "BARRIER" /\ joined + 1 >= BarrierCount - 1))
  /\ call' = IF met' /\ ~met THEN Wake("waiting", "woken") ELSE call
  /\ lock' = None
  /\ dev' = [dev EXCEPT ![d] = "up"]
  /\ UNCHANGED <<mode, work, devs, flush>>

NotifyJoinedKept(d) ==
  /\ dev[d] = "notify"
  /\ joined' = joined + 1
  /\ flush' = [flush EXCEPT ![d] = work]
  /\ lock' = IF work = <<>> THEN None ELSE lock
  /\ dev' = [dev EXCEPT ![d] = IF work = <<>> THEN "up" ELSE "flush"]
  /\ UNCHANGED <<mode, met, work, devs, call>>

(* Mutant: a barrier that is met is reported under the tracker's lock to    *)
(* the callers, who ask the tracker, as the flush of queued work does.      *)
NotifyJoinedInline(d) ==
  LET meets == mode = "BARRIER" /\ ~met /\ joined + 1 >= BarrierCount IN
  /\ dev[d] = "notify"
  /\ joined' = joined + 1 /\ met' = (met \/ meets)
  /\ call' = IF meets THEN Wake("waiting", "woken") ELSE call
  /\ lock' = IF meets THEN lock ELSE None
  /\ dev' = [dev EXCEPT ![d] = IF meets THEN "flush" ELSE "up"]
  /\ UNCHANGED <<mode, work, devs, flush>>

(* The part of NotifyDeviceJoined under the gate's mutex, and, when there  *)
(* is nothing to run, the return from RegisterDevice.                      *)
NotifyDeviceJoined(d) ==
  LET meets == mode = "BARRIER" /\ ~met /\ joined + 1 >= BarrierCount
      taken == IF mode = "DYNAMIC" THEN work ELSE <<>> IN
  /\ dev[d] = "notify"
  /\ joined' = joined + 1
  /\ met' = (met \/ meets)
  /\ work' = IF taken # <<>> THEN <<>> ELSE work
  /\ call' = IF meets THEN Wake("waiting", "woken")
             ELSE IF taken # <<>> THEN Wake("full", "enqueue") ELSE call
  /\ flush' = [flush EXCEPT ![d] = taken]
  /\ lock' = IF taken = <<>> THEN None ELSE lock
  /\ dev' = [dev EXCEPT ![d] = IF taken = <<>> THEN "up" ELSE "flush"]
  /\ UNCHANGED <<mode, devs>>

(* A queued call is DispatchMatMulAsync again, on the device's thread:     *)
(* GetConnectedDeviceCount locks the std::mutex this thread already holds, *)
(* and the thread never returns.                                           *)
RunQueued(d) ==
  /\ dev[d] = "flush"
  /\ lock = d
  /\ dev' = [dev EXCEPT ![d] = "stuck"]
  /\ UNCHANGED <<gate, lock, devs, call, flush>>

(* A disconnect does not tell the gate: NotifyDeviceLeft is PurgeDevice's,  *)
(* which nothing calls.                                                     *)
DisconnectDevice(d) ==
  /\ dev[d] = "up"
  /\ lock = None
  /\ devs' = devs \ {d}
  /\ dev' = [dev EXCEPT ![d] = "away"]
  /\ UNCHANGED <<gate, lock, call, flush>>

(***************************************************************************)
(* The specification.                                                      *)
(***************************************************************************)
Caller(c) ==
  \/ WaitForReady(c) \/ WaitTimeout(c)
  \/ GetConnectedDeviceCount(c) \/ EnqueueWork(c)

Handler(d) == NotifyDeviceJoined(d) \/ RunQueued(d)

Next ==
  \/ \E c \in Calls : Caller(c)
  \/ \E d \in Devices : RegisterDevice(d) \/ Handler(d) \/ DisconnectDevice(d)

Spec == Init /\ [][Next]_vars

(* Threads run, and get the lock when it is free time and again.  Devices   *)
(* neither have to join nor to leave.                                       *)
FairSpec ==
  /\ Spec
  /\ \A c \in Calls : SF_vars(Caller(c))
  /\ \A d \in Devices : WF_vars(Handler(d))

(***************************************************************************)
(* Properties.                                                             *)
(***************************************************************************)
(* The type of the state. *)
TypeOK ==
  /\ mode \in {"BARRIER", "DYNAMIC"}
  /\ met \in BOOLEAN
  /\ joined \in Nat
  /\ work \in Seq(Calls)
  /\ lock \in Devices \cup {None}
  /\ devs \subseteq Devices
  /\ call \in [Calls -> {"new", "waiting", "woken", "enqueue", "full", "queued",
                         "dispatched", "failed"}]
  /\ dev \in [Devices -> {"away", "notify", "flush", "stuck", "up"}]
  /\ flush \in [Devices -> Seq(Calls)]

(* No wakeup is lost: a caller waits for the barrier only while it is not  *)
(* met, and for room in the queue only while the queue is full.            *)
NoLostWakeup ==
  \A c \in Calls :
    /\ call[c] = "waiting" => ~met
    /\ call[c] = "full" => Len(work) >= MaxQueue

Held(c) ==
  {<<"work", i>> : i \in {i \in DOMAIN work : work[i] = c}}
    \cup (UNION {{<<"flush", d, i>> : i \in {i \in DOMAIN flush[d] : flush[d][i] = c}}
                 : d \in Devices})

(* A call whose work was queued is in the queue, or in the list of one     *)
(* device that joined, and once; no other call is; and the queue keeps to  *)
(* its bound.                                                              *)
QueuedOnce ==
  /\ \A c \in Calls :
       /\ call[c] = "queued" => \E x \in Held(c) : Held(c) = {x}
       /\ call[c] # "queued" => Held(c) = {}
  /\ Len(work) <= MaxQueue

(* In BARRIER mode nothing is dispatched before BarrierCount devices have  *)
(* registered.                                                             *)
DispatchAfterJoins ==
  mode = "BARRIER" /\ (\E c \in Calls : call[c] = "dispatched")
    => joined >= BarrierCount

(* In BARRIER mode a registration returns and frees the tracker's lock,     *)
(* though NotifyDeviceJoined is called inside it.                           *)
BarrierRegistrationReturns ==
  \A d \in Devices : mode = "BARRIER" /\ dev[d] = "notify" ~> dev[d] = "up" /\ lock # d

(* "Wait for N devices before dispatching": when the barrier is met there  *)
(* are BarrierCount devices.  False: the gate is not told of a departure.  *)
BarrierHasDevices ==
  [][met' /\ ~met =>
       \E f \in [1..BarrierCount -> devs'] :
         \A i, j \in 1..BarrierCount : f[i] = f[j] => i = j]_vars

(* "elastic join/leave": the loop on which a device registers goes on.     *)
(* False: in DYNAMIC mode it runs the queued work under the tracker's lock. *)
RegistrationReturns == \A d \in Devices : dev[d] = "notify" ~> dev[d] = "up"

(* "No connected devices in DYNAMIC mode, work enqueued": queued work is   *)
(* taken from the queue once a device is there, and as long as one is.     *)
(* False: the device may join between the check and the enqueue.           *)
QueuedIsTaken ==
  \A c \in Calls :
    (\E i \in DOMAIN work : work[i] = c) /\ devs # {}
      ~> (\A i \in DOMAIN work : work[i] # c) \/ devs = {}

==============================================================================
