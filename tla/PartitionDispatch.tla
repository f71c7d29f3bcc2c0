-------------------------- MODULE PartitionDispatch --------------------------
(***************************************************************************)
(* The life of a GEMM in the proxy server: DispatchMatMulAsync cuts it     *)
(* into partitions, SendIdlePartitions claims, places and sends them,      *)
(* HandleMatMul takes the results in, WaitMatMul returns the output, and   *)
(* connections come and go meanwhile.                                      *)
(*                                                                         *)
(* Threads: one application thread per operation and one thread per event  *)
(* loop.  A loop runs one handler or one queued functor at a time; a step  *)
(* is what it does under one lock, so the steps of two threads interleave  *)
(* at every lock boundary of the code.                                     *)
(*                                                                         *)
(* A connection is also a device: a client that reconnects has a new peer  *)
(* address and draws a new uuid (proxy_cli.cpp:623), so it is a new        *)
(* element of Conns.  Measurement probes and the dispatch gate are off, as *)
(* in the shipped configuration; they have modules of their own.           *)
(***************************************************************************)
EXTENDS Integers, Sequences, FiniteSets

CONSTANTS
  Parts,     \* the partitions of all operations
  Ops,       \* operation ids
  OpOf,      \* the operation a partition belongs to
  Conns,     \* connections, each the one of a device
  Loops,     \* event loops, each a thread
  Main,      \* ProxySvrImpl::loop_
  LoopOf,    \* the loop that serves a connection
  Standing,  \* connections registered before the first dispatch
  Leavers,   \* connections that may close
  None       \* device id -1, a null connection

ASSUME PartsAssumption == IsFiniteSet(Parts) /\ None \notin Parts
ASSUME OpsAssumption == OpOf \in [Parts -> Ops]
ASSUME LoopsAssumption == Main \in Loops /\ LoopOf \in [Conns -> Loops]
ASSUME ConnsAssumption ==
  Standing \subseteq Conns /\ Leavers \subseteq Conns /\ None \notin Conns

VARIABLES
  app,       \* where the thread of an operation is
  toAdd,     \* partitions its dispatch has yet to put in the tracker
  count,     \* rsp_cb_counts_
  written,   \* blocks of outputs_ that hold a result, not the initial NaN
  result,    \* the blocks that held a result in the clone WaitMatMul returned
  state,     \* PartitionInfo::state, "none" for a key that is not in the maps
  dev,       \* partition_to_device_, the index of device_partitions_
  owner,     \* PartitionInfo::owner_device_id
  link,      \* a connection's progress, as its own loop sees it
  connected, \* devices whose DeviceLiveness::is_connected is set
  devconn,   \* devices with an entry in device_connections_
  wire,      \* copies of a partition sent to a connection and not answered
  queue,     \* a loop's functors: the batch being run, then pending_functors_
  nrun,      \* how many of them are left of the batch DoPendingFunctors swapped
  pc,        \* the step a loop takes next, "idle" between handlers
  conn,      \* the connection its handler is about
  part,      \* the partition its handler is about
  batch,     \* idle_partitions of its SendIdlePartitions, those still to place
  assign,    \* redistributed, the map its policy returned
  ready      \* ready_partitions, those still to send

tracker == <<state, dev, owner>>
outputs == <<count, written, result>>
devices == <<connected, devconn>>
handler == <<pc, conn, part, batch, assign, ready>>
vars == <<app, toAdd, outputs, tracker, link, devices, wire, queue, nrun,
          handler>>

PartsOf(o) == {p \in Parts : OpOf[p] = o}

(* A functor is SendIdlePartitions, or SendInLoop of a partition.          *)
SendIdle == [conn |-> None, part |-> None]
Functor == [conn : Conns, part : Parts] \cup {SendIdle}

Init ==
  /\ app = [o \in Ops |-> "new"]
  /\ toAdd = {}
  /\ count = [o \in Ops |-> 0]
  /\ written = {}
  /\ result = [o \in Ops |-> {}]
  /\ state = [p \in Parts |-> "none"]
  /\ dev = [p \in Parts |-> None]
  /\ owner = [p \in Parts |-> None]
  /\ link = [c \in Conns |-> IF c \in Standing THEN "registered" ELSE "new"]
  /\ connected = Standing
  /\ devconn = Standing
  /\ wire = [c \in Conns |-> [p \in Parts |-> 0]]
  /\ queue = [l \in Loops |-> <<>>]
  /\ nrun = [l \in Loops |-> 0]
  /\ pc = [l \in Loops |-> "idle"]
  /\ conn = [l \in Loops |-> None]
  /\ part = [l \in Loops |-> None]
  /\ batch = [l \in Loops |-> {}]
  /\ assign = [l \in Loops |-> [p \in Parts |-> None]]
  /\ ready = [l \in Loops |-> {}]

(***************************************************************************)
(* The application: DispatchMatMulAsync and WaitMatMul.                    *)
(***************************************************************************)
QueueInLoop(l, f) == queue' = [queue EXCEPT ![l] = Append(@, f)]

(* outputs_[oid] is created and rsp_cb_counts_ raised under outputs_mutex_. *)
Dispatch(o) ==
  /\ app[o] = "new"
  /\ app' = [app EXCEPT ![o] = "adding"]
  /\ toAdd' = toAdd \cup PartsOf(o)
  /\ count' = [count EXCEPT ![o] = @ + Cardinality(PartsOf(o))]
  /\ UNCHANGED <<written, result, tracker, link, devices, wire, queue, nrun,
                 handler>>

AddPartition(p) ==
  /\ p \in toAdd
  /\ toAdd' = toAdd \ {p}
  /\ state' = [state EXCEPT ![p] = "IDLE"]
  /\ dev' = [dev EXCEPT ![p] = None]
  /\ owner' = [owner EXCEPT ![p] = None]
  /\ UNCHANGED <<app, outputs, link, devices, wire, queue, nrun, handler>>

(* Mutant: the dispatch leaves its partitions to a periodic timer.          *)
DispatchReturnUnposted(o) ==
  /\ app[o] = "adding"
  /\ PartsOf(o) \cap toAdd = {}
  /\ app' = [app EXCEPT ![o] = "waiting"]
  /\ UNCHANGED <<toAdd, outputs, tracker, link, devices, wire, queue, nrun,
                 handler>>

DispatchReturn(o) ==
  /\ app[o] = "adding"
  /\ PartsOf(o) \cap toAdd = {}
  /\ app' = [app EXCEPT ![o] = "waiting"]
  /\ QueueInLoop(Main, SendIdle)
  /\ UNCHANGED <<toAdd, outputs, tracker, link, devices, wire, nrun, handler>>

(* Mutant: a wait that times out is not resumed.                            *)
WaitMatMulOnce(o) ==
  /\ app[o] = "waiting"
  /\ app' = [app EXCEPT ![o] = "returned"]
  /\ result' = [result EXCEPT ![o] = written \cap PartsOf(o)]
  /\ UNCHANGED <<toAdd, count, written, tracker, link, devices, wire, queue,
                 nrun, handler>>

WaitMatMul(o) ==
  /\ app[o] = "waiting"
  /\ count[o] = 0
  /\ app' = [app EXCEPT ![o] = "returned"]
  /\ result' = [result EXCEPT ![o] = written \cap PartsOf(o)]
  /\ UNCHANGED <<toAdd, count, written, tracker, link, devices, wire, queue,
                 nrun, handler>>

(***************************************************************************)
(* Connections.  Their events are served by their own loop, and only       *)
(* between two batches of functors.                                        *)
(***************************************************************************)
Free(l) == pc[l] = "idle" /\ nrun[l] = 0

Goto(l, label) == pc' = [pc EXCEPT ![l] = label]

ConnectionSuccess(c) ==
  /\ Free(LoopOf[c])
  /\ link[c] = "new"
  /\ link' = [link EXCEPT ![c] = "open"]
  /\ QueueInLoop(Main, SendIdle)
  /\ UNCHANGED <<app, toAdd, outputs, tracker, devices, wire, nrun, handler>>

(* HandleRegisterResponse calls RegisterDevice, SetDeviceConnection and,   *)
(* without probes, queues SendIdlePartitions.                              *)
RegisterDevice(c) ==
  LET l == LoopOf[c] IN
  /\ Free(l)
  /\ link[c] = "open"
  /\ link' = [link EXCEPT ![c] = "registered"]
  /\ connected' = connected \cup {c}
  /\ Goto(l, "setconn")
  /\ conn' = [conn EXCEPT ![l] = c]
  /\ UNCHANGED <<app, toAdd, outputs, tracker, devconn, wire, queue, nrun, part,
                 batch, assign, ready>>

SetDeviceConnection(l) ==
  /\ pc[l] = "setconn"
  /\ devconn' = devconn \cup {conn[l]}
  /\ QueueInLoop(l, SendIdle)
  /\ Goto(l, "idle")
  /\ conn' = [conn EXCEPT ![l] = None]
  /\ UNCHANGED <<app, toAdd, outputs, tracker, link, connected, wire, nrun, part,
                 batch, assign, ready>>

(* ForceCloseInLoop: what was on the wire, in either direction, is lost.    *)
ConnectionClosed(c) ==
  LET l == LoopOf[c] IN
  /\ c \in Leavers
  /\ Free(l)
  /\ link[c] \in {"open", "registered"}
  /\ link' = [link EXCEPT ![c] = "closed"]
  /\ wire' = [wire EXCEPT ![c] = [p \in Parts |-> 0]]
  /\ Goto(l, "markfailed")
  /\ conn' = [conn EXCEPT ![l] = IF link[c] = "registered" THEN c ELSE None]
  /\ UNCHANGED <<app, toAdd, outputs, tracker, devices, queue, nrun, part,
                 batch, assign, ready>>

(* Mutant: the partitions of a closed device are cleared from the tracker.  *)
ClearDevicePartitions(l) ==
  LET failed == {p \in Parts : state[p] = "RUNNING" /\ dev[p] = conn[l]} IN
  /\ pc[l] = "markfailed"
  /\ state' = [p \in Parts |-> IF p \in failed THEN "none" ELSE state[p]]
  /\ Goto(l, IF conn[l] = None THEN "closed" ELSE "rmconn")
  /\ UNCHANGED <<app, toAdd, outputs, dev, owner, link, devices, wire, queue,
                 nrun, conn, part, batch, assign, ready>>

(* The device list of -1, the id of a connection that never registered, is *)
(* that of the partitions not placed yet.                                  *)
MarkDevicePartitionsFailed(l) ==
  LET failed == {p \in Parts : state[p] = "RUNNING" /\ dev[p] = conn[l]} IN
  /\ pc[l] = "markfailed"
  /\ state' = [p \in Parts |-> IF p \in failed THEN "IDLE" ELSE state[p]]
  /\ owner' = [p \in Parts |-> IF p \in failed THEN None ELSE owner[p]]
  /\ Goto(l, IF conn[l] = None THEN "closed" ELSE "rmconn")
  /\ UNCHANGED <<app, toAdd, outputs, dev, link, devices, wire, queue, nrun,
                 conn, part, batch, assign, ready>>

RemoveDeviceConnection(l) ==
  /\ pc[l] = "rmconn"
  /\ devconn' = devconn \ {conn[l]}
  /\ Goto(l, "unregister")
  /\ UNCHANGED <<app, toAdd, outputs, tracker, link, connected, wire, queue,
                 nrun, conn, part, batch, assign, ready>>

UnregisterDevice(l) ==
  /\ pc[l] = "unregister"
  /\ connected' = connected \ {conn[l]}
  /\ devconn' = devconn \ {conn[l]}
  /\ Goto(l, "closed")
  /\ UNCHANGED <<app, toAdd, outputs, tracker, link, wire, queue, nrun, conn,
                 part, batch, assign, ready>>

ConnectionClosedReturn(l) ==
  /\ pc[l] = "closed"
  /\ QueueInLoop(Main, SendIdle)
  /\ Goto(l, "idle")
  /\ conn' = [conn EXCEPT ![l] = None]
  /\ UNCHANGED <<app, toAdd, outputs, tracker, link, devices, wire, nrun, part,
                 batch, assign, ready>>

(***************************************************************************)
(* HandleMatMul: a device's answer for p.  WriteResultBlock, then          *)
(* MarkPartitionFinished, RemovePartitionByKey and IncRspCbCount.          *)
(***************************************************************************)
WriteResultBlock(c, p) ==
  LET l == LoopOf[c] IN
  /\ Free(l)
  /\ link[c] = "registered"
  /\ c \in connected
  /\ wire[c][p] > 0
  /\ wire' = [wire EXCEPT ![c][p] = @ - 1]
  /\ written' = written \cup {p}
  /\ Goto(l, "finish")
  /\ part' = [part EXCEPT ![l] = p]
  /\ UNCHANGED <<app, toAdd, count, result, tracker, link, devices, queue, nrun,
                 conn, batch, assign, ready>>

Tracked(p) == state[p] # "none"

(* Mutant: an answered partition goes back to IDLE before it is removed.    *)
MarkAnsweredIdle(l) ==
  /\ pc[l] = "finish"
  /\ state' = [state EXCEPT ![part[l]] = IF @ = "none" THEN @ ELSE "IDLE"]
  /\ Goto(l, "remove")
  /\ UNCHANGED <<app, toAdd, outputs, dev, owner, link, devices, wire, queue,
                 nrun, conn, part, batch, assign, ready>>

MarkPartitionFinished(l) ==
  /\ pc[l] = "finish"
  /\ state' = [state EXCEPT ![part[l]] = IF @ = "none" THEN @ ELSE "FINISHED"]
  /\ Goto(l, "remove")
  /\ UNCHANGED <<app, toAdd, outputs, dev, owner, link, devices, wire, queue,
                 nrun, conn, part, batch, assign, ready>>

RemovePartitionByKey(l) ==
  /\ pc[l] = "remove"
  /\ state' = [state EXCEPT ![part[l]] = "none"]
  /\ Goto(l, "count")
  /\ UNCHANGED <<app, toAdd, outputs, dev, owner, link, devices, wire, queue,
                 nrun, conn, part, batch, assign, ready>>

(* Mutant: a clamp that also keeps a last response.                         *)
IncRspCbCountKept(l) ==
  LET o == OpOf[part[l]] IN
  /\ pc[l] = "count"
  /\ count' = [count EXCEPT ![o] = IF @ <= 1 THEN @ ELSE @ - 1]
  /\ QueueInLoop(l, SendIdle)
  /\ Goto(l, "idle")
  /\ part' = [part EXCEPT ![l] = None]
  /\ UNCHANGED <<app, toAdd, written, result, tracker, link, devices, wire, nrun,
                 conn, batch, assign, ready>>

(* The count is clamped at 0; DecodeAndDispatch then queues another        *)
(* SendIdlePartitions on its own loop.                                     *)
IncRspCbCount(l) ==
  LET o == OpOf[part[l]] IN
  /\ pc[l] = "count"
  /\ count' = [count EXCEPT ![o] = IF @ < 1 THEN 0 ELSE @ - 1]
  /\ QueueInLoop(l, SendIdle)
  /\ Goto(l, "idle")
  /\ part' = [part EXCEPT ![l] = None]
  /\ UNCHANGED <<app, toAdd, written, result, tracker, link, devices, wire, nrun,
                 conn, batch, assign, ready>>

(***************************************************************************)
(* The loop: DoPendingFunctors swaps the queue and runs the batch in       *)
(* order; what is queued meanwhile waits for the next batch.               *)
(***************************************************************************)
DoPendingFunctors(l) ==
  /\ Free(l)
  /\ queue[l] # <<>>
  /\ nrun' = [nrun EXCEPT ![l] = Len(queue[l])]
  /\ UNCHANGED <<app, toAdd, outputs, tracker, link, devices, wire, queue,
                 handler>>

RunNext(l, f) ==
  /\ pc[l] = "idle"
  /\ nrun[l] > 0
  /\ f = Head(queue[l])
  /\ nrun' = [nrun EXCEPT ![l] = @ - 1]
  /\ queue' = [queue EXCEPT ![l] = Tail(@)]

(* What SendInLoop makes of the wire: nothing once the connection closed.   *)
Sent(c, p) ==
  IF link[c] = "closed" THEN wire ELSE [wire EXCEPT ![c][p] = @ + 1]

SendInLoop(l) ==
  LET f == Head(queue[l]) IN
  /\ RunNext(l, f)
  /\ f # SendIdle
  /\ wire' = Sent(f.conn, f.part)
  /\ UNCHANGED <<app, toAdd, outputs, tracker, link, devices, handler>>

(***************************************************************************)
(* SendIdlePartitions: claim every IDLE partition, run the policy, place   *)
(* the claimed ones one by one, then send them one by one.                 *)
(***************************************************************************)
(* Mutant: the IDLE partitions are listed, not claimed.                     *)
GetIdlePartitions(l) ==
  LET idle == {p \in Parts : state[p] = "IDLE"} IN
  /\ RunNext(l, SendIdle)
  /\ batch' = [batch EXCEPT ![l] = idle]
  /\ Goto(l, IF idle = {} THEN "idle" ELSE "policy")
  /\ UNCHANGED <<app, toAdd, outputs, tracker, link, devices, wire, conn, part,
                 assign, ready>>

ClaimIdlePartitions(l) ==
  LET idle == {p \in Parts : state[p] = "IDLE"} IN
  /\ RunNext(l, SendIdle)
  /\ state' = [p \in Parts |-> IF p \in idle THEN "RUNNING" ELSE state[p]]
  /\ batch' = [batch EXCEPT ![l] = idle]
  /\ Goto(l, IF idle = {} THEN "idle" ELSE "policy")
  /\ UNCHANGED <<app, toAdd, outputs, dev, owner, link, devices, wire, conn,
                 part, assign, ready>>

(* RoundRobinSchedulingPolicy walks the connected devices cyclically, in   *)
(* whatever order the two unordered containers list devices and            *)
(* partitions: the shares of any two devices differ by at most one.        *)
RoundRobin(ps, ds) ==
  LET Share(f, d) == Cardinality({p \in ps : f[p] = d}) IN
  {f \in [ps -> ds] : \A d, e \in ds : Share(f, d) <= Share(f, e) + 1}

(* The policy writes owner_device_id itself, without the tracker's lock.    *)
RedistributePartitions(l) ==
  /\ pc[l] = "policy"
  /\ connected # {}
  /\ \E f \in RoundRobin(batch[l], connected) :
       /\ assign' = [assign EXCEPT ![l] =
                       [p \in Parts |-> IF p \in batch[l] THEN f[p] ELSE None]]
       /\ owner' = [p \in Parts |-> IF p \in batch[l] THEN f[p] ELSE owner[p]]
  /\ Goto(l, "reassign")
  /\ UNCHANGED <<app, toAdd, outputs, state, dev, link, devices, wire, queue,
                 nrun, conn, part, batch, ready>>

NoDevices(l) ==
  /\ pc[l] = "policy"
  /\ connected = {}
  /\ Goto(l, "giveup")
  /\ UNCHANGED <<app, toAdd, outputs, tracker, link, devices, wire, queue, nrun,
                 conn, part, batch, assign, ready>>

(* MarkPartitionIdle does nothing for a key that is not tracked.            *)
MarkPartitionIdle(p) ==
  state' = [state EXCEPT ![p] = IF @ = "none" THEN @ ELSE "IDLE"]

GiveUp(l, p) ==
  /\ pc[l] = "giveup"
  /\ p \in batch[l]
  /\ MarkPartitionIdle(p)
  /\ batch' = [batch EXCEPT ![l] = @ \ {p}]
  /\ Goto(l, IF batch[l] = {p} THEN "idle" ELSE "giveup")
  /\ UNCHANGED <<app, toAdd, outputs, dev, owner, link, devices, wire, queue,
                 nrun, conn, part, assign, ready>>

(* A partition removed meanwhile cannot be placed and is left alone.        *)
ReassignPartitionToDevice(l, p) ==
  LET d == assign[l][p]
      placed == IF Tracked(p) THEN {p} ELSE {} IN
  /\ pc[l] = "reassign"
  /\ p \in batch[l]
  /\ dev' = [dev EXCEPT ![p] = IF Tracked(p) THEN d ELSE @]
  /\ owner' = [owner EXCEPT ![p] = IF Tracked(p) THEN d ELSE @]
  /\ batch' = [batch EXCEPT ![l] = @ \ {p}]
  /\ ready' = [ready EXCEPT ![l] = @ \cup placed]
  /\ assign' = [assign EXCEPT ![l][p] = None]
  /\ Goto(l, IF batch[l] # {p} THEN "reassign"
             ELSE IF ready[l] \cup placed = {} THEN "idle" ELSE "send")
  /\ UNCHANGED <<app, toAdd, outputs, state, link, devices, wire, queue, nrun,
                 conn, part>>

AfterSend(l, p) == IF ready[l] = {p} THEN "idle" ELSE "send"

(* The owner is read without the lock.  RunInLoop runs SendInLoop at once  *)
(* when the device is served by this very loop and queues it otherwise.    *)
SendToOwner(l, p) ==
  LET c == owner[p] IN
  /\ pc[l] = "send"
  /\ p \in ready[l]
  /\ c \in devconn
  /\ IF LoopOf[c] = l
     THEN wire' = Sent(c, p) /\ UNCHANGED queue
     ELSE QueueInLoop(LoopOf[c], [conn |-> c, part |-> p]) /\ UNCHANGED wire
  /\ ready' = [ready EXCEPT ![l] = @ \ {p}]
  /\ Goto(l, AfterSend(l, p))
  /\ UNCHANGED <<app, toAdd, outputs, tracker, link, devices, nrun, conn, part,
                 batch, assign>>

(* GetDeviceConnection finds nothing; MarkPartitionIdle is the next step.   *)
NoConnection(l, p) ==
  /\ pc[l] = "send"
  /\ p \in ready[l]
  /\ owner[p] \notin devconn
  /\ part' = [part EXCEPT ![l] = p]
  /\ Goto(l, "unsent")
  /\ UNCHANGED <<app, toAdd, outputs, tracker, link, devices, wire, queue, nrun,
                 conn, batch, assign, ready>>

MarkUnsentIdle(l) ==
  LET p == part[l] IN
  /\ pc[l] = "unsent"
  /\ MarkPartitionIdle(p)
  /\ ready' = [ready EXCEPT ![l] = @ \ {p}]
  /\ part' = [part EXCEPT ![l] = None]
  /\ Goto(l, AfterSend(l, p))
  /\ UNCHANGED <<app, toAdd, outputs, dev, owner, link, devices, wire, queue,
                 nrun, conn, batch, assign>>

(***************************************************************************)
(* The specification.                                                      *)
(***************************************************************************)
Application ==
  \/ \E o \in Ops : Dispatch(o) \/ DispatchReturn(o) \/ WaitMatMul(o)
  \/ \E p \in Parts : AddPartition(p)

SendIdlePartitions(l) ==
  \/ ClaimIdlePartitions(l) \/ RedistributePartitions(l) \/ NoDevices(l)
  \/ \E p \in Parts : \/ GiveUp(l, p) \/ ReassignPartitionToDevice(l, p)
                      \/ SendToOwner(l, p) \/ NoConnection(l, p)
  \/ MarkUnsentIdle(l)

Loop(l) ==
  \/ SetDeviceConnection(l)
  \/ MarkDevicePartitionsFailed(l) \/ RemoveDeviceConnection(l)
  \/ UnregisterDevice(l) \/ ConnectionClosedReturn(l)
  \/ MarkPartitionFinished(l) \/ RemovePartitionByKey(l) \/ IncRspCbCount(l)
  \/ DoPendingFunctors(l) \/ SendInLoop(l) \/ SendIdlePartitions(l)

Answer(c) == \E p \in Parts : WriteResultBlock(c, p)

Peer(c) ==
  \/ ConnectionSuccess(c) \/ RegisterDevice(c) \/ ConnectionClosed(c)
  \/ Answer(c)

Next ==
  \/ Application
  \/ \E l \in Loops : Loop(l)
  \/ \E c \in Conns : Peer(c)

Spec == Init /\ [][Next]_vars

(* Every thread runs, a device that stays connected answers what it was    *)
(* sent, and a client that connected registers.  Nothing has to close.      *)
Fairness ==
  /\ \A o \in Ops : WF_vars(Dispatch(o) \/ DispatchReturn(o) \/ WaitMatMul(o))
  /\ \A p \in Parts : WF_vars(AddPartition(p))
  /\ \A l \in Loops : WF_vars(Loop(l))
  /\ \A c \in Conns : SF_vars(ConnectionSuccess(c)) /\ SF_vars(RegisterDevice(c))
                      /\ SF_vars(Answer(c))

FairSpec == Spec /\ Fairness

(***************************************************************************)
(* Properties.                                                             *)
(***************************************************************************)
Labels == {"idle", "setconn", "markfailed", "rmconn", "unregister", "closed",
           "finish", "remove", "count", "policy", "giveup", "reassign", "send",
           "unsent"}

(* The type of the state, with what a handler is about at its labels.       *)
TypeOK ==
  /\ app \in [Ops -> {"new", "adding", "waiting", "returned"}]
  /\ toAdd \subseteq Parts
  /\ count \in [Ops -> Nat]
  /\ written \subseteq Parts
  /\ result \in [Ops -> SUBSET Parts]
  /\ state \in [Parts -> {"none", "IDLE", "RUNNING", "FINISHED"}]
  /\ dev \in [Parts -> Conns \cup {None}]
  /\ owner \in [Parts -> Conns \cup {None}]
  /\ link \in [Conns -> {"new", "open", "registered", "closed"}]
  /\ connected \subseteq Conns
  /\ devconn \subseteq Conns
  /\ wire \in [Conns -> [Parts -> Nat]]
  /\ queue \in [Loops -> Seq(Functor)]
  /\ nrun \in [Loops -> Nat]
  /\ pc \in [Loops -> Labels]
  /\ conn \in [Loops -> Conns \cup {None}]
  /\ part \in [Loops -> Parts \cup {None}]
  /\ batch \in [Loops -> SUBSET Parts]
  /\ assign \in [Loops -> [Parts -> Conns \cup {None}]]
  /\ ready \in [Loops -> SUBSET Parts]
  /\ \A l \in Loops :
       /\ nrun[l] <= Len(queue[l])
       /\ pc[l] = "setconn" => conn[l] \in Conns
       /\ pc[l] \in {"finish", "remove", "count", "unsent"} => part[l] \in Parts

(* A partition that was put in the tracker leaves it only once its block   *)
(* holds a result, however connections come and go: RemovePartitionByKey   *)
(* is reached from HandleMatMul alone, after WriteResultBlock.             *)
TrackedUntilWritten ==
  \A p \in Parts :
    (app[OpOf[p]] # "new" /\ p \notin toAdd /\ ~Tracked(p)) => p \in written

Handling(l, p) == pc[l] \in {"finish", "remove", "count"} /\ part[l] = p

(* An operation whose blocks are all in, and whose HandleMatMul calls are  *)
(* over, has its count at 0, so WaitMatMul does not keep waiting for it,   *)
(* however often its partitions were sent and answered.                    *)
CompleteIsCounted ==
  \A o \in Ops :
    (/\ PartsOf(o) \subseteq written
     /\ \A p \in PartsOf(o), l \in Loops : ~Handling(l, p)) => count[o] = 0

(* WaitMatMul returns a tensor in which every block holds its result: the  *)
(* count of responses reaches 0 for no other reason.                       *)
WaitReturnsComplete ==
  \A o \in Ops : app[o] = "returned" => result[o] = PartsOf(o)

(* Where copies of p are: held by a SendIdlePartitions that claimed it,    *)
(* queued for a loop to send, sent to a device, or being taken in.         *)
Places(p) ==
  {<<"claim", l>> : l \in {l \in Loops : p \in batch[l] \cup ready[l]}}
    \cup (UNION {{<<"queue", l, i>> :
                    i \in {i \in DOMAIN queue[l] : queue[l][i].part = p}}
                 : l \in Loops})
    \cup {<<"wire", c>> : c \in {c \in Conns : wire[c][p] > 0}}
    \cup {<<"answer", l>> : l \in {l \in Loops : Handling(l, p)}}

(* No partition is claimed, sent or answered twice, nor IDLE, to be        *)
(* claimed again, while a copy of it is under way: what the claim of       *)
(* ClaimIdlePartitions under the tracker's lock is there for.              *)
SentOnce ==
  \A p \in Parts :
    /\ \A x, y \in Places(p) : x = y
    /\ \A c \in Conns : wire[c][p] <= 1
    /\ state[p] = "IDLE" => Places(p) = {}

(* The operations as their callers see them. *)
Service ==
  INSTANCE MatMulService WITH
    Blocks <- Parts, Calls <- Ops, CallOf <- OpOf, filled <- written,
    phase <- [o \in Ops |-> CASE app[o] = "new" -> "unsubmitted"
                              [] app[o] \in {"adding", "waiting"} -> "submitted"
                              [] app[o] = "returned" -> "returned"]

(* Dispatch, the answers of devices and WaitMatMul implement the service:  *)
(* no block is written twice or after its operation returned, and none is  *)
(* missing when it does.                                                   *)
ImplementsService == Service!ServiceSpec

(* Every device is registered and can be sent to, none being under way.    *)
Settled == devconn = Conns

(* An operation submitted when the fleet is settled returns, whatever the  *)
(* loops were doing then: its partitions are claimed by some               *)
(* SendIdlePartitions, sent, answered and counted.                         *)
EveryDispatchReturns ==
  \A o \in Ops : (app[o] = "new" /\ Settled) ~> app[o] = "returned"

(* A partition put back to IDLE is picked up by another SendIdlePartitions. *)
IdleIsRescheduled == \A p \in Parts : state[p] = "IDLE" ~> state[p] # "IDLE"

(* A partition given to a device is answered, or taken back when the       *)
(* device's connection closes.  False: one placed on a device whose close  *)
(* has already failed its partitions is dropped by SendInLoop.             *)
RunningIsResolved ==
  \A p \in Parts : state[p] = "RUNNING" ~> state[p] # "RUNNING"

==============================================================================
