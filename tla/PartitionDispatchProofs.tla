----------------------- MODULE PartitionDispatchProofs -----------------------
(***************************************************************************)
(* Invariants of PartitionDispatch, for any finite set of partitions and   *)
(* any operations, connections, loops and placement of connections.        *)
(* PartitionCopyProofs concludes the theorems.                             *)
(***************************************************************************)
EXTENDS PartitionDispatch, TLAPS

(***************************************************************************)
(* What the proofs need to know of the sizes of finite sets.  The lemmas   *)
(* that count name it as an assumption; PartitionCopyProofs discharges it  *)
(* (CountingHolds) before it states the theorems.                          *)
(***************************************************************************)
Count(S) == Cardinality(S)
Finite(S) == IsFiniteSet(S)

Counting ==
  /\ \A S : Finite(S) => Count(S) \in Nat
  /\ \A S, T : Finite(S) /\ T \subseteq S => Finite(T) /\ Count(T) <= Count(S)
  /\ Count({}) = 0
  /\ \A S : Finite(S) /\ Count(S) = 0 => S = {}
  /\ \A S, x : Finite(S) /\ x \in S => Count(S \ {x}) = Count(S) - 1
  /\ \A S, x : Finite(S) => Finite(S \cup {x}) /\ Count(S \cup {x}) <= Count(S) + 1

(* A part of a finite set is finite and has no more elements.               *)
LEMMA FinitePart ==
  ASSUME Counting, NEW S, IsFiniteSet(S), NEW T \in SUBSET S
  PROVE  /\ IsFiniteSet(T) /\ Cardinality(T) <= Cardinality(S)
         /\ Cardinality(S) \in Nat /\ Cardinality(T) \in Nat
  BY Zenon DEF Counting, Count, Finite

(* Only the empty set has no elements.                                      *)
LEMMA NoneLeft ==
  ASSUME Counting
  PROVE  /\ Cardinality({}) = 0
         /\ \A S : IsFiniteSet(S) => (Cardinality(S) = 0 <=> S = {})
  BY Zenon DEF Counting, Count, Finite

(* Taking one element out leaves one less.                                  *)
LEMMA OneLess ==
  ASSUME Counting, NEW S, NEW x \in S, IsFiniteSet(S)
  PROVE  Cardinality(S \ {x}) = Cardinality(S) - 1 /\ Cardinality(S) \in Nat
  BY Zenon DEF Counting, Count, Finite

(* Adding one element adds at most one.                                     *)
LEMMA AtMostOneLess ==
  ASSUME Counting, NEW S, NEW T, NEW x, IsFiniteSet(T), S \subseteq T \cup {x}
  PROVE  Cardinality(S) <= Cardinality(T) + 1
<1>1. /\ IsFiniteSet(T \cup {x}) /\ Cardinality(T \cup {x}) <= Cardinality(T) + 1
      /\ Cardinality(T) \in Nat
  BY Zenon DEF Counting, Count, Finite
<1>2. /\ Cardinality(S) <= Cardinality(T \cup {x})
      /\ Cardinality(S) \in Nat /\ Cardinality(T \cup {x}) \in Nat
  BY <1>1, FinitePart, Zenon
<1> QED
  BY <1>1, <1>2

(* An operation has finitely many partitions.                               *)
LEMMA PartsOfFinite ==
  ASSUME Counting, NEW o
  PROVE  /\ PartsOf(o) \subseteq Parts /\ IsFiniteSet(PartsOf(o))
         /\ Cardinality(PartsOf(o)) \in Nat
  BY PartsAssumption, FinitePart, Zenon DEF PartsOf

LEMMA QueueType ==
  ASSUME TypeOK, NEW l \in Loops, NEW f \in Functor, QueueInLoop(l, f)
  PROVE  /\ queue' \in [Loops -> Seq(Functor)]
         /\ \A m \in Loops : nrun[m] <= Len(queue'[m])
<1> SUFFICES ASSUME NEW m \in Loops
             PROVE  queue'[m] \in Seq(Functor) /\ nrun[m] <= Len(queue'[m])
  BY Zenon DEF TypeOK, QueueInLoop
<1>1. queue[m] \in Seq(Functor) /\ nrun[m] \in Nat /\ nrun[m] <= Len(queue[m])
  BY Zenon DEF TypeOK
<1>2. CASE m = l
  <2>1. queue'[m] = Append(queue[m], f)
    BY <1>2, Zenon DEF TypeOK, QueueInLoop
  <2> QED BY <1>1, <2>1
<1>3. CASE m # l
  BY <1>1, <1>3, Zenon DEF TypeOK, QueueInLoop
<1> QED BY <1>2, <1>3

LEMMA SendIdleType == SendIdle \in Functor
  BY Zenon DEF SendIdle, Functor

LEMMA GotoType ==
  ASSUME TypeOK, NEW l \in Loops, NEW x \in Labels, Goto(l, x)
  PROVE  pc' \in [Loops -> Labels]
  BY Zenon DEF TypeOK, Goto

LEMMA InitType == Init => TypeOK
  BY ConnsAssumption DEF Init, TypeOK, Labels

LEMMA ApplicationType ==
  ASSUME Counting, TypeOK, Application
  PROVE  TypeOK'
<1> USE DEF tracker, outputs, devices, handler
<1>1. ASSUME NEW o \in Ops, Dispatch(o) PROVE TypeOK'
  <2>1. PartsOf(o) \subseteq Parts /\ Cardinality(PartsOf(o)) \in Nat
    BY PartsOfFinite, Zenon
  <2> QED BY <1>1, <2>1 DEF Dispatch, TypeOK
<1>2. ASSUME NEW o \in Ops, DispatchReturn(o) PROVE TypeOK'
  BY <1>2, QueueType, SendIdleType, LoopsAssumption, Zenon DEF DispatchReturn, TypeOK
<1>3. ASSUME NEW o \in Ops, WaitMatMul(o) PROVE TypeOK'
  BY <1>3, Zenon DEF WaitMatMul, TypeOK
<1>4. ASSUME NEW p \in Parts, AddPartition(p) PROVE TypeOK'
  BY <1>4, Zenon DEF AddPartition, TypeOK
<1> QED BY <1>1, <1>2, <1>3, <1>4 DEF Application

LEMMA ConnectionType ==
  ASSUME TypeOK, NEW c \in Conns,
         \/ ConnectionSuccess(c) \/ RegisterDevice(c) \/ ConnectionClosed(c)
         \/ Answer(c)
  PROVE  TypeOK'
<1> USE LoopsAssumption DEF tracker, outputs, devices, handler, Labels
<1>1. CASE ConnectionSuccess(c)
  BY <1>1, QueueType, SendIdleType, Zenon DEF ConnectionSuccess, TypeOK
<1>2. CASE RegisterDevice(c)
  BY <1>2, Zenon DEF RegisterDevice, Goto, TypeOK
<1>3. CASE ConnectionClosed(c)
  BY <1>3, Zenon DEF ConnectionClosed, Goto, TypeOK
<1>4. ASSUME NEW p \in Parts, WriteResultBlock(c, p) PROVE TypeOK'
  BY <1>4 DEF WriteResultBlock, Goto, TypeOK
<1> QED BY <1>1, <1>2, <1>3, <1>4 DEF Answer

LEMMA HandlerType ==
  ASSUME TypeOK, NEW l \in Loops,
         \/ SetDeviceConnection(l)
         \/ MarkDevicePartitionsFailed(l) \/ RemoveDeviceConnection(l)
         \/ UnregisterDevice(l) \/ ConnectionClosedReturn(l)
         \/ MarkPartitionFinished(l) \/ RemovePartitionByKey(l)
         \/ IncRspCbCount(l)
  PROVE  TypeOK'
<1> USE LoopsAssumption DEF tracker, outputs, devices, handler, Labels, Goto
<1>1. CASE SetDeviceConnection(l)
  BY <1>1, QueueType, SendIdleType, Zenon DEF SetDeviceConnection, TypeOK
<1>2. CASE MarkDevicePartitionsFailed(l)
  <2>1. /\ state' \in [Parts -> {"none", "IDLE", "RUNNING", "FINISHED"}]
        /\ owner' \in [Parts -> Conns \cup {None}]
    BY <1>2, Zenon DEF MarkDevicePartitionsFailed, TypeOK
  <2>2. pc' \in [Loops -> Labels]
    BY <1>2, Zenon DEF MarkDevicePartitionsFailed, TypeOK
  <2> QED BY <1>2, <2>1, <2>2 DEF MarkDevicePartitionsFailed, TypeOK
<1>3. CASE RemoveDeviceConnection(l)
  BY <1>3, Zenon DEF RemoveDeviceConnection, TypeOK
<1>4. CASE UnregisterDevice(l)
  BY <1>4, Zenon DEF UnregisterDevice, TypeOK
<1>5. CASE ConnectionClosedReturn(l)
  BY <1>5, QueueType, SendIdleType, Zenon DEF ConnectionClosedReturn, TypeOK
<1>6. CASE MarkPartitionFinished(l)
  BY <1>6, Zenon DEF MarkPartitionFinished, TypeOK
<1>7. CASE RemovePartitionByKey(l)
  BY <1>7, Zenon DEF RemovePartitionByKey, TypeOK
<1>8. CASE IncRspCbCount(l)
  <2>1. count' \in [Ops -> Nat]
    <3> SUFFICES ASSUME NEW o \in Ops PROVE count'[o] \in Nat
      BY <1>8, Zenon DEF IncRspCbCount, TypeOK
    <3> QED BY <1>8 DEF IncRspCbCount, TypeOK
  <2>2. /\ queue' \in [Loops -> Seq(Functor)]
        /\ \A m \in Loops : nrun[m] <= Len(queue'[m])
    BY <1>8, QueueType, SendIdleType, Zenon DEF IncRspCbCount
  <2> QED BY <1>8, <2>1, <2>2, Zenon DEF IncRspCbCount, TypeOK
<1> QED BY <1>1, <1>2, <1>3, <1>4, <1>5, <1>6, <1>7, <1>8

LEMMA SentType ==
  ASSUME TypeOK, NEW c \in Conns, NEW p \in Parts
  PROVE  Sent(c, p) \in [Conns -> [Parts -> Nat]]
  BY DEF TypeOK, Sent

LEMMA LoopType ==
  ASSUME TypeOK, NEW l \in Loops,
         DoPendingFunctors(l) \/ SendInLoop(l) \/ SendIdlePartitions(l)
  PROVE  TypeOK'
<1> USE LoopsAssumption DEF tracker, outputs, devices, handler, Labels, Goto
<1>1. CASE DoPendingFunctors(l)
  BY <1>1 DEF DoPendingFunctors, TypeOK
<1>2. ASSUME NEW f, RunNext(l, f)
      PROVE  /\ queue' \in [Loops -> Seq(Functor)]
             /\ nrun' \in [Loops -> Nat]
             /\ \A m \in Loops : nrun'[m] <= Len(queue'[m])
             /\ f \in Functor
  <2>1. /\ queue[l] \in Seq(Functor) /\ queue[l] # <<>>
        /\ nrun[l] \in Nat /\ nrun[l] > 0 /\ nrun[l] <= Len(queue[l])
    BY <1>2 DEF RunNext, TypeOK
  <2>2. /\ Tail(queue[l]) \in Seq(Functor) /\ Head(queue[l]) \in Functor
        /\ nrun[l] - 1 \in Nat /\ nrun[l] - 1 <= Len(Tail(queue[l]))
    BY <2>1
  <2> QED BY <1>2, <2>2 DEF RunNext, TypeOK
<1>3. CASE SendInLoop(l)
  <2>1. Head(queue[l]) \in Functor
    BY <1>2, <1>3, Zenon DEF SendInLoop
  <2>2. wire' \in [Conns -> [Parts -> Nat]]
    BY <1>3, <2>1, SentType, Zenon DEF SendInLoop, Functor
  <2> QED BY <1>2, <1>3, <2>2 DEF SendInLoop, TypeOK
<1>4. CASE ClaimIdlePartitions(l)
  BY <1>2, <1>4, Zenon DEF ClaimIdlePartitions, TypeOK
<1>5. CASE RedistributePartitions(l)
  BY <1>5 DEF RedistributePartitions, RoundRobin, TypeOK
<1>6. CASE NoDevices(l)
  BY <1>6, Zenon DEF NoDevices, TypeOK
<1>7. ASSUME NEW p \in Parts, GiveUp(l, p) PROVE TypeOK'
  BY <1>7, Zenon DEF GiveUp, MarkPartitionIdle, TypeOK
<1>8. ASSUME NEW p \in Parts, ReassignPartitionToDevice(l, p) PROVE TypeOK'
  BY <1>8 DEF ReassignPartitionToDevice, TypeOK
<1>9. ASSUME NEW p \in Parts, SendToOwner(l, p) PROVE TypeOK'
  <2> DEFINE f == [conn |-> owner[p], part |-> p]
  <2>1. owner[p] \in Conns /\ LoopOf[owner[p]] \in Loops /\ f \in Functor
    BY <1>9, Zenon DEF SendToOwner, TypeOK, Functor
  <2>2. /\ wire' \in [Conns -> [Parts -> Nat]]
        /\ queue' \in [Loops -> Seq(Functor)]
        /\ \A m \in Loops : nrun[m] <= Len(queue'[m])
    <3>1. CASE LoopOf[owner[p]] = l
      BY <1>9, <2>1, <3>1, SentType DEF SendToOwner, TypeOK
    <3>2. CASE LoopOf[owner[p]] # l
      BY <1>9, <2>1, <3>2, QueueType, Zenon DEF SendToOwner, TypeOK
    <3> QED BY <3>1, <3>2
  <2> QED BY <1>9, <2>2, Zenon DEF SendToOwner, AfterSend, TypeOK
<1>10. ASSUME NEW p \in Parts, NoConnection(l, p) PROVE TypeOK'
  BY <1>10, Zenon DEF NoConnection, TypeOK
<1>11. CASE MarkUnsentIdle(l)
  BY <1>11, Zenon DEF MarkUnsentIdle, MarkPartitionIdle, AfterSend, TypeOK
<1> QED BY <1>1, <1>3, <1>4, <1>5, <1>6, <1>7, <1>8, <1>9, <1>10, <1>11
        DEF SendIdlePartitions

LEMMA NextType ==
  ASSUME Counting, TypeOK, [Next]_vars
  PROVE  TypeOK'
<1>1. CASE Application
  BY <1>1, ApplicationType, Zenon
<1>2. ASSUME NEW l \in Loops, Loop(l) PROVE TypeOK'
  BY <1>2, HandlerType, LoopType, Zenon DEF Loop
<1>3. ASSUME NEW c \in Conns, Peer(c) PROVE TypeOK'
  BY <1>3, ConnectionType, Zenon DEF Peer
<1>4. CASE UNCHANGED vars
  BY <1>4, Zenon DEF vars, tracker, outputs, devices, handler, TypeOK
<1> QED BY <1>1, <1>2, <1>3, <1>4 DEF Next

(***************************************************************************)
(* A partition stays tracked until its block is written.  The property is  *)
(* not inductive alone: RemovePartitionByKey needs to know that the        *)
(* handler it belongs to has written the block.                            *)
(***************************************************************************)
AnswerWritten ==
  \A l \in Loops : pc[l] \in {"finish", "remove", "count"} => part[l] \in written

TrackInv == TypeOK /\ TrackedUntilWritten /\ AnswerWritten

LEMMA TrackInit == Init => TrackInv
  BY InitType, OpsAssumption
  DEF Init, TrackInv, TrackedUntilWritten, AnswerWritten

LEMMA TrackApplication ==
  ASSUME Counting, TrackInv, Application
  PROVE  TrackInv'
<1> USE DEF TrackInv, TrackedUntilWritten, AnswerWritten, Tracked, TypeOK,
            tracker, outputs, handler
<1>1. TypeOK'
  BY ApplicationType, Zenon
<1>2. ASSUME NEW o \in Ops, Dispatch(o) PROVE TrackInv'
  BY <1>1, <1>2, OpsAssumption, Zenon DEF Dispatch, PartsOf
<1>3. ASSUME NEW o \in Ops, DispatchReturn(o) PROVE TrackInv'
  BY <1>1, <1>3, OpsAssumption, Zenon DEF DispatchReturn
<1>4. ASSUME NEW o \in Ops, WaitMatMul(o) PROVE TrackInv'
  BY <1>1, <1>4, OpsAssumption, Zenon DEF WaitMatMul
<1>5. ASSUME NEW p \in Parts, AddPartition(p) PROVE TrackInv'
  BY <1>1, <1>5 DEF AddPartition
<1> QED BY <1>2, <1>3, <1>4, <1>5 DEF Application

(* A step that puts no partition out of the tracker and starts no handler  *)
(* of an answer preserves the invariant.                                   *)
LEMMA TrackFrame ==
  ASSUME TrackInv, TypeOK', UNCHANGED <<app, toAdd, written>>,
         \A p \in Parts : state'[p] = "none" => state[p] = "none",
         \A l \in Loops : pc'[l] \in {"finish", "remove", "count"}
                            => /\ pc[l] \in {"finish", "remove", "count"}
                               /\ part'[l] = part[l]
  PROVE  TrackInv'
  BY Zenon DEF TrackInv, TrackedUntilWritten, AnswerWritten, Tracked

LEMMA TrackPeer ==
  ASSUME TrackInv, NEW c \in Conns, Peer(c)
  PROVE  TrackInv'
<1> USE LoopsAssumption DEF tracker, outputs, handler, Goto
<1>1. /\ TypeOK'
      /\ DOMAIN state = Parts /\ DOMAIN pc = Loops /\ DOMAIN part = Loops
  BY ConnectionType, Zenon DEF Peer, TrackInv, TypeOK
<1>2. CASE ConnectionSuccess(c)
  BY <1>1, <1>2, TrackFrame, Zenon DEF ConnectionSuccess
<1>3. CASE RegisterDevice(c)
  BY <1>1, <1>3, TrackFrame, Zenon DEF RegisterDevice
<1>4. CASE ConnectionClosed(c)
  BY <1>1, <1>4, TrackFrame, Zenon DEF ConnectionClosed
<1>5. ASSUME NEW p \in Parts, WriteResultBlock(c, p) PROVE TrackInv'
  <2>1. TrackedUntilWritten'
    BY <1>5, Zenon DEF WriteResultBlock, TrackInv, TrackedUntilWritten, Tracked
  <2>2. AnswerWritten'
    BY <1>1, <1>5, Zenon DEF WriteResultBlock, TrackInv, AnswerWritten
  <2> QED BY <1>1, <2>1, <2>2 DEF TrackInv
<1> QED BY <1>2, <1>3, <1>4, <1>5 DEF Peer, Answer

LEMMA TrackLoop ==
  ASSUME TrackInv, NEW l \in Loops, Loop(l)
  PROVE  TrackInv'
<1> USE DEF tracker, outputs, handler, Goto
<1>1. /\ TypeOK'
      /\ DOMAIN state = Parts /\ DOMAIN pc = Loops /\ DOMAIN part = Loops
  <2>1. TypeOK
    BY Zenon DEF TrackInv
  <2>2. TypeOK'
    BY <2>1, HandlerType, LoopType, Zenon DEF Loop
  <2> QED BY <2>1, <2>2 DEF TypeOK
<1>2. CASE SetDeviceConnection(l)
  BY <1>1, <1>2, TrackFrame, Zenon DEF SetDeviceConnection
<1>3. CASE MarkDevicePartitionsFailed(l)
  BY <1>1, <1>3, TrackFrame, Zenon DEF MarkDevicePartitionsFailed
<1>4. CASE RemoveDeviceConnection(l) \/ UnregisterDevice(l)
  BY <1>1, <1>4, TrackFrame, Zenon DEF RemoveDeviceConnection, UnregisterDevice
<1>5. CASE ConnectionClosedReturn(l)
  BY <1>1, <1>5, TrackFrame, Zenon DEF ConnectionClosedReturn
<1>6. CASE MarkPartitionFinished(l)
  BY <1>1, <1>6, TrackFrame, Zenon DEF MarkPartitionFinished
<1>7. CASE RemovePartitionByKey(l)
  <2>1. TrackedUntilWritten'
    BY <1>1, <1>7, Zenon
    DEF RemovePartitionByKey, TrackInv, TrackedUntilWritten, AnswerWritten, Tracked
  <2>2. AnswerWritten'
    BY <1>1, <1>7, Zenon DEF RemovePartitionByKey, TrackInv, AnswerWritten
  <2> QED BY <1>1, <2>1, <2>2 DEF TrackInv
<1>8. CASE IncRspCbCount(l)
  BY <1>1, <1>8, TrackFrame, Zenon DEF IncRspCbCount
<1>9. CASE DoPendingFunctors(l)
  BY <1>1, <1>9, TrackFrame, Zenon DEF DoPendingFunctors
<1>10. CASE SendInLoop(l)
  BY <1>1, <1>10, TrackFrame, Zenon DEF SendInLoop
<1>11. CASE ClaimIdlePartitions(l)
  BY <1>1, <1>11, TrackFrame, Zenon DEF ClaimIdlePartitions
<1>12. CASE RedistributePartitions(l) \/ NoDevices(l)
  BY <1>1, <1>12, TrackFrame, Zenon DEF RedistributePartitions, NoDevices
<1>13. ASSUME NEW p \in Parts, GiveUp(l, p) PROVE TrackInv'
  BY <1>1, <1>13, TrackFrame, Zenon DEF GiveUp, MarkPartitionIdle
<1>14. ASSUME NEW p \in Parts, ReassignPartitionToDevice(l, p) PROVE TrackInv'
  BY <1>1, <1>14, TrackFrame, Zenon DEF ReassignPartitionToDevice
<1>15. ASSUME NEW p \in Parts, SendToOwner(l, p) PROVE TrackInv'
  BY <1>1, <1>15, TrackFrame, Zenon DEF SendToOwner, AfterSend
<1>16. ASSUME NEW p \in Parts, NoConnection(l, p) PROVE TrackInv'
  BY <1>1, <1>16, TrackFrame, Zenon DEF NoConnection
<1>17. CASE MarkUnsentIdle(l)
  BY <1>1, <1>17, TrackFrame, Zenon DEF MarkUnsentIdle, MarkPartitionIdle, AfterSend
<1> QED BY <1>2, <1>3, <1>4, <1>5, <1>6, <1>7, <1>8, <1>9, <1>10, <1>11, <1>12,
           <1>13, <1>14, <1>15, <1>16, <1>17 DEF Loop, SendIdlePartitions

LEMMA TrackNext ==
  ASSUME Counting, TrackInv, [Next]_vars
  PROVE  TrackInv'
<1>1. CASE UNCHANGED vars
  BY <1>1, NextType, TrackFrame, Zenon
  DEF vars, tracker, outputs, handler, TrackInv
<1> QED BY <1>1, TrackApplication, TrackPeer, TrackLoop DEF Next

(***************************************************************************)
(* The handlers, and what was counted for an operation, however            *)
(* connections come and go.                                                *)
(***************************************************************************)
(* A copy of p is held by the SendIdlePartitions of loop l, queued for l to *)
(* send, on the wire to a connection, or taken in by l (Handling).          *)
Claimed(l, p) == p \in batch[l] \cup ready[l]
QueuedAt(l, i, p) == i \in 1..Len(queue[l]) /\ queue[l][i].part = p

NotClaimed(p) == \A l \in Loops : ~Claimed(l, p)
NotQueued(p) == \A l \in Loops, i \in Nat : ~QueuedAt(l, i, p)
NotSent(p) == \A c \in Conns : wire[c][p] = 0
NotHandled(p) == \A l \in Loops : ~Handling(l, p)

NoCopy(p) == NotClaimed(p) /\ NotQueued(p) /\ NotSent(p) /\ NotHandled(p)

(* Before its operation is dispatched and it is put in the tracker.         *)
Fresh(p) == p \in toAdd \/ app[OpOf[p]] = "new"

FreshInv ==
  /\ \A p \in toAdd : app[OpOf[p]] # "new"
  /\ \A p \in Parts : Fresh(p) => state[p] = "none" /\ p \notin written /\ NoCopy(p)

(* The partitions of o whose result is not written, or being taken in.      *)
Uncounted(o) ==
  {p \in PartsOf(o) : p \notin written \/ \E l \in Loops : Handling(l, p)}

CountInv ==
  \A o \in Ops : /\ app[o] = "new" => count[o] = 0
                 /\ count[o] <= Cardinality(Uncounted(o))

(* What the locals of a handler hold at its labels. *)
HandlerInv ==
  \A l \in Loops :
    /\ pc[l] \notin {"policy", "giveup", "reassign"} => batch[l] = {}
    /\ pc[l] \notin {"reassign", "send", "unsent"} => ready[l] = {}
    /\ batch[l] \cap ready[l] = {}
    /\ pc[l] = "unsent" => part[l] \in ready[l]

(* Nobody leaves, so no connection is closed and no handler closes one.     *)
NobodyLeft ==
  /\ \A c \in Conns : link[c] # "closed"
  /\ \A l \in Loops : pc[l] \notin {"markfailed", "rmconn", "unregister", "closed"}

OneCopy(p) ==
  /\ \A l, m \in Loops : Claimed(l, p) /\ Claimed(m, p) => l = m
  /\ \A l, m \in Loops : \A i, j \in Nat :
       QueuedAt(l, i, p) /\ QueuedAt(m, j, p) => l = m /\ i = j
  /\ \A c, d \in Conns : wire[c][p] > 0 /\ wire[d][p] > 0 => c = d
  /\ \A c \in Conns : wire[c][p] <= 1
  /\ \A l, m \in Loops : Handling(l, p) /\ Handling(m, p) => l = m
  /\ NotClaimed(p) \/ (NotQueued(p) /\ NotSent(p) /\ NotHandled(p))
  /\ NotQueued(p) \/ (NotSent(p) /\ NotHandled(p))
  /\ NotSent(p) \/ NotHandled(p)

CopySound(p) ==
  /\ OneCopy(p)
  /\ state[p] = "IDLE" => NoCopy(p)
  /\ p \in written => state[p] # "IDLE" /\ NotClaimed(p) /\ NotQueued(p) /\ NotSent(p)

CopyInv == \A p \in Parts : CopySound(p)

ReturnInv ==
  \A o \in Ops :
    /\ app[o] # "new" => Cardinality(Uncounted(o)) <= count[o]
    /\ app[o] = "returned" => PartsOf(o) \subseteq written /\ result[o] = PartsOf(o)

ChurnInv == TypeOK /\ HandlerInv /\ FreshInv /\ CountInv
StableInv == ChurnInv /\ TrackInv /\ NobodyLeft /\ CopyInv /\ ReturnInv

(***************************************************************************)
(* The locals of a handler.                                                *)
(***************************************************************************)
LEMMA HandlerInit == Init => HandlerInv
  BY Zenon DEF Init, HandlerInv

(* A step that leaves batch and ready alone and does not move to a label    *)
(* where they count for less.                                               *)
LEMMA HandlerFrame ==
  ASSUME pc \in [Loops -> Labels], HandlerInv, NEW l \in Loops, NEW label \in Labels,
         pc' = [pc EXCEPT ![l] = label], UNCHANGED <<batch, ready>>,
         \A m \in Loops \ {l} : part'[m] = part[m],
         pc[l] \in {"policy", "giveup", "reassign"}
           => label \in {"policy", "giveup", "reassign"},
         pc[l] \in {"reassign", "send", "unsent"}
           => label \in {"reassign", "send", "unsent"},
         label = "unsent" => part'[l] \in ready[l]
  PROVE  HandlerInv'
  BY Zenon DEF HandlerInv

LEMMA HandlerNext ==
  ASSUME TypeOK, TypeOK', HandlerInv, [Next]_vars
  PROVE  HandlerInv'
<1> USE DEF tracker, outputs, devices, handler, Goto, Free, RunNext, Labels
<1>0. /\ pc \in [Loops -> Labels] /\ part \in [Loops -> Parts \cup {None}]
      /\ batch \in [Loops -> SUBSET Parts] /\ ready \in [Loops -> SUBSET Parts]
  BY Zenon DEF TypeOK
<1>1. ASSUME UNCHANGED <<pc, part, batch, ready>> PROVE HandlerInv'
  BY <1>1, Zenon DEF HandlerInv
<1>2. CASE Application
  BY <1>1, <1>2, Zenon DEF Application, Dispatch, DispatchReturn, WaitMatMul, AddPartition
<1>3. ASSUME NEW c \in Conns, Peer(c) PROVE HandlerInv'
  <2> USE <1>0, LoopsAssumption
  <2>1. CASE ConnectionSuccess(c)
    BY <1>1, <2>1, Zenon DEF ConnectionSuccess
  <2>2. CASE RegisterDevice(c)
    BY <2>2, HandlerFrame, Zenon DEF RegisterDevice
  <2>3. CASE ConnectionClosed(c)
    BY <2>3, HandlerFrame, Zenon DEF ConnectionClosed
  <2>4. ASSUME NEW p \in Parts, WriteResultBlock(c, p) PROVE HandlerInv'
    BY <2>4, HandlerFrame, Zenon DEF WriteResultBlock
  <2> QED
    BY <1>3, <2>1, <2>2, <2>3, <2>4, Zenon DEF Peer, Answer
<1>4. ASSUME NEW l \in Loops, Loop(l) PROVE HandlerInv'
  <2> USE <1>0
  <2>1. CASE SetDeviceConnection(l)
    BY <2>1, HandlerFrame, Zenon DEF SetDeviceConnection
  <2>2. CASE MarkDevicePartitionsFailed(l)
    BY <2>2, HandlerFrame, Zenon DEF MarkDevicePartitionsFailed
  <2>3. CASE RemoveDeviceConnection(l)
    BY <2>3, HandlerFrame, Zenon DEF RemoveDeviceConnection
  <2>4. CASE UnregisterDevice(l)
    BY <2>4, HandlerFrame, Zenon DEF UnregisterDevice
  <2>5. CASE ConnectionClosedReturn(l)
    BY <2>5, HandlerFrame, Zenon DEF ConnectionClosedReturn
  <2>6. CASE MarkPartitionFinished(l)
    BY <2>6, HandlerFrame, Zenon DEF MarkPartitionFinished
  <2>7. CASE RemovePartitionByKey(l)
    BY <2>7, HandlerFrame, Zenon DEF RemovePartitionByKey
  <2>8. CASE IncRspCbCount(l)
    BY <2>8, HandlerFrame, Zenon DEF IncRspCbCount
  <2>9. CASE DoPendingFunctors(l) \/ SendInLoop(l)
    BY <1>1, <2>9, Zenon DEF DoPendingFunctors, SendInLoop
  <2>10. CASE ClaimIdlePartitions(l)
    BY <2>10, Zenon DEF ClaimIdlePartitions, HandlerInv
  <2>11. CASE RedistributePartitions(l)
    BY <2>11, HandlerFrame, Zenon DEF RedistributePartitions
  <2>12. CASE NoDevices(l)
    BY <2>12, HandlerFrame, Zenon DEF NoDevices
  <2>13. ASSUME NEW p \in Parts, GiveUp(l, p) PROVE HandlerInv'
    BY <2>13, Zenon DEF GiveUp, HandlerInv
  <2>14. ASSUME NEW p \in Parts, ReassignPartitionToDevice(l, p) PROVE HandlerInv'
    BY <2>14, Zenon DEF ReassignPartitionToDevice, HandlerInv
  <2>15. ASSUME NEW p \in Parts, SendToOwner(l, p) PROVE HandlerInv'
    BY <2>15, Zenon DEF SendToOwner, AfterSend, HandlerInv
  <2>16. ASSUME NEW p \in Parts, NoConnection(l, p) PROVE HandlerInv'
    BY <2>16, HandlerFrame, Zenon DEF NoConnection
  <2>17. CASE MarkUnsentIdle(l)
    BY <2>17, Zenon DEF MarkUnsentIdle, AfterSend, HandlerInv
  <2> QED
    BY Zenon, <1>4, <2>1, <2>2, <2>3, <2>4, <2>5, <2>6, <2>7, <2>8, <2>9, <2>10, <2>11, <2>12,
       <2>13, <2>14, <2>15, <2>16, <2>17 DEF Loop, SendIdlePartitions
<1>5. CASE UNCHANGED vars
  BY <1>1, <1>5, Zenon DEF vars
<1> QED
  BY <1>2, <1>3, <1>4, <1>5, Zenon DEF Next

(***************************************************************************)
(* The queue of a loop.                                                    *)
(***************************************************************************)
LEMMA AppendEffect ==
  ASSUME TypeOK, NEW l \in Loops, NEW f \in Functor, QueueInLoop(l, f)
  PROVE  \A m \in Loops, i \in Nat, p \in Parts :
           QueuedAt(m, i, p)' <=> \/ QueuedAt(m, i, p)
                                  \/ m = l /\ i = Len(queue[l]) + 1 /\ f.part = p
<1> SUFFICES ASSUME NEW m \in Loops, NEW i \in Nat, NEW p \in Parts
             PROVE  QueuedAt(m, i, p)' <=> \/ QueuedAt(m, i, p)
                                           \/ m = l /\ i = Len(queue[l]) + 1 /\ f.part = p
  BY Zenon
<1>1. queue[l] \in Seq(Functor) /\ Len(queue[l]) \in Nat
  BY DEF TypeOK
<1>2. queue'[m] = IF m = l THEN Append(queue[l], f) ELSE queue[m]
  BY Zenon DEF QueueInLoop, TypeOK
<1>3. CASE m = l
  <2>1. /\ Len(queue'[m]) = Len(queue[l]) + 1
        /\ \A j \in 1..Len(queue[l]) : queue'[m][j] = queue[l][j]
        /\ queue'[m][Len(queue[l]) + 1] = f
    BY <1>1, <1>2, <1>3
  <2> QED
    BY <1>1, <1>3, <2>1 DEF QueuedAt
<1> QED
  BY <1>2, <1>3, Zenon DEF QueuedAt

LEMMA TailEffect ==
  ASSUME TypeOK, NEW l \in Loops, NEW f, RunNext(l, f)
  PROVE  /\ f \in Functor /\ Len(queue[l]) > 0
         /\ \A p \in Parts : QueuedAt(l, 1, p) <=> f.part = p
         /\ \A m \in Loops, i \in Nat, p \in Parts :
              QueuedAt(m, i, p)' <=> IF m = l THEN i # 0 /\ QueuedAt(l, i + 1, p)
                                     ELSE QueuedAt(m, i, p)
<1>1. /\ queue[l] \in Seq(Functor) /\ Len(queue[l]) \in Nat /\ Len(queue[l]) > 0
      /\ queue[l] # <<>> /\ f = Head(queue[l])
  BY DEF TypeOK, RunNext
<1>2. f = queue[l][1] /\ f \in Functor
  BY <1>1
<1>3. ASSUME NEW m \in Loops, NEW i \in Nat, NEW p \in Parts
      PROVE  QueuedAt(m, i, p)' <=> IF m = l THEN i # 0 /\ QueuedAt(l, i + 1, p)
                                    ELSE QueuedAt(m, i, p)
  <2>1. queue'[m] = IF m = l THEN Tail(queue[l]) ELSE queue[m]
    BY Zenon DEF RunNext, TypeOK
  <2>2. CASE m = l
    <3>1. /\ Len(queue'[m]) = Len(queue[l]) - 1
          /\ \A j \in 1..Len(queue'[m]) : queue'[m][j] = queue[l][j + 1]
      BY <1>1, <2>1, <2>2
    <3> QED
      BY <1>1, <2>2, <3>1 DEF QueuedAt
  <2> QED
    BY <2>1, <2>2, Zenon DEF QueuedAt
<1> QED
  BY <1>1, <1>2, <1>3 DEF QueuedAt

LEMMA SendIdleCarriesNothing == SendIdle \in Functor /\ \A p \in Parts : SendIdle.part # p
  BY PartsAssumption, Zenon DEF SendIdle, Functor

LEMMA NotQueuedAppend ==
  ASSUME TypeOK, NEW l \in Loops, NEW f \in Functor, QueueInLoop(l, f),
         NEW p \in Parts, NotQueued(p), f.part # p
  PROVE  NotQueued(p)'
  BY AppendEffect, Zenon DEF NotQueued

LEMMA NotQueuedTail ==
  ASSUME TypeOK, NEW l \in Loops, NEW f, RunNext(l, f), NEW p \in Parts, NotQueued(p)
  PROVE  NotQueued(p)' /\ f.part # p
<1>1. f.part # p
  BY TailEffect, Zenon DEF NotQueued
<1>2. NotQueued(p)'
  BY TailEffect DEF NotQueued
<1> QED
  BY <1>1, <1>2, Zenon

(***************************************************************************)
(* Partitions not dispatched yet: copies come from the claim of an IDLE    *)
(* partition and from other copies, and from nothing else.                 *)
(***************************************************************************)
Locals == /\ pc \in [Loops -> Labels] /\ part \in [Loops -> Parts \cup {None}]
          /\ batch \in [Loops -> SUBSET Parts] /\ ready \in [Loops -> SUBSET Parts]
          /\ state \in [Parts -> {"none", "IDLE", "RUNNING", "FINISHED"}]
          /\ wire \in [Conns -> [Parts -> Nat]]

LEMMA NoCopyPeer ==
  ASSUME TypeOK, NEW p \in Parts, NoCopy(p), NEW c \in Conns, Peer(c)
  PROVE  NoCopy(p)' /\ (p \in written' => p \in written) /\ state' = state
<1> USE LoopsAssumption DEF tracker, outputs, devices, handler, Goto, Free, NoCopy
<1>0. Locals
  BY Zenon DEF TypeOK, Locals
<1>1. CASE ConnectionSuccess(c)
  <2>1. NotQueued(p)'
    BY <1>1, SendIdleCarriesNothing, NotQueuedAppend, Zenon DEF ConnectionSuccess
  <2> QED
    BY <1>0, <1>1, <2>1, Zenon DEF ConnectionSuccess, NotClaimed, NotSent, NotHandled, Claimed, Handling
<1>2. CASE RegisterDevice(c)
  BY <1>0, <1>2, Zenon DEF RegisterDevice, NotClaimed, NotQueued, NotSent, NotHandled, Claimed,
                    QueuedAt, Handling, Locals
<1>3. CASE ConnectionClosed(c)
  BY <1>0, <1>3, Zenon DEF ConnectionClosed, NotClaimed, NotQueued, NotSent, NotHandled, Claimed,
                    QueuedAt, Handling, Locals
<1>4. ASSUME NEW q \in Parts, WriteResultBlock(c, q)
      PROVE  NoCopy(p)' /\ (p \in written' => p \in written) /\ state' = state
  <2>1. q # p
    BY <1>4 DEF WriteResultBlock, NotSent
  <2> QED
    BY <1>0, <1>4, <2>1, Zenon DEF WriteResultBlock, NotClaimed, NotQueued, NotSent, NotHandled,
                            Claimed, QueuedAt, Handling, Locals
<1> QED
  BY <1>1, <1>2, <1>3, <1>4, Zenon DEF Peer, Answer

LEMMA NoCopyLoop ==
  ASSUME TypeOK, NEW p \in Parts, NoCopy(p), state[p] # "IDLE", NEW l \in Loops, Loop(l)
  PROVE  NoCopy(p)' /\ written' = written /\ (state[p] = "none" => state'[p] = "none")
<1> DEFINE Kept == /\ NoCopy(p)' /\ written' = written
                   /\ state[p] = "none" => state'[p] = "none"
<1> SUFFICES Kept
  BY Zenon
<1> USE DEF tracker, outputs, devices, handler, Goto, Free
<1>0. Locals /\ owner \in [Parts -> Conns \cup {None}]
  BY Zenon DEF TypeOK, Locals
<1>1. ASSUME \A m \in Loops : p \notin batch'[m] /\ p \notin ready'[m], NotQueued(p)',
             \A c \in Conns : wire'[c][p] = 0,
             \A m \in Loops : pc'[m] \in {"finish", "remove", "count"} => part'[m] # p,
             written' = written, state[p] = "none" => state'[p] = "none"
      PROVE  Kept
  BY <1>1, Zenon DEF NoCopy, NotClaimed, Claimed, NotSent, NotHandled, Handling
<1>2. /\ \A m \in Loops : p \notin batch[m] /\ p \notin ready[m]
      /\ NotQueued(p)
      /\ \A c \in Conns : wire[c][p] = 0
      /\ \A m \in Loops : pc[m] \in {"finish", "remove", "count"} => part[m] # p
  BY Zenon DEF NoCopy, NotClaimed, Claimed, NotSent, NotHandled, Handling
<1>3. ASSUME UNCHANGED queue PROVE NotQueued(p)'
  BY <1>2, <1>3, Zenon DEF NotQueued, QueuedAt
<1>4. ASSUME NEW m \in Loops, QueueInLoop(m, SendIdle) PROVE NotQueued(p)'
  BY <1>2, <1>4, SendIdleCarriesNothing, NotQueuedAppend, Zenon
<1> HIDE DEF Kept
<1>5. CASE SetDeviceConnection(l) \/ ConnectionClosedReturn(l)
  <2>1. NotQueued(p)'
    BY <1>4, <1>5, LoopsAssumption, Zenon DEF SetDeviceConnection, ConnectionClosedReturn
  <2> QED
    BY <1>0, <1>1, <1>2, <1>5, <2>1, Zenon
       DEF SetDeviceConnection, ConnectionClosedReturn, Locals
<1>6. CASE MarkDevicePartitionsFailed(l)
  BY <1>0, <1>1, <1>2, <1>3, <1>6, Zenon
     DEF MarkDevicePartitionsFailed, Locals
<1>7. CASE RemoveDeviceConnection(l) \/ UnregisterDevice(l)
  BY <1>0, <1>1, <1>2, <1>3, <1>7, Zenon
     DEF RemoveDeviceConnection, UnregisterDevice, Locals
<1>8. CASE MarkPartitionFinished(l) \/ RemovePartitionByKey(l)
  BY <1>0, <1>1, <1>2, <1>3, <1>8, Zenon
     DEF MarkPartitionFinished, RemovePartitionByKey, Locals
<1>9. CASE IncRspCbCount(l)
  <2>1. NotQueued(p)'
    BY <1>4, <1>9, Zenon DEF IncRspCbCount
  <2> QED
    BY <1>0, <1>1, <1>2, <1>9, <2>1, Zenon
       DEF IncRspCbCount, Locals
<1>10. CASE DoPendingFunctors(l)
  BY <1>0, <1>1, <1>2, <1>3, <1>10, Zenon DEF DoPendingFunctors
<1>11. CASE SendInLoop(l)
  <2>1. RunNext(l, Head(queue[l])) /\ Head(queue[l]) # SendIdle
    BY <1>11, Zenon DEF SendInLoop
  <2>2. NotQueued(p)' /\ Head(queue[l]).part # p /\ Head(queue[l]) \in Functor
    BY <1>2, <2>1, NotQueuedTail, TailEffect, Zenon
  <2>3. \A c \in Conns : wire'[c][p] = 0
    BY <1>0, <1>2, <1>11, <2>1, <2>2, Zenon DEF SendInLoop, Sent, Functor, Locals
  <2> QED
    BY <1>0, <1>1, <1>2, <1>11, <2>2, <2>3, Zenon
       DEF SendInLoop
<1>12. CASE ClaimIdlePartitions(l)
  <2>1. NotQueued(p)'
    BY <1>2, <1>12, NotQueuedTail, Zenon DEF ClaimIdlePartitions
  <2> QED
    BY <1>0, <1>1, <1>2, <1>12, <2>1, Zenon
       DEF ClaimIdlePartitions, Locals
<1>13. CASE RedistributePartitions(l) \/ NoDevices(l)
  BY <1>0, <1>1, <1>2, <1>3, <1>13, Zenon
     DEF RedistributePartitions, NoDevices, Locals
<1>14. ASSUME NEW q \in Parts, GiveUp(l, q) \/ ReassignPartitionToDevice(l, q) PROVE Kept
  <2>1. q # p
    BY <1>2, <1>14, Zenon DEF GiveUp, ReassignPartitionToDevice
  <2>2. CASE GiveUp(l, q)
    BY <1>0, <1>1, <1>2, <1>3, <2>1, <2>2, Zenon DEF GiveUp, MarkPartitionIdle, Locals
  <2>3. CASE ReassignPartitionToDevice(l, q)
    <3>1. UNCHANGED <<written, state, wire, queue, part>>
      BY <2>3, Zenon DEF ReassignPartitionToDevice
    <3>2. \A m \in Loops : p \notin batch'[m] /\ p \notin ready'[m]
      BY <1>0, <1>2, <2>1, <2>3, Zenon DEF ReassignPartitionToDevice, Locals
    <3>3. \A m \in Loops : pc'[m] \in {"finish", "remove", "count"} => part'[m] # p
      BY <1>0, <1>2, <2>3, <3>1, Zenon DEF ReassignPartitionToDevice, Locals
    <3> QED
      BY <1>1, <1>2, <1>3, <3>1, <3>2, <3>3, Zenon
  <2> QED
    BY <1>14, <2>2, <2>3, Zenon
<1>15. ASSUME NEW q \in Parts, SendToOwner(l, q) PROVE Kept
  <2>1. q # p /\ owner[q] \in Conns
    BY <1>0, <1>2, <1>15, Zenon DEF SendToOwner, TypeOK
  <2>2. NotQueued(p)'
    <3>1. CASE UNCHANGED queue
      BY <1>3, <3>1, Zenon
    <3>2. CASE QueueInLoop(LoopOf[owner[q]], [conn |-> owner[q], part |-> q])
      BY <1>2, <2>1, <3>2, NotQueuedAppend, LoopsAssumption DEF Functor
    <3> QED
      BY <1>15, <3>1, <3>2, Zenon DEF SendToOwner
  <2>3. \A c \in Conns : wire'[c][p] = 0
    BY <1>0, <1>2, <1>15, <2>1 DEF SendToOwner, Sent, Locals
  <2> QED
    BY <1>0, <1>1, <1>2, <1>15, <2>2, <2>3, Zenon
       DEF SendToOwner, AfterSend, Locals
<1>16. ASSUME NEW q \in Parts, NoConnection(l, q) PROVE Kept
  BY <1>0, <1>1, <1>2, <1>3, <1>16, Zenon
     DEF NoConnection, Locals
<1>17. ASSUME MarkUnsentIdle(l), part[l] # p PROVE Kept
  BY <1>0, <1>1, <1>2, <1>3, <1>17, Zenon
     DEF MarkUnsentIdle, MarkPartitionIdle, AfterSend, Locals
<1>18. ASSUME MarkUnsentIdle(l), part[l] = p PROVE Kept
  BY <1>0, <1>1, <1>2, <1>3, <1>18, Zenon
     DEF MarkUnsentIdle, MarkPartitionIdle, AfterSend, Locals
<1> QED
  BY <1>5, <1>6, <1>7, <1>8, <1>9, <1>10, <1>11, <1>12, <1>13, <1>14, <1>15, <1>16, <1>17, <1>18, Zenon
     DEF Loop, SendIdlePartitions

(* The event loops change neither the operations nor their outputs; only    *)
(* the last step of HandleMatMul counts.                                    *)
LEMMA LoopFrame ==
  ASSUME NEW l \in Loops, Loop(l)
  PROVE  UNCHANGED <<app, toAdd, written, result>> /\ (~IncRspCbCount(l) => UNCHANGED count)
<1> USE DEF outputs
<1>1. CASE \/ SetDeviceConnection(l) \/ MarkDevicePartitionsFailed(l)
           \/ RemoveDeviceConnection(l) \/ UnregisterDevice(l) \/ ConnectionClosedReturn(l)
  BY <1>1, Zenon DEF SetDeviceConnection, MarkDevicePartitionsFailed, RemoveDeviceConnection,
              UnregisterDevice, ConnectionClosedReturn
<1>2. CASE \/ MarkPartitionFinished(l) \/ RemovePartitionByKey(l) \/ IncRspCbCount(l)
           \/ DoPendingFunctors(l) \/ SendInLoop(l)
  BY <1>2, Zenon DEF MarkPartitionFinished, RemovePartitionByKey, IncRspCbCount, DoPendingFunctors,
              SendInLoop
<1>3. CASE ClaimIdlePartitions(l) \/ RedistributePartitions(l) \/ NoDevices(l)
  BY <1>3, Zenon DEF ClaimIdlePartitions, RedistributePartitions, NoDevices
<1>4. ASSUME NEW p \in Parts, \/ GiveUp(l, p) \/ ReassignPartitionToDevice(l, p)
                              \/ SendToOwner(l, p) \/ NoConnection(l, p)
      PROVE  UNCHANGED <<app, toAdd, outputs>>
  BY <1>4, Zenon DEF GiveUp, ReassignPartitionToDevice, SendToOwner, NoConnection
<1>5. CASE MarkUnsentIdle(l)
  BY <1>5, Zenon DEF MarkUnsentIdle
<1> QED
  BY <1>1, <1>2, <1>3, <1>4, <1>5, Zenon DEF Loop, SendIdlePartitions

LEMMA FreshInit == Init => FreshInv
  BY DEF Init, FreshInv, Fresh, NoCopy, NotClaimed, NotQueued, NotSent, NotHandled, Claimed,
         QueuedAt, Handling

(* A partition that is fresh after a step was fresh before it, and the step *)
(* did not put it in the tracker.                                           *)
LEMMA FreshBefore ==
  ASSUME TypeOK, FreshInv, [Next]_vars
  PROVE  /\ \A p \in toAdd' : app'[OpOf[p]] # "new"
         /\ \A p \in Parts : Fresh(p)' => Fresh(p) /\ ~AddPartition(p)
<1> USE OpsAssumption DEF tracker, outputs, devices, handler, FreshInv, Fresh
<1>0. toAdd \subseteq Parts /\ app \in [Ops -> {"new", "adding", "waiting", "returned"}]
  BY Zenon DEF TypeOK
<1>1. ASSUME NEW o \in Ops, Dispatch(o)
      PROVE  /\ \A p \in toAdd' : app'[OpOf[p]] # "new"
             /\ \A p \in Parts : Fresh(p)' => Fresh(p) /\ ~AddPartition(p)
  BY <1>0, <1>1, Zenon DEF Dispatch, AddPartition, PartsOf
<1>2. ASSUME NEW o \in Ops, DispatchReturn(o) \/ WaitMatMul(o)
      PROVE  /\ \A p \in toAdd' : app'[OpOf[p]] # "new"
             /\ \A p \in Parts : Fresh(p)' => Fresh(p) /\ ~AddPartition(p)
  BY <1>0, <1>2 DEF DispatchReturn, WaitMatMul, AddPartition
<1>3. ASSUME NEW q \in Parts, AddPartition(q)
      PROVE  /\ \A p \in toAdd' : app'[OpOf[p]] # "new"
             /\ \A p \in Parts : Fresh(p)' => Fresh(p) /\ ~AddPartition(p)
  BY <1>0, <1>3, Zenon DEF AddPartition
<1>4. ASSUME UNCHANGED <<app, toAdd>>
      PROVE  /\ \A p \in toAdd' : app'[OpOf[p]] # "new"
             /\ \A p \in Parts : Fresh(p)' => Fresh(p) /\ ~AddPartition(p)
  BY <1>0, <1>4, Zenon DEF AddPartition
<1>5. CASE \E l \in Loops : Loop(l)
  BY <1>4, <1>5, LoopFrame, Zenon
<1>6. CASE \E c \in Conns : Peer(c)
  BY <1>4, <1>6, Zenon DEF Peer, Answer, ConnectionSuccess, RegisterDevice, ConnectionClosed,
     WriteResultBlock
<1>7. CASE UNCHANGED vars
  BY <1>4, <1>7, Zenon DEF vars
<1> QED
  BY <1>1, <1>2, <1>3, <1>5, <1>6, <1>7, Zenon DEF Next, Application

LEMMA NoCopyApplication ==
  ASSUME TypeOK, NEW p \in Parts, NoCopy(p), Application
  PROVE  /\ NoCopy(p)' /\ written' = written
         /\ (state[p] = "none" /\ ~AddPartition(p) => state'[p] = "none")
<1> USE DEF tracker, outputs, devices, handler
<1>1. CASE UNCHANGED queue
  BY <1>1 DEF Application, Dispatch, WaitMatMul, AddPartition, DispatchReturn, TypeOK, NoCopy,
              NotClaimed, NotQueued, NotSent, NotHandled, Claimed, QueuedAt, Handling
<1>2. ASSUME NEW o \in Ops, DispatchReturn(o)
      PROVE  NoCopy(p)' /\ written' = written /\ state' = state
  <2>1. NotQueued(p)'
    BY <1>2, LoopsAssumption, SendIdleCarriesNothing, NotQueuedAppend, Zenon DEF DispatchReturn, NoCopy
  <2> QED
    BY <1>2, <2>1, Zenon DEF DispatchReturn, NoCopy, NotClaimed, NotSent, NotHandled, Claimed, Handling
<1> QED
  BY <1>1, <1>2, Zenon DEF Application, Dispatch, WaitMatMul, AddPartition

LEMMA FreshNext ==
  ASSUME TypeOK, FreshInv, [Next]_vars
  PROVE  FreshInv'
<1> SUFFICES ASSUME NEW p \in Parts, Fresh(p)'
             PROVE  state'[p] = "none" /\ p \notin written' /\ NoCopy(p)'
  BY FreshBefore, Zenon DEF FreshInv
<1>1. Fresh(p) /\ ~AddPartition(p)
  BY FreshBefore, Zenon
<1>2. state[p] = "none" /\ p \notin written /\ NoCopy(p)
  BY <1>1, Zenon DEF FreshInv
<1>3. CASE Application
  BY <1>1, <1>2, <1>3, NoCopyApplication, Zenon
<1>4. CASE \E c \in Conns : Peer(c)
  BY <1>2, <1>4, NoCopyPeer, Zenon
<1>5. CASE \E l \in Loops : Loop(l)
  BY <1>2, <1>5, NoCopyLoop, Zenon
<1>6. CASE UNCHANGED vars
  BY <1>2, <1>6, Zenon DEF vars, tracker, outputs, handler, NoCopy, NotClaimed, NotQueued, NotSent,
                    NotHandled, Claimed, QueuedAt, Handling
<1> QED
  BY <1>3, <1>4, <1>5, <1>6, Zenon DEF Next

(***************************************************************************)
(* What was counted for an operation.                                      *)
(***************************************************************************)
(* A HandleMatMul begins with WriteResultBlock and ends with IncRspCbCount. *)
LEMMA HandlingLoop ==
  ASSUME TypeOK, NEW l \in Loops, Loop(l), NEW p \in Parts, NEW m \in Loops
  PROVE  Handling(m, p)' <=> Handling(m, p) /\ ~(IncRspCbCount(l) /\ m = l)
<1> USE DEF tracker, handler, Goto, Free, RunNext, Handling
<1>0. pc \in [Loops -> Labels] /\ part \in [Loops -> Parts \cup {None}]
  BY Zenon DEF TypeOK
<1>1. CASE IncRspCbCount(l)
  BY <1>0, <1>1, PartsAssumption, Zenon DEF IncRspCbCount
<1>2. ASSUME UNCHANGED part, pc' = pc \/ \E x : Goto(l, x) /\ x \notin {"finish", "remove", "count"},
             pc[l] \notin {"finish", "remove", "count"}
      PROVE  (Handling(m, p)' <=> Handling(m, p)) /\ ~IncRspCbCount(l)
  BY <1>0, <1>2, Zenon DEF IncRspCbCount
<1>3. CASE \/ SetDeviceConnection(l) \/ MarkDevicePartitionsFailed(l)
           \/ RemoveDeviceConnection(l) \/ UnregisterDevice(l) \/ ConnectionClosedReturn(l)
  BY <1>2, <1>3 DEF SetDeviceConnection, MarkDevicePartitionsFailed, RemoveDeviceConnection,
                    UnregisterDevice, ConnectionClosedReturn
<1>4. CASE MarkPartitionFinished(l) \/ RemovePartitionByKey(l)
  BY <1>0, <1>4, Zenon DEF MarkPartitionFinished, RemovePartitionByKey, IncRspCbCount
<1>5. CASE DoPendingFunctors(l) \/ SendInLoop(l)
  BY <1>0, <1>5, Zenon DEF DoPendingFunctors, SendInLoop, IncRspCbCount
<1>6. CASE ClaimIdlePartitions(l) \/ RedistributePartitions(l) \/ NoDevices(l)
  BY <1>0, <1>6, Zenon DEF ClaimIdlePartitions, RedistributePartitions, NoDevices, IncRspCbCount
<1>7. ASSUME NEW q \in Parts, GiveUp(l, q) \/ ReassignPartitionToDevice(l, q) \/ SendToOwner(l, q)
      PROVE  (Handling(m, p)' <=> Handling(m, p)) /\ ~IncRspCbCount(l)
  BY <1>0, <1>7, Zenon DEF GiveUp, ReassignPartitionToDevice, SendToOwner, AfterSend, IncRspCbCount
<1>8. CASE MarkUnsentIdle(l) \/ \E q \in Parts : NoConnection(l, q)
  BY <1>0, <1>8, Zenon DEF MarkUnsentIdle, NoConnection, AfterSend, IncRspCbCount
<1> QED
  BY <1>1, <1>3, <1>4, <1>5, <1>6, <1>7, <1>8, Zenon DEF Loop, SendIdlePartitions

LEMMA HandlingPeer ==
  ASSUME TypeOK, NEW c \in Conns, Peer(c)
  PROVE  /\ UNCHANGED <<app, toAdd, count, result>>
         /\ \/ written' = written /\ \A p \in Parts, m \in Loops : Handling(m, p)' <=> Handling(m, p)
            \/ \E q \in Parts : /\ WriteResultBlock(c, q) /\ written' = written \cup {q}
                                 /\ \A p \in Parts, m \in Loops :
                                      Handling(m, p)' <=> Handling(m, p) \/ (m = LoopOf[c] /\ p = q)
<1> USE LoopsAssumption DEF tracker, outputs, handler, Goto, Free, Handling
<1>0. pc \in [Loops -> Labels] /\ part \in [Loops -> Parts \cup {None}]
  BY Zenon DEF TypeOK
<1>1. CASE ConnectionSuccess(c) \/ RegisterDevice(c) \/ ConnectionClosed(c)
  BY <1>0, <1>1 DEF ConnectionSuccess, RegisterDevice, ConnectionClosed
<1>2. ASSUME NEW q \in Parts, WriteResultBlock(c, q)
      PROVE  /\ UNCHANGED <<app, toAdd, count, result>> /\ written' = written \cup {q}
             /\ \A p \in Parts, m \in Loops :
                  Handling(m, p)' <=> Handling(m, p) \/ (m = LoopOf[c] /\ p = q)
  BY <1>0, <1>2, Zenon DEF WriteResultBlock
<1> QED
  BY <1>1, <1>2, Zenon DEF Peer, Answer

LEMMA UncountedFinite ==
  ASSUME Counting, NEW o
  PROVE  /\ IsFiniteSet(Uncounted(o)) /\ Cardinality(Uncounted(o)) \in Nat
         /\ Cardinality(Uncounted(o)) <= Cardinality(PartsOf(o))
<1>1. Uncounted(o) \subseteq PartsOf(o)
  BY Zenon DEF Uncounted
<1> QED
  BY <1>1, PartsOfFinite, FinitePart, Zenon

LEMMA CountInit ==
  ASSUME Counting, Init
  PROVE  CountInv
<1>1. \A o : Cardinality(Uncounted(o)) \in Nat
  BY UncountedFinite, Zenon
<1> QED
  BY <1>1 DEF Init, CountInv

(* A step that counts nothing leaves no fewer partitions uncounted.         *)
LEMMA CountKept ==
  ASSUME Counting, TypeOK, CountInv, UNCHANGED <<app, count>>,
         \A o \in Ops : Uncounted(o) \subseteq Uncounted(o)' /\ Uncounted(o)' \subseteq PartsOf(o)
  PROVE  CountInv'
<1> SUFFICES ASSUME NEW o \in Ops
             PROVE  count[o] <= Cardinality(Uncounted(o)')
  BY Zenon DEF CountInv
<1> DEFINE U == Uncounted(o)'
<1>1. U \subseteq PartsOf(o) /\ Uncounted(o) \subseteq U
  BY Zenon
<1> HIDE DEF U
<1>2. IsFiniteSet(U) /\ Cardinality(Uncounted(o)) <= Cardinality(U) /\ Cardinality(U) \in Nat
  BY <1>1, PartsOfFinite, FinitePart, Zenon
<1>3. count[o] <= Cardinality(Uncounted(o)) /\ count[o] \in Nat /\ Cardinality(Uncounted(o)) \in Nat
  BY UncountedFinite, Zenon DEF CountInv, TypeOK
<1>4. count[o] <= Cardinality(U)
  BY <1>2, <1>3
<1> QED
  BY <1>4, Zenon DEF U

LEMMA CountNext ==
  ASSUME Counting, TypeOK, FreshInv, CountInv, [Next]_vars
  PROVE  CountInv'
<1>1. \A o \in Ops : Uncounted(o)' \subseteq PartsOf(o)
  BY Zenon DEF Uncounted, PartsOf
<1>2. ASSUME UNCHANGED <<app, count>>, written' = written,
             \A p \in Parts, m \in Loops : Handling(m, p)' <=> Handling(m, p)
      PROVE  CountInv'
  <2>1. \A o \in Ops : Uncounted(o) \subseteq Uncounted(o)'
    BY <1>2, Zenon DEF Uncounted, PartsOf
  <2> QED
    BY <1>1, <1>2, <2>1, CountKept, Zenon
<1>3. ASSUME NEW o \in Ops, Dispatch(o) PROVE CountInv'
  <2>1. count[o] = 0 /\ count \in [Ops -> Nat] /\ app \in [Ops -> {"new", "adding", "waiting", "returned"}]
    BY <1>3, Zenon DEF Dispatch, CountInv, TypeOK
  <2>2. UNCHANGED <<written, pc, part>>
    BY <1>3, Zenon DEF Dispatch, handler
  <2>3. \A u \in Ops : Uncounted(u)' = Uncounted(u)
    BY <2>2, Zenon DEF Uncounted, Handling
  <2>4. Uncounted(o) = PartsOf(o)
    BY <1>3, Zenon DEF Dispatch, FreshInv, Fresh, Uncounted, PartsOf
  <2>5. \A u \in Ops : count'[u] = IF u = o THEN Cardinality(PartsOf(o)) ELSE count[u]
    BY <1>3, <2>1, PartsOfFinite DEF Dispatch
  <2>6. \A u \in Ops : app'[u] = IF u = o THEN "adding" ELSE app[u]
    BY <1>3, <2>1, Zenon DEF Dispatch
  <2>7. \A u \in Ops : count'[u] <= Cardinality(Uncounted(u))
    BY <2>4, <2>5, PartsOfFinite DEF CountInv
  <2> QED
    BY <2>3, <2>5, <2>6, <2>7, Zenon DEF CountInv
<1>4. CASE Application /\ ~\E o \in Ops : Dispatch(o)
  <2>1. UNCHANGED <<count, written, pc, part>> /\ \A o \in Ops : app'[o] = "new" => app[o] = "new"
    BY <1>4 DEF Application, DispatchReturn, WaitMatMul, AddPartition, outputs, handler, TypeOK
  <2>2. \A o \in Ops : Uncounted(o)' = Uncounted(o)
    BY <2>1, Zenon DEF Uncounted, Handling
  <2> QED
    BY <2>1, <2>2, Zenon DEF CountInv
<1>5. ASSUME NEW c \in Conns, Peer(c) PROVE CountInv'
  <2>1. UNCHANGED <<app, count>>
    BY <1>5, HandlingPeer, Zenon
  <2>2. \A o \in Ops : Uncounted(o) \subseteq Uncounted(o)'
    BY <1>5, HandlingPeer, LoopsAssumption DEF Uncounted, PartsOf
  <2> QED
    BY <1>1, <2>1, <2>2, CountKept, Zenon
<1>6. ASSUME NEW l \in Loops, IncRspCbCount(l), Loop(l) PROVE CountInv'
  <2> DEFINE q == part[l]
             o == OpOf[q]
  <2>1. /\ q \in Parts /\ o \in Ops /\ UNCHANGED <<app, written>> /\ count \in [Ops -> Nat]
        /\ \A u \in Ops : count'[u] = IF u = o THEN IF count[o] < 1 THEN 0 ELSE count[o] - 1
                                      ELSE count[u]
    BY <1>6, OpsAssumption, Zenon DEF IncRspCbCount, TypeOK
  <2> HIDE DEF q, o
  <2>2. \A p \in Parts, m \in Loops : p # q => (Handling(m, p)' <=> Handling(m, p))
    BY <1>6, HandlingLoop DEF Handling, q
  <2>3. ASSUME NEW u \in Ops PROVE /\ Uncounted(u) \subseteq Uncounted(u)' \cup {q}
                                   /\ u # o => Uncounted(u) \subseteq Uncounted(u)'
    BY <2>1, <2>2, Zenon DEF Uncounted, PartsOf, o
  <2>4. ASSUME NEW u \in Ops PROVE count'[u] <= Cardinality(Uncounted(u)')
    <3> DEFINE U == Uncounted(u)'
    <3>1. /\ U \subseteq PartsOf(u) /\ Uncounted(u) \subseteq U \cup {q}
          /\ u # o => Uncounted(u) \subseteq U
      BY <1>1, <2>3, Zenon
    <3> HIDE DEF U
    <3>2. IsFiniteSet(U) /\ Cardinality(U) \in Nat
      BY <3>1, PartsOfFinite, FinitePart, Zenon
    <3>3. count[u] <= Cardinality(Uncounted(u)) /\ count[u] \in Nat /\ Cardinality(Uncounted(u)) \in Nat
      BY <2>1, UncountedFinite, Zenon DEF CountInv
    <3>4. Cardinality(Uncounted(u)) <= Cardinality(U) + 1
      BY <3>1, <3>2, AtMostOneLess, Zenon
    <3>5. u # o => Cardinality(Uncounted(u)) <= Cardinality(U)
      BY <3>1, <3>2, FinitePart, Zenon
    <3>6. count'[u] <= Cardinality(U)
      BY <2>1, <3>2, <3>3, <3>4, <3>5
    <3> QED
      BY <3>6, Zenon DEF U
  <2>5. \A u \in Ops : app'[u] = "new" => count'[u] = 0
    BY <2>1 DEF CountInv
  <2> QED
    BY <2>4, <2>5, Zenon DEF CountInv
<1>7. ASSUME NEW l \in Loops, Loop(l), ~IncRspCbCount(l) PROVE CountInv'
  BY <1>2, <1>7, LoopFrame, HandlingLoop, Zenon
<1>8. CASE UNCHANGED vars
  BY <1>2, <1>8, Zenon DEF vars, outputs, handler, Handling
<1> QED
  BY <1>3, <1>4, <1>5, <1>6, <1>7, <1>8, Zenon DEF Next

LEMMA ChurnInit ==
  ASSUME Counting, Init
  PROVE  ChurnInv
  BY InitType, HandlerInit, FreshInit, CountInit, Zenon DEF ChurnInv

LEMMA ChurnNext ==
  ASSUME Counting, ChurnInv, [Next]_vars
  PROVE  ChurnInv'
  BY NextType, HandlerNext, FreshNext, CountNext, Zenon DEF ChurnInv

LEMMA ChurnCounts ==
  ASSUME Counting, ChurnInv
  PROVE  CompleteIsCounted
<1> SUFFICES ASSUME NEW o \in Ops, PartsOf(o) \subseteq written,
                    \A p \in PartsOf(o), l \in Loops : ~Handling(l, p)
             PROVE  count[o] = 0
  BY Zenon DEF CompleteIsCounted
<1>1. Uncounted(o) = {}
  BY Zenon DEF Uncounted
<1>2. count[o] <= 0 /\ count[o] \in Nat
  BY <1>1, NoneLeft, Zenon DEF ChurnInv, CountInv, TypeOK
<1> QED
  BY <1>2
==============================================================================
