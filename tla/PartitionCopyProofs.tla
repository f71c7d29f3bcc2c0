------------------------- MODULE PartitionCopyProofs -------------------------
(***************************************************************************)
(* Proofs about the copies of a partition in PartitionDispatch: a fleet    *)
(* nobody leaves sends each partition once and implements MatMulService.   *)
(* The last section has the theorems about PartitionDispatch.              *)
(***************************************************************************)
EXTENDS PartitionDispatchProofs

(***************************************************************************)
(* One copy of each partition, when nobody leaves.                         *)
(***************************************************************************)
(* A step that leaves the functors carrying p where they are, or takes the  *)
(* first functor of a queue and moves the others up.                        *)
FewerQueued(p) ==
  \E k \in [Loops -> {0, 1}] :
    \A m \in Loops, i \in Nat : QueuedAt(m, i, p)' => QueuedAt(m, i + k[m], p)

(* A step that makes no copy of p and moves none.                           *)
Fewer(p) ==
  /\ \A l \in Loops : Claimed(l, p)' => Claimed(l, p)
  /\ FewerQueued(p)
  /\ \A c \in Conns : wire'[c][p] \in Nat /\ wire'[c][p] <= wire[c][p]
  /\ \A l \in Loops : Handling(l, p)' => Handling(l, p)

LEMMA FewerCopies ==
  ASSUME wire \in [Conns -> [Parts -> Nat]], NEW p \in Parts, CopySound(p), Fewer(p),
         state'[p] = "IDLE" => state[p] = "IDLE", p \in written' => p \in written
  PROVE  CopySound(p)'
<1>1. PICK k \in [Loops -> {0, 1}] :
        \A m \in Loops, i \in Nat : QueuedAt(m, i, p)' => QueuedAt(m, i + k[m], p)
  BY Zenon DEF Fewer, FewerQueued
<1>2. \A m \in Loops : k[m] \in Nat
  OBVIOUS
<1>3. \A c \in Conns : wire[c][p] \in Nat /\ wire'[c][p] \in Nat /\ wire'[c][p] <= wire[c][p]
  BY Zenon DEF Fewer
<1>4. /\ NotClaimed(p) => NotClaimed(p)'
      /\ NotHandled(p) => NotHandled(p)'
  BY Zenon DEF Fewer, NotClaimed, NotHandled
<1>5. NotQueued(p) => NotQueued(p)'
  BY <1>1, <1>2 DEF NotQueued
<1>6. NotSent(p) => NotSent(p)'
  BY <1>3 DEF NotSent
<1>7. \A l, m \in Loops : \A i, j \in Nat :
        QueuedAt(l, i, p)' /\ QueuedAt(m, j, p)' => l = m /\ i = j
  BY <1>1, <1>2 DEF CopySound, OneCopy
<1>8. \A c, d \in Conns : /\ wire'[c][p] > 0 /\ wire'[d][p] > 0 => c = d
                          /\ wire'[c][p] <= 1
  BY <1>3 DEF CopySound, OneCopy
<1>9. OneCopy(p)'
  BY <1>4, <1>5, <1>6, <1>7, <1>8, Zenon DEF CopySound, OneCopy, Fewer
<1> QED
  BY <1>4, <1>5, <1>6, <1>9, Zenon DEF CopySound, NoCopy

LEMMA SameQueue ==
  ASSUME NEW p \in Parts, UNCHANGED queue
  PROVE  FewerQueued(p)
<1> DEFINE k == [m \in Loops |-> 0]
<1>1. k \in [Loops -> {0, 1}] /\ \A m \in Loops, i \in Nat : i + k[m] = i
  OBVIOUS
<1>2. \A m \in Loops, i \in Nat : QueuedAt(m, i, p)' => QueuedAt(m, i, p)
  BY Zenon DEF QueuedAt
<1> QED
  BY <1>1, <1>2, Zenon DEF FewerQueued

LEMMA OthersAppended ==
  ASSUME TypeOK, NEW l \in Loops, NEW f \in Functor, QueueInLoop(l, f),
         NEW p \in Parts, f.part # p
  PROVE  FewerQueued(p)
<1> DEFINE k == [m \in Loops |-> 0]
<1>1. k \in [Loops -> {0, 1}] /\ \A m \in Loops, i \in Nat : i + k[m] = i
  OBVIOUS
<1>2. \A m \in Loops, i \in Nat : QueuedAt(m, i, p)' => QueuedAt(m, i, p)
  BY AppendEffect, Zenon
<1> QED
  BY <1>1, <1>2, Zenon DEF FewerQueued

LEMMA FirstTaken ==
  ASSUME TypeOK, NEW l \in Loops, NEW f, RunNext(l, f), NEW p \in Parts
  PROVE  FewerQueued(p)
<1> DEFINE k == [m \in Loops |-> IF m = l THEN 1 ELSE 0]
<1>1. k \in [Loops -> {0, 1}] /\ \A m \in Loops, i \in Nat : i + k[m] = IF m = l THEN i + 1 ELSE i
  OBVIOUS
<1>2. \A m \in Loops, i \in Nat :
        QueuedAt(m, i, p)' => QueuedAt(m, IF m = l THEN i + 1 ELSE i, p)
  BY TailEffect
<1> QED
  BY <1>1, <1>2, Zenon DEF FewerQueued

(* A partition that is in one place is in no other.                         *)
LEMMA WhereClaimed ==
  ASSUME NEW p \in Parts, CopySound(p), NEW l \in Loops, Claimed(l, p)
  PROVE  /\ \A m \in Loops : Claimed(m, p) => m = l
         /\ NotQueued(p) /\ NotSent(p) /\ NotHandled(p)
         /\ p \notin written /\ state[p] # "IDLE"
  BY Zenon DEF CopySound, OneCopy, NoCopy, NotClaimed

LEMMA WhereQueued ==
  ASSUME NEW p \in Parts, CopySound(p), NEW l \in Loops, NEW i \in Nat, QueuedAt(l, i, p)
  PROVE  /\ \A m \in Loops, j \in Nat : QueuedAt(m, j, p) => m = l /\ j = i
         /\ NotClaimed(p) /\ NotSent(p) /\ NotHandled(p)
         /\ p \notin written /\ state[p] # "IDLE"
<1>1. ~NotQueued(p)
  BY Zenon DEF NotQueued
<1>2. \A m \in Loops, j \in Nat : QueuedAt(m, j, p) => m = l /\ j = i
  BY Zenon DEF CopySound, OneCopy
<1> QED
  BY <1>1, <1>2, Zenon DEF CopySound, OneCopy, NoCopy

LEMMA WhereSent ==
  ASSUME wire \in [Conns -> [Parts -> Nat]], NEW p \in Parts, CopySound(p),
         NEW c \in Conns, wire[c][p] > 0
  PROVE  /\ \A d \in Conns : wire[d][p] = IF d = c THEN 1 ELSE 0
         /\ NotClaimed(p) /\ NotQueued(p) /\ NotHandled(p)
         /\ p \notin written /\ state[p] # "IDLE"
<1>1. ~NotSent(p)
  BY DEF NotSent
<1>2. \A d \in Conns : wire[d][p] = IF d = c THEN 1 ELSE 0
  BY DEF CopySound, OneCopy
<1> QED
  BY <1>1, <1>2, Zenon DEF CopySound, OneCopy, NoCopy

(* A partition that ends up in one place only.                              *)
LEMMA NowhereNow ==
  ASSUME NEW p \in Parts, NoCopy(p)', p \notin written'
  PROVE  CopySound(p)'
  BY DEF CopySound, OneCopy, NoCopy, NotClaimed, NotQueued, NotSent, NotHandled

LEMMA ClaimedNow ==
  ASSUME NEW p \in Parts, NEW l \in Loops, \A m \in Loops : Claimed(m, p)' => m = l,
         NotQueued(p)', NotSent(p)', NotHandled(p)', p \notin written', state'[p] # "IDLE"
  PROVE  CopySound(p)'
  BY DEF CopySound, OneCopy, NotQueued, NotSent, NotHandled

LEMMA QueuedNow ==
  ASSUME NEW p \in Parts, NEW l \in Loops, NEW n \in Nat,
         \A m \in Loops, i \in Nat : QueuedAt(m, i, p)' => m = l /\ i = n,
         NotClaimed(p)', NotSent(p)', NotHandled(p)', p \notin written', state'[p] # "IDLE"
  PROVE  CopySound(p)'
  BY DEF CopySound, OneCopy, NotClaimed, NotSent, NotHandled

LEMMA SentNow ==
  ASSUME NEW p \in Parts, NEW c \in Conns,
         \A d \in Conns : wire'[d][p] = IF d = c THEN 1 ELSE 0,
         NotClaimed(p)', NotQueued(p)', NotHandled(p)', p \notin written', state'[p] # "IDLE"
  PROVE  CopySound(p)'
  BY DEF CopySound, OneCopy, NotClaimed, NotQueued, NotHandled

LEMMA HandledNow ==
  ASSUME NEW p \in Parts, NEW l \in Loops, \A m \in Loops : Handling(m, p)' => m = l,
         NotClaimed(p)', NotQueued(p)', NotSent(p)', state'[p] # "IDLE"
  PROVE  CopySound(p)'
  BY DEF CopySound, OneCopy, NotClaimed, NotQueued, NotSent

LEMMA CopyInit == Init => CopyInv
<1>1. ASSUME Init, NEW p \in Parts PROVE CopySound(p)
  <2>1. NoCopy(p) /\ p \notin written
    BY <1>1 DEF Init, NoCopy, NotClaimed, NotQueued, NotSent, NotHandled, Claimed, QueuedAt,
                Handling
  <2> QED
    BY <2>1 DEF CopySound, OneCopy, NoCopy, NotClaimed, NotQueued, NotSent, NotHandled
<1> QED
  BY <1>1, Zenon DEF CopyInv

LEMMA CopyApplication ==
  ASSUME TypeOK, FreshInv, CopyInv, Application
  PROVE  CopyInv'
<1> SUFFICES ASSUME NEW p \in Parts PROVE CopySound(p)'
  BY Zenon DEF CopyInv
<1> USE DEF tracker, outputs, devices, handler
<1>1. CopySound(p) /\ wire \in [Conns -> [Parts -> Nat]]
  BY Zenon DEF CopyInv, TypeOK
<1>2. UNCHANGED <<written, wire, pc, part, batch, ready>>
  BY Zenon DEF Application, Dispatch, DispatchReturn, WaitMatMul, AddPartition
<1>3. ASSUME FewerQueued(p) PROVE Fewer(p)
  BY <1>1, <1>2, <1>3 DEF Fewer, Claimed, Handling
<1>4. CASE AddPartition(p)
  <2>1. NoCopy(p) /\ p \notin written
    BY <1>4, Zenon DEF AddPartition, FreshInv, Fresh
  <2> QED
    BY <1>2, <2>1, NoCopyApplication, NowhereNow, Zenon
<1>5. ASSUME NEW q \in Parts \ {p}, AddPartition(q) PROVE CopySound(p)'
  <2>1. state'[p] = state[p] /\ UNCHANGED queue
    BY <1>5, Zenon DEF AddPartition, TypeOK
  <2> QED
    BY <1>1, <1>2, <1>3, <2>1, SameQueue, FewerCopies, Zenon
<1>6. ASSUME NEW o \in Ops, Dispatch(o) \/ WaitMatMul(o) PROVE CopySound(p)'
  <2>1. UNCHANGED <<state, queue>>
    BY <1>6, Zenon DEF Dispatch, WaitMatMul
  <2> QED
    BY <1>1, <1>2, <1>3, <2>1, SameQueue, FewerCopies, Zenon
<1>7. ASSUME NEW o \in Ops, DispatchReturn(o) PROVE CopySound(p)'
  <2>1. UNCHANGED state /\ FewerQueued(p)
    BY <1>7, OthersAppended, SendIdleCarriesNothing, LoopsAssumption, Zenon DEF DispatchReturn
  <2> QED
    BY <1>1, <1>2, <1>3, <2>1, FewerCopies, Zenon
<1> QED
  BY <1>4, <1>5, <1>6, <1>7, Zenon DEF Application

LEMMA CopyPeer ==
  ASSUME TypeOK, CopyInv, Leavers = {}, NEW c \in Conns, Peer(c)
  PROVE  CopyInv'
<1> SUFFICES ASSUME NEW p \in Parts PROVE CopySound(p)'
  BY Zenon DEF CopyInv
<1> USE LoopsAssumption DEF tracker, outputs, devices, handler, Goto, Free
<1>1. CopySound(p) /\ Locals
  BY Zenon DEF CopyInv, TypeOK, Locals
<1>2. ASSUME FewerQueued(p), UNCHANGED <<batch, ready>>, written' = written,
             \A l \in Loops : Handling(l, p)' => Handling(l, p),
             \A d \in Conns : wire'[d][p] = wire[d][p], UNCHANGED state
      PROVE  CopySound(p)'
  <2>1. Fewer(p)
    BY <1>1, <1>2 DEF Fewer, Claimed, Locals
  <2> QED
    BY <1>1, <1>2, <2>1, FewerCopies, Zenon DEF Locals
<1>3. CASE ConnectionSuccess(c)
  <2>1. FewerQueued(p)
    BY <1>3, OthersAppended, SendIdleCarriesNothing, Zenon DEF ConnectionSuccess
  <2> QED
    BY <1>2, <1>3, <2>1, Zenon DEF ConnectionSuccess, Handling
<1>4. CASE RegisterDevice(c)
  <2>1. \A l \in Loops : Handling(l, p)' => Handling(l, p)
    BY <1>1, <1>4, Zenon DEF RegisterDevice, Handling, Locals
  <2> QED
    BY <1>2, <1>4, <2>1, SameQueue, Zenon DEF RegisterDevice
<1>5. CASE ConnectionClosed(c)
  BY <1>5, Zenon DEF ConnectionClosed
<1>6. ASSUME NEW q \in Parts \ {p}, WriteResultBlock(c, q) PROVE CopySound(p)'
  <2>1. \A l \in Loops : Handling(l, p)' => Handling(l, p)
    BY <1>1, <1>6, Zenon DEF WriteResultBlock, Handling, Locals
  <2>2. UNCHANGED <<batch, ready, state, queue>> /\ \A d \in Conns : wire'[d][p] = wire[d][p]
    BY <1>1, <1>6, Zenon DEF WriteResultBlock, Locals
  <2>3. Fewer(p)
    BY <1>1, <2>1, <2>2, SameQueue DEF Fewer, Claimed, Locals
  <2>4. p \in written' => p \in written
    BY <1>6, Zenon DEF WriteResultBlock
  <2> QED
    BY <1>1, <2>2, <2>3, <2>4, FewerCopies, Zenon DEF Locals
<1>7. CASE WriteResultBlock(c, p)
  <2>1. /\ \A d \in Conns : wire[d][p] = IF d = c THEN 1 ELSE 0
        /\ NotClaimed(p) /\ NotQueued(p) /\ NotHandled(p) /\ state[p] # "IDLE"
    BY <1>1, <1>7, WhereSent, Zenon DEF WriteResultBlock, Locals
  <2>2. UNCHANGED <<batch, ready, state, queue>>
    BY <1>7, Zenon DEF WriteResultBlock
  <2>3. NotSent(p)'
    BY <1>1, <1>7, <2>1 DEF WriteResultBlock, Locals, NotSent
  <2>4. NotClaimed(p)' /\ NotQueued(p)'
    BY <2>1, <2>2, Zenon DEF NotClaimed, NotQueued, Claimed, QueuedAt
  <2>5. \A m \in Loops : Handling(m, p)' => m = LoopOf[c]
    BY <1>1, <1>7, <2>1, Zenon DEF WriteResultBlock, NotHandled, Handling, Locals
  <2> QED
    BY <2>1, <2>2, <2>3, <2>4, <2>5, HandledNow, Zenon
<1> QED
  BY <1>3, <1>4, <1>5, <1>6, <1>7, Zenon DEF Peer, Answer

(* The steps of a loop that make no copy and move none.                     *)
LEMMA CopyHandlers ==
  ASSUME TypeOK, NEW p \in Parts, CopySound(p), NEW l \in Loops, Loop(l),
         \/ SetDeviceConnection(l) \/ MarkPartitionFinished(l) \/ RemovePartitionByKey(l)
         \/ IncRspCbCount(l) \/ DoPendingFunctors(l) \/ RedistributePartitions(l)
         \/ NoDevices(l) \/ \E q \in Parts : NoConnection(l, q)
  PROVE  CopySound(p)'
<1> USE DEF tracker, outputs, devices, handler
<1>1. Locals
  BY Zenon DEF TypeOK, Locals
<1>2. \A m \in Loops : Handling(m, p)' => Handling(m, p)
  BY HandlingLoop, Zenon
<1>3. UNCHANGED <<written, batch, ready, wire>>
  BY LoopFrame, Zenon DEF SetDeviceConnection, MarkPartitionFinished, RemovePartitionByKey,
                   IncRspCbCount, DoPendingFunctors, RedistributePartitions, NoDevices,
                   NoConnection
<1>4. state'[p] = "IDLE" => state[p] = "IDLE"
  BY <1>1, Zenon DEF SetDeviceConnection, MarkPartitionFinished, RemovePartitionByKey, IncRspCbCount,
              DoPendingFunctors, RedistributePartitions, NoDevices, NoConnection, Locals
<1>5. FewerQueued(p)
  <2>1. CASE SetDeviceConnection(l) \/ IncRspCbCount(l)
    BY <2>1, OthersAppended, SendIdleCarriesNothing, Zenon DEF SetDeviceConnection, IncRspCbCount
  <2>2. CASE UNCHANGED queue
    BY <2>2, SameQueue, Zenon
  <2> QED
    BY <2>1, <2>2, Zenon DEF MarkPartitionFinished, RemovePartitionByKey, DoPendingFunctors,
                      RedistributePartitions, NoDevices, NoConnection
<1>6. Fewer(p)
  BY <1>1, <1>2, <1>3, <1>5 DEF Fewer, Claimed, Locals
<1> QED
  BY <1>1, <1>3, <1>4, <1>6, FewerCopies, Zenon DEF Locals

(* SendInLoop takes a queued copy to the wire.                              *)
LEMMA CopySend ==
  ASSUME TypeOK, NobodyLeft, NEW p \in Parts, CopySound(p), NEW l \in Loops, Loop(l),
         SendInLoop(l)
  PROVE  CopySound(p)'
<1> DEFINE f == Head(queue[l])
<1>1. Locals /\ RunNext(l, f) /\ f # SendIdle
  BY Zenon DEF TypeOK, Locals, SendInLoop
<1>2. /\ f \in Functor /\ (QueuedAt(l, 1, p) <=> f.part = p)
      /\ \A m \in Loops, i \in Nat :
           QueuedAt(m, i, p)' <=> IF m = l THEN i # 0 /\ QueuedAt(l, i + 1, p)
                                  ELSE QueuedAt(m, i, p)
  BY <1>1, TailEffect, Zenon
<1>3. f.conn \in Conns /\ f.part \in Parts
  BY <1>1, <1>2, Zenon DEF Functor
<1>4. UNCHANGED <<written, state, batch, ready>>
      /\ wire' = [wire EXCEPT ![f.conn][f.part] = @ + 1]
  BY <1>3, Zenon DEF SendInLoop, Sent, NobodyLeft, outputs, tracker, handler
<1>5. \A m \in Loops : Handling(m, p)' => Handling(m, p)
  BY HandlingLoop, Zenon
<1>6. FewerQueued(p)
  BY <1>1, FirstTaken, Zenon
<1> HIDE DEF f
<1>7. CASE f.part # p
  <2>1. \A d \in Conns : wire'[d][p] = wire[d][p] /\ wire[d][p] \in Nat
    BY <1>1, <1>3, <1>4, <1>7, Zenon DEF Locals
  <2>2. Fewer(p)
    BY <1>4, <1>5, <1>6, <2>1 DEF Fewer, Claimed
  <2> QED
    BY <1>1, <1>4, <2>2, FewerCopies, Zenon DEF Locals
<1>8. CASE f.part = p
  <2>1. /\ \A m \in Loops, j \in Nat : QueuedAt(m, j, p) => m = l /\ j = 1
        /\ NotClaimed(p) /\ NotSent(p) /\ NotHandled(p) /\ p \notin written /\ state[p] # "IDLE"
    BY <1>2, <1>8, WhereQueued, Zenon
  <2>2. NotQueued(p)'
    BY <1>2, <2>1 DEF NotQueued
  <2>3. NotClaimed(p)' /\ NotHandled(p)'
    BY <1>4, <1>5, <2>1, Zenon DEF NotClaimed, NotHandled, Claimed
  <2>4. \A d \in Conns : wire'[d][p] = IF d = f.conn THEN 1 ELSE 0
    BY <1>1, <1>3, <1>4, <1>8, <2>1 DEF NotSent, Locals
  <2> QED
    BY <1>3, <1>4, <2>1, <2>2, <2>3, <2>4, SentNow, Zenon
<1> QED
  BY <1>7, <1>8, Zenon

(* ClaimIdlePartitions makes the copy of an IDLE partition.                 *)
LEMMA CopyClaim ==
  ASSUME TypeOK, NEW p \in Parts, CopySound(p), NEW l \in Loops, Loop(l),
         ClaimIdlePartitions(l)
  PROVE  CopySound(p)'
<1>1. Locals /\ RunNext(l, SendIdle)
  BY Zenon DEF TypeOK, Locals, ClaimIdlePartitions
<1>2. UNCHANGED <<written, wire, ready>>
      /\ state'[p] = (IF state[p] = "IDLE" THEN "RUNNING" ELSE state[p])
  BY <1>1, Zenon DEF ClaimIdlePartitions, outputs, Locals
<1>3. \A m \in Loops : Handling(m, p)' => Handling(m, p)
  BY HandlingLoop, Zenon
<1>4. CASE state[p] # "IDLE"
  <2>1. \A m \in Loops : Claimed(m, p)' => Claimed(m, p)
    BY <1>1, <1>2, <1>4, Zenon DEF ClaimIdlePartitions, Claimed, Locals
  <2>2. Fewer(p)
    BY <1>1, <1>2, <1>3, <2>1, FirstTaken DEF Fewer, Locals
  <2> QED
    BY <1>1, <1>2, <1>4, <2>2, FewerCopies, Zenon DEF Locals
<1>5. CASE state[p] = "IDLE"
  <2>1. NotClaimed(p) /\ NotQueued(p) /\ NotSent(p) /\ NotHandled(p) /\ p \notin written
    BY <1>5, Zenon DEF CopySound, NoCopy
  <2>2. NotQueued(p)'
    BY <1>1, <2>1, NotQueuedTail, Zenon
  <2>3. NotSent(p)' /\ NotHandled(p)'
    BY <1>2, <1>3, <2>1, Zenon DEF NotSent, NotHandled
  <2>4. \A m \in Loops : Claimed(m, p)' => m = l
    BY <1>1, <1>2, <2>1, Zenon DEF ClaimIdlePartitions, NotClaimed, Claimed, Locals
  <2> QED
    BY <1>2, <1>5, <2>1, <2>2, <2>3, <2>4, ClaimedNow, Zenon
<1> QED
  BY <1>4, <1>5, Zenon

(* A claimed partition is given back, placed, dropped or found to have no   *)
(* device: its copy goes nowhere else.                                      *)
LEMMA CopyGivenBack ==
  ASSUME TypeOK, HandlerInv, NEW p \in Parts, CopySound(p), NEW l \in Loops, Loop(l),
         \/ MarkUnsentIdle(l)
         \/ \E q \in Parts : GiveUp(l, q) \/ ReassignPartitionToDevice(l, q)
  PROVE  CopySound(p)'
<1>1. Locals
  BY Zenon DEF TypeOK, Locals
<1>2. UNCHANGED <<written, wire, queue>>
  BY Zenon DEF MarkUnsentIdle, GiveUp, ReassignPartitionToDevice, outputs
<1>3. \A m \in Loops : Handling(m, p)' => Handling(m, p)
  BY HandlingLoop, Zenon
<1>4. \A m \in Loops : Claimed(m, p)' => Claimed(m, p)
  BY <1>1 DEF MarkUnsentIdle, GiveUp, ReassignPartitionToDevice, Claimed, Locals
<1>5. Fewer(p)
  BY <1>1, <1>2, <1>3, <1>4, SameQueue DEF Fewer, Locals
<1>6. CASE state'[p] = "IDLE" => state[p] = "IDLE"
  BY <1>1, <1>2, <1>5, <1>6, FewerCopies, Zenon DEF Locals
<1>7. CASE state'[p] = "IDLE" /\ state[p] # "IDLE"
  <2>1. Claimed(l, p) /\ ~Claimed(l, p)'
    BY <1>1, <1>7 DEF MarkUnsentIdle, GiveUp, ReassignPartitionToDevice, MarkPartitionIdle,
                      HandlerInv, Claimed, Locals, tracker
  <2>2. /\ \A m \in Loops : Claimed(m, p) => m = l
        /\ NotQueued(p) /\ NotSent(p) /\ NotHandled(p) /\ p \notin written
    BY <2>1, WhereClaimed, Zenon
  <2>3. NotClaimed(p)' /\ NotHandled(p)'
    BY <1>3, <1>4, <2>1, <2>2, Zenon DEF NotClaimed, NotHandled
  <2>4. NotQueued(p)' /\ NotSent(p)'
    BY <1>2, <2>2, Zenon DEF NotQueued, NotSent, QueuedAt
  <2> QED
    BY <1>2, <2>2, <2>3, <2>4, NowhereNow, Zenon DEF NoCopy
<1> QED
  BY <1>6, <1>7, Zenon

(* A placed partition goes to the wire, or to the queue of another loop.    *)
LEMMA CopyToOwner ==
  ASSUME TypeOK, HandlerInv, NobodyLeft, NEW p \in Parts, CopySound(p), NEW l \in Loops,
         Loop(l), NEW q \in Parts, SendToOwner(l, q)
  PROVE  CopySound(p)'
<1> DEFINE c == owner[q]
           f == [conn |-> c, part |-> q]
<1>1. Locals /\ c \in Conns /\ LoopOf[c] \in Loops /\ f \in Functor /\ f.part = q
  BY LoopsAssumption, Zenon DEF TypeOK, Locals, SendToOwner, Functor
<1>2. /\ UNCHANGED <<written, state, batch>> /\ q \in ready[l]
      /\ ready' = [ready EXCEPT ![l] = @ \ {q}]
  BY Zenon DEF SendToOwner, outputs, tracker
<1>3. \/ wire' = [wire EXCEPT ![c][q] = @ + 1] /\ UNCHANGED queue
      \/ QueueInLoop(LoopOf[c], f) /\ UNCHANGED wire
  BY <1>1, Zenon DEF SendToOwner, Sent, NobodyLeft
<1>4. \A m \in Loops : Handling(m, p)' => Handling(m, p)
  BY HandlingLoop, Zenon
<1> HIDE DEF c, f
<1>5. CASE q # p
  <2>1. FewerQueued(p)
    BY <1>1, <1>3, <1>5, SameQueue, OthersAppended, Zenon
  <2>2. \A d \in Conns : wire'[d][p] = wire[d][p] /\ wire[d][p] \in Nat
    BY <1>1, <1>3, <1>5 DEF Locals
  <2>3. \A m \in Loops : Claimed(m, p)' => Claimed(m, p)
    BY <1>1, <1>2, Zenon DEF Claimed, Locals
  <2>4. Fewer(p)
    BY <1>4, <2>1, <2>2, <2>3 DEF Fewer
  <2> QED
    BY <1>1, <1>2, <2>4, FewerCopies, Zenon DEF Locals
<1>6. CASE q = p
  <2>1. Claimed(l, p)
    BY <1>2, <1>6, Zenon DEF Claimed
  <2>2. /\ \A m \in Loops : Claimed(m, p) => m = l
        /\ NotQueued(p) /\ NotSent(p) /\ NotHandled(p) /\ p \notin written /\ state[p] # "IDLE"
    BY <2>1, WhereClaimed, Zenon
  <2>3. NotClaimed(p)'
    BY <1>1, <1>2, <1>6, <2>2, Zenon DEF NotClaimed, Claimed, HandlerInv, Locals
  <2>4. NotHandled(p)'
    BY <1>4, <2>2, Zenon DEF NotHandled
  <2>5. CASE wire' = [wire EXCEPT ![c][q] = @ + 1] /\ UNCHANGED queue
    <3>1. NotQueued(p)'
      BY <2>2, <2>5, Zenon DEF NotQueued, QueuedAt
    <3>2. \A d \in Conns : wire'[d][p] = IF d = c THEN 1 ELSE 0
      BY <1>1, <1>6, <2>2, <2>5 DEF NotSent, Locals
    <3> QED
      BY <1>1, <1>2, <2>2, <2>3, <2>4, <3>1, <3>2, SentNow
  <2>6. CASE QueueInLoop(LoopOf[c], f) /\ UNCHANGED wire
    <3>1. NotSent(p)'
      BY <2>2, <2>6, Zenon DEF NotSent
    <3>2. \A m \in Loops, i \in Nat :
            QueuedAt(m, i, p)' => m = LoopOf[c] /\ i = Len(queue[LoopOf[c]]) + 1
      BY <1>1, <2>2, <2>6, AppendEffect DEF NotQueued
    <3>3. Len(queue[LoopOf[c]]) + 1 \in Nat
      BY <1>1 DEF TypeOK
    <3> QED
      BY <1>1, <1>2, <2>2, <2>3, <2>4, <3>1, <3>2, <3>3, QueuedNow, Zenon
  <2> QED
    BY <1>3, <2>5, <2>6, Zenon
<1> QED
  BY <1>5, <1>6, Zenon

LEMMA CopyNext ==
  ASSUME TypeOK, HandlerInv, FreshInv, NobodyLeft, CopyInv, Leavers = {}, [Next]_vars
  PROVE  CopyInv'
<1>1. ASSUME NEW l \in Loops, Loop(l), NEW p \in Parts PROVE CopySound(p)'
  <2>1. /\ CopySound(p)
        /\ ~MarkDevicePartitionsFailed(l) /\ ~RemoveDeviceConnection(l)
        /\ ~UnregisterDevice(l) /\ ~ConnectionClosedReturn(l)
    BY <1>1, Zenon DEF CopyInv, NobodyLeft, MarkDevicePartitionsFailed, RemoveDeviceConnection,
                UnregisterDevice, ConnectionClosedReturn
  <2> QED
    BY <1>1, <2>1, CopyHandlers, CopySend, CopyClaim, CopyGivenBack, CopyToOwner, Zenon
       DEF Loop, SendIdlePartitions
<1>2. CASE UNCHANGED vars
  <2>1. UNCHANGED <<queue, wire, pc, part, batch, ready, written, state>>
    BY <1>2, Zenon DEF vars, outputs, tracker, handler
  <2>2. \A p \in Parts : CopySound(p)' <=> CopySound(p)
    BY <2>1 DEF CopySound, OneCopy, NoCopy, NotClaimed, NotQueued, NotSent, NotHandled, Claimed,
                QueuedAt, Handling
  <2> QED
    BY <2>2, Zenon DEF CopyInv
<1> QED
  BY <1>1, <1>2, CopyApplication, CopyPeer, Zenon DEF Next, CopyInv

LEMMA NobodyLeftInit == Init => NobodyLeft
  BY Zenon DEF Init, NobodyLeft

LEMMA NobodyLeftNext ==
  ASSUME TypeOK, NobodyLeft, Leavers = {}, [Next]_vars
  PROVE  NobodyLeft'
<1> USE LoopsAssumption DEF tracker, outputs, devices, handler, Goto, Free, NobodyLeft
<1>0. pc \in [Loops -> Labels] /\ link \in [Conns -> {"new", "open", "registered", "closed"}]
  BY Zenon DEF TypeOK
<1>1. CASE Application \/ UNCHANGED vars
  BY <1>1, Zenon DEF Application, Dispatch, DispatchReturn, WaitMatMul, AddPartition, vars
<1>2. ASSUME NEW c \in Conns, Peer(c) PROVE NobodyLeft'
  BY <1>0, <1>2 DEF Peer, Answer, ConnectionSuccess, RegisterDevice, ConnectionClosed,
                    WriteResultBlock
<1>3. ASSUME NEW l \in Loops, Loop(l) PROVE NobodyLeft'
  <2>1. CASE SetDeviceConnection(l) \/ MarkPartitionFinished(l) \/ RemovePartitionByKey(l)
    BY <1>0, <2>1, Zenon DEF SetDeviceConnection, MarkPartitionFinished, RemovePartitionByKey
  <2>2. CASE IncRspCbCount(l) \/ DoPendingFunctors(l) \/ SendInLoop(l)
    BY <1>0, <2>2, Zenon DEF IncRspCbCount, DoPendingFunctors, SendInLoop
  <2>3. CASE ClaimIdlePartitions(l) \/ RedistributePartitions(l) \/ NoDevices(l)
    BY <1>0, <2>3 DEF ClaimIdlePartitions, RedistributePartitions, NoDevices
  <2>4. ASSUME NEW p \in Parts, \/ GiveUp(l, p) \/ ReassignPartitionToDevice(l, p)
                                \/ SendToOwner(l, p) \/ NoConnection(l, p)
        PROVE  NobodyLeft'
    BY <1>0, <2>4 DEF GiveUp, ReassignPartitionToDevice, SendToOwner, NoConnection, AfterSend
  <2>5. CASE MarkUnsentIdle(l)
    BY <1>0, <2>5, Zenon DEF MarkUnsentIdle, AfterSend
  <2>6. /\ ~MarkDevicePartitionsFailed(l) /\ ~RemoveDeviceConnection(l)
        /\ ~UnregisterDevice(l) /\ ~ConnectionClosedReturn(l)
    BY Zenon DEF MarkDevicePartitionsFailed, RemoveDeviceConnection, UnregisterDevice,
           ConnectionClosedReturn
  <2> QED
    BY <1>3, <2>1, <2>2, <2>3, <2>4, <2>5, <2>6, Zenon DEF Loop, SendIdlePartitions
<1> QED
  BY <1>1, <1>2, <1>3, Zenon DEF Next

(***************************************************************************)
(* What WaitMatMul returns, when nobody leaves.                            *)
(***************************************************************************)
LEMMA ReturnInit == Init => ReturnInv
  BY DEF Init, ReturnInv

(* A step that counts nothing and returns no operation.                     *)
LEMMA ReturnKept ==
  ASSUME TypeOK, ReturnInv, UNCHANGED <<count, result>>,
         written \subseteq written', \A o \in Ops : Uncounted(o)' = Uncounted(o),
         \A o \in Ops : /\ app'[o] = "new" <=> app[o] = "new"
                        /\ app'[o] = "returned" => app[o] = "returned"
  PROVE  ReturnInv'
  BY Zenon DEF ReturnInv

LEMMA ReturnApplication ==
  ASSUME Counting, TypeOK, ReturnInv, Application
  PROVE  ReturnInv'
<1>0. count \in [Ops -> Nat] /\ app \in [Ops -> {"new", "adding", "waiting", "returned"}]
      /\ result \in [Ops -> SUBSET Parts]
  BY Zenon DEF TypeOK
<1>1. UNCHANGED <<written, pc, part>>
  BY Zenon DEF Application, Dispatch, DispatchReturn, WaitMatMul, AddPartition, outputs, handler
<1>2. \A u \in Ops : Uncounted(u)' = Uncounted(u)
  BY <1>1, Zenon DEF Uncounted, Handling
<1>3. ASSUME NEW o \in Ops, Dispatch(o) PROVE ReturnInv'
  <2>1. \A u \in Ops : /\ app'[u] = IF u = o THEN "adding" ELSE app[u]
                       /\ count'[u] = IF u = o THEN count[o] + Cardinality(PartsOf(o))
                                      ELSE count[u]
    BY <1>0, <1>3, Zenon DEF Dispatch
  <2>2. Cardinality(Uncounted(o)) <= count[o] + Cardinality(PartsOf(o))
    BY <1>0, UncountedFinite, PartsOfFinite
  <2>3. UNCHANGED result
    BY <1>3, Zenon DEF Dispatch
  <2> QED
    BY <1>1, <1>2, <2>1, <2>2, <2>3, Zenon DEF ReturnInv
<1>4. ASSUME NEW o \in Ops, WaitMatMul(o) PROVE ReturnInv'
  <2>1. \A u \in Ops : /\ app'[u] = IF u = o THEN "returned" ELSE app[u]
                       /\ result'[u] = IF u = o THEN written \cap PartsOf(o) ELSE result[u]
    BY <1>0, <1>4, Zenon DEF WaitMatMul
  <2>2. UNCHANGED count /\ app[o] = "waiting" /\ count[o] = 0
    BY <1>4, Zenon DEF WaitMatMul
  <2>3. Cardinality(Uncounted(o)) = 0
    BY <2>2, UncountedFinite DEF ReturnInv
  <2>4. Uncounted(o) = {}
    BY <2>3, UncountedFinite, NoneLeft, Zenon
  <2>5. PartsOf(o) \subseteq written
    BY <2>4, Zenon DEF Uncounted
  <2> QED
    BY <1>1, <1>2, <2>1, <2>2, <2>5, Zenon DEF ReturnInv
<1>5. CASE (\E o \in Ops : DispatchReturn(o)) \/ (\E p \in Parts : AddPartition(p))
  <2>1. /\ UNCHANGED <<count, result>>
        /\ \A o \in Ops : /\ app'[o] = "new" <=> app[o] = "new"
                          /\ app'[o] = "returned" => app[o] = "returned"
    BY <1>0, <1>5, Zenon DEF DispatchReturn, AddPartition, outputs
  <2> QED
    BY <1>1, <1>2, <2>1, ReturnKept, Zenon
<1> QED
  BY <1>3, <1>4, <1>5, Zenon DEF Application

LEMMA ReturnPeer ==
  ASSUME TypeOK, CopyInv, ReturnInv, NEW c \in Conns, Peer(c)
  PROVE  ReturnInv'
<1>1. UNCHANGED <<app, count, result>>
  BY HandlingPeer, Zenon
<1>2. CASE written' = written /\ \A p \in Parts, m \in Loops : Handling(m, p)' <=> Handling(m, p)
  <2>1. \A o \in Ops : Uncounted(o)' = Uncounted(o)
    BY <1>2, Zenon DEF Uncounted, PartsOf
  <2> QED
    BY <1>1, <1>2, <2>1, ReturnKept, Zenon
<1>3. ASSUME NEW q \in Parts, WriteResultBlock(c, q), written' = written \cup {q},
             \A p \in Parts, m \in Loops :
               Handling(m, p)' <=> Handling(m, p) \/ (m = LoopOf[c] /\ p = q)
      PROVE  ReturnInv'
  <2>1. q \notin written
    BY <1>3, WhereSent DEF CopyInv, WriteResultBlock, TypeOK
  <2>2. \A o \in Ops : Uncounted(o)' = Uncounted(o)
    BY <1>3, <2>1, LoopsAssumption, Zenon DEF Uncounted, PartsOf
  <2> QED
    BY <1>1, <1>3, <2>2, ReturnKept, Zenon
<1> QED
  BY <1>2, <1>3, HandlingPeer, Zenon

LEMMA ReturnLoop ==
  ASSUME Counting, TypeOK, AnswerWritten, CopyInv, ReturnInv, NEW l \in Loops, Loop(l)
  PROVE  ReturnInv'
<1>1. CASE ~IncRspCbCount(l)
  <2>1. UNCHANGED <<app, count, result, written>>
    BY <1>1, LoopFrame, Zenon
  <2>2. \A o \in Ops : Uncounted(o)' = Uncounted(o)
    BY <1>1, <2>1, HandlingLoop, Zenon DEF Uncounted, PartsOf
  <2> QED
    BY <2>1, <2>2, ReturnKept, Zenon
<1>2. CASE IncRspCbCount(l)
  <2> DEFINE q == part[l]
             o == OpOf[q]
  <2>1. /\ q \in Parts /\ o \in Ops /\ q \in written /\ Handling(l, q) /\ count \in [Ops -> Nat]
        /\ \A u \in Ops : count'[u] = IF u = o THEN IF count[o] < 1 THEN 0 ELSE count[o] - 1
                                      ELSE count[u]
    BY <1>2, OpsAssumption DEF IncRspCbCount, TypeOK, AnswerWritten, Handling
  <2>2. UNCHANGED <<app, result, written>>
    BY LoopFrame, Zenon
  <2>3. \A p \in Parts, m \in Loops : Handling(m, p)' <=> Handling(m, p) /\ p # q
    <3>1. \A m \in Loops : Handling(m, q) => m = l
      BY <2>1, Zenon DEF CopyInv, CopySound, OneCopy
    <3>2. \A p \in Parts : Handling(l, p) => p = q
      BY Zenon DEF Handling
    <3> QED
      BY <1>2, <3>1, <3>2, HandlingLoop, Zenon
  <2> HIDE DEF q, o
  <2>4. \A u \in Ops : Uncounted(u)' = Uncounted(u) \ {q}
    BY <2>1, <2>2, <2>3, Zenon DEF Uncounted, PartsOf
  <2>5. \A u \in Ops : q \in Uncounted(u) <=> u = o
    BY <2>1, Zenon DEF Uncounted, PartsOf, o
  <2>6. ASSUME NEW u \in Ops, app'[u] # "new" PROVE Cardinality(Uncounted(u)') <= count'[u]
    <3>1. /\ Cardinality(Uncounted(u)) \in Nat
          /\ Cardinality(Uncounted(u) \ {q}) = IF u = o THEN Cardinality(Uncounted(u)) - 1
                                                ELSE Cardinality(Uncounted(u))
          /\ Cardinality(Uncounted(u) \ {q}) \in Nat
      <4>1. IsFiniteSet(Uncounted(u)) /\ Cardinality(Uncounted(u)) \in Nat
        BY UncountedFinite, Zenon
      <4>2. Cardinality(Uncounted(u) \ {q}) \in Nat
        BY <4>1, FinitePart, Zenon
      <4>3. u = o => Cardinality(Uncounted(u) \ {q}) = Cardinality(Uncounted(u)) - 1
        BY <2>5, <4>1, OneLess, Zenon
      <4>4. u # o => Uncounted(u) \ {q} = Uncounted(u)
        BY <2>5, Zenon
      <4> QED
        BY <4>1, <4>2, <4>3, <4>4, Zenon
    <3>2. Cardinality(Uncounted(u)) <= count[u] /\ count[u] \in Nat
      BY <2>1, <2>2, <2>6, Zenon DEF ReturnInv
    <3>3. Cardinality(Uncounted(u) \ {q}) <= count'[u]
      BY <2>1, <3>1, <3>2
    <3> QED
      BY <2>4, <3>3, Zenon
  <2> QED
    BY <2>2, <2>6, Zenon DEF ReturnInv
<1> QED
  BY <1>1, <1>2, Zenon

LEMMA ReturnNext ==
  ASSUME Counting, TypeOK, AnswerWritten, CopyInv, ReturnInv, [Next]_vars
  PROVE  ReturnInv'
<1>1. CASE UNCHANGED vars
  <2>1. UNCHANGED <<app, count, result, written, pc, part>>
    BY <1>1, Zenon DEF vars, outputs, handler
  <2>2. \A o \in Ops : Uncounted(o)' = Uncounted(o)
    BY <2>1, Zenon DEF Uncounted, Handling
  <2> QED
    BY <2>1, <2>2, ReturnKept, Zenon
<1> QED
  BY <1>1, ReturnApplication, ReturnPeer, ReturnLoop, Zenon DEF Next

(***************************************************************************)
(* The theorems about a fleet nobody leaves.                               *)
(***************************************************************************)
LEMMA StableInit ==
  ASSUME Counting, Init
  PROVE  StableInv
  BY Zenon, InitType, HandlerInit, FreshInit, CountInit, TrackInit, NobodyLeftInit, CopyInit,
     ReturnInit DEF StableInv, ChurnInv

LEMMA StableNext ==
  ASSUME Counting, Leavers = {}, StableInv, [Next]_vars
  PROVE  StableInv'
<1>1. TypeOK /\ HandlerInv /\ FreshInv /\ CountInv /\ TrackInv /\ AnswerWritten /\ NobodyLeft
      /\ CopyInv /\ ReturnInv
  BY Zenon DEF StableInv, ChurnInv, TrackInv
<1>2. TypeOK' /\ TrackInv'
  BY <1>1, NextType, TrackNext, Zenon
<1>3. HandlerInv' /\ FreshInv' /\ CountInv'
  BY <1>1, <1>2, HandlerNext, FreshNext, CountNext, Zenon
<1>4. NobodyLeft' /\ CopyInv' /\ ReturnInv'
  BY <1>1, NobodyLeftNext, CopyNext, ReturnNext, Zenon
<1> QED
  BY <1>2, <1>3, <1>4, Zenon DEF StableInv, ChurnInv

LEMMA OnePlace ==
  ASSUME TypeOK, NEW p \in Parts, CopySound(p)
  PROVE  /\ \A x, y \in Places(p) : x = y
         /\ \A c \in Conns : wire[c][p] <= 1
         /\ state[p] = "IDLE" => Places(p) = {}
<1>1. ASSUME NEW x \in Places(p)
      PROVE  \/ \E l \in Loops : x = <<"claim", l>> /\ Claimed(l, p)
             \/ \E l \in Loops, i \in Nat : x = <<"queue", l, i>> /\ QueuedAt(l, i, p)
             \/ \E c \in Conns : x = <<"wire", c>> /\ wire[c][p] > 0
             \/ \E l \in Loops : x = <<"answer", l>> /\ Handling(l, p)
  <2>1. \A l \in Loops : DOMAIN queue[l] = 1..Len(queue[l]) /\ Len(queue[l]) \in Nat
    BY DEF TypeOK
  <2>2. \A l \in Loops : \A i \in DOMAIN queue[l] : i \in Nat
    BY <2>1
  <2> DEFINE Here(l) == {<<"queue", l, i>> : i \in {i \in DOMAIN queue[l] : queue[l][i].part = p}}
             Claims == {<<"claim", l>> : l \in {l \in Loops : p \in batch[l] \cup ready[l]}}
             Functors == UNION {Here(l) : l \in Loops}
             Wires == {<<"wire", c>> : c \in {c \in Conns : wire[c][p] > 0}}
             Answers == {<<"answer", l>> : l \in {l \in Loops : Handling(l, p)}}
  <2>3. x \in Claims \/ x \in Functors \/ x \in Wires \/ x \in Answers
    <3>1. Places(p) = Claims \cup Functors \cup Wires \cup Answers
      BY Zenon DEF Places
    <3> HIDE DEF Claims, Functors, Wires, Answers
    <3> QED
      BY <1>1, <3>1, Zenon
  <2>4. ASSUME NEW l \in Loops, x \in Here(l)
        PROVE  \E i \in Nat : x = <<"queue", l, i>> /\ QueuedAt(l, i, p)
    BY <2>1, <2>2, <2>4, Zenon DEF QueuedAt
  <2>5. x \in Functors => \E l \in Loops : x \in Here(l)
    BY Zenon
  <2>6. x \in Claims => \E l \in Loops : x = <<"claim", l>> /\ Claimed(l, p)
    BY Zenon DEF Claimed
  <2>7. /\ x \in Wires => \E c \in Conns : x = <<"wire", c>> /\ wire[c][p] > 0
        /\ x \in Answers => \E l \in Loops : x = <<"answer", l>> /\ Handling(l, p)
    BY Zenon
  <2> HIDE DEF Claims, Functors, Wires, Answers, Here
  <2> QED
    BY <2>3, <2>4, <2>5, <2>6, <2>7
<1>2. \A c \in Conns : wire[c][p] > 0 => ~NotSent(p)
  BY DEF NotSent
<1>3. \A l \in Loops : (Claimed(l, p) => ~NotClaimed(p)) /\ (Handling(l, p) => ~NotHandled(p))
  BY Zenon DEF NotClaimed, NotHandled
<1>4. \A l \in Loops, i \in Nat : QueuedAt(l, i, p) => ~NotQueued(p)
  BY Zenon DEF NotQueued
<1>5. state[p] = "IDLE" => Places(p) = {}
  BY <1>1, <1>2, <1>3, <1>4, Zenon DEF CopySound, NoCopy
<1>6. ASSUME NEW x \in Places(p), NEW y \in Places(p) PROVE x = y
  <2> USE <1>1, <1>2, <1>3, <1>4 DEF CopySound, OneCopy
  <2>1. CASE \E l \in Loops : x = <<"claim", l>> /\ Claimed(l, p)
    BY <2>1, Zenon
  <2>2. CASE \E l \in Loops, i \in Nat : x = <<"queue", l, i>> /\ QueuedAt(l, i, p)
    BY <2>2, Zenon
  <2>3. CASE \E c \in Conns : x = <<"wire", c>> /\ wire[c][p] > 0
    BY <2>3, Zenon
  <2>4. CASE \E l \in Loops : x = <<"answer", l>> /\ Handling(l, p)
    BY <2>4, Zenon
  <2> QED
    BY <1>1, <2>1, <2>2, <2>3, <2>4
<1> QED
  BY <1>5, <1>6, Zenon DEF CopySound, OneCopy

(***************************************************************************)
(* The refinement.  Dispatch submits, WriteResultBlock fills and           *)
(* WaitMatMul returns; every other step stutters.                          *)
(***************************************************************************)
Phase == [o \in Ops |-> CASE app[o] = "new" -> "unsubmitted"
                          [] app[o] \in {"adding", "waiting"} -> "submitted"
                          [] app[o] = "returned" -> "returned"]

LEMMA ServiceInitially == Init => Service!ServiceInit
  BY DEF Init, Service!ServiceInit

LEMMA ServiceStep ==
  ASSUME Counting, StableInv, Leavers = {}, [Next]_vars
  PROVE  [Service!ServiceNext]_(Service!svars)
<1> USE DEF tracker, outputs, devices, handler
<1>0. TypeOK /\ TypeOK' /\ FreshInv /\ CopyInv /\ ReturnInv
      /\ app \in [Ops -> {"new", "adding", "waiting", "returned"}]
  BY NextType, Zenon DEF StableInv, ChurnInv, TypeOK
<1>1. ASSUME written' = written, \A o \in Ops : Phase'[o] = Phase[o]
      PROVE  UNCHANGED Service!svars
  BY <1>1, Zenon DEF Phase, Service!svars
<1>2. ASSUME NEW o \in Ops, Dispatch(o) PROVE Service!Submit(o)
  <2>1. app[o] = "new" /\ app' = [app EXCEPT ![o] = "adding"] /\ written' = written
    BY <1>2, Zenon DEF Dispatch
  <2> QED
    BY <1>0, <2>1, Zenon DEF Service!Submit
<1>3. ASSUME NEW o \in Ops, WaitMatMul(o) PROVE Service!Return(o)
  <2>1. app[o] = "waiting" /\ app' = [app EXCEPT ![o] = "returned"] /\ written' = written
    BY <1>3, Zenon DEF WaitMatMul
  <2>2. PartsOf(o) \subseteq written'
    BY <1>0, <1>3, <2>1, ReturnApplication, Zenon DEF Application, ReturnInv
  <2> QED
    BY <1>0, <2>1, <2>2, Zenon DEF Service!Return, Service!BlocksOf, PartsOf
<1>4. ASSUME NEW c \in Conns, NEW p \in Parts, WriteResultBlock(c, p) PROVE Service!Fill(p)
  <2>1. /\ wire[c][p] > 0 /\ written' = written \cup {p} /\ app' = app /\ OpOf[p] \in Ops
        /\ wire \in [Conns -> [Parts -> Nat]]
    BY <1>0, <1>4, OpsAssumption, Zenon DEF WriteResultBlock, TypeOK
  <2>2. p \notin written
    BY <1>0, <2>1, WhereSent, Zenon DEF CopyInv
  <2>3. app[OpOf[p]] # "new"
    BY <1>0, <2>1 DEF FreshInv, Fresh, NoCopy, NotSent
  <2>4. app[OpOf[p]] # "returned"
    BY <1>0, <2>1, <2>2, Zenon DEF ReturnInv, PartsOf
  <2> QED
    BY <1>0, <2>1, <2>2, <2>3, <2>4 DEF Service!Fill
<1>5. ASSUME NEW o \in Ops, DispatchReturn(o) PROVE UNCHANGED Service!svars
  <2>1. app[o] = "adding" /\ app' = [app EXCEPT ![o] = "waiting"] /\ written' = written
    BY <1>5, Zenon DEF DispatchReturn
  <2>2. \A u \in Ops : Phase'[u] = Phase[u]
    BY <1>0, <2>1, Zenon DEF Phase
  <2> QED
    BY <1>1, <2>1, <2>2, Zenon
<1>6. ASSUME UNCHANGED <<app, written>> PROVE UNCHANGED Service!svars
  BY <1>6 DEF Service!svars
<1>7. CASE Application
  <2>1. ASSUME NEW p \in Parts, AddPartition(p) PROVE UNCHANGED Service!svars
    BY <1>6, <2>1, Zenon DEF AddPartition
  <2> QED
    BY <1>2, <1>3, <1>5, <1>7, <2>1, Zenon DEF Application, Service!ServiceNext
<1>8. ASSUME NEW l \in Loops, Loop(l) PROVE UNCHANGED Service!svars
  BY <1>6, <1>8, LoopFrame, Zenon
<1>9. ASSUME NEW c \in Conns, Peer(c) PROVE [Service!ServiceNext]_(Service!svars)
  <2>1. CASE Answer(c)
    BY <1>4, <2>1, Zenon DEF Answer, Service!ServiceNext
  <2>2. CASE ConnectionSuccess(c) \/ RegisterDevice(c) \/ ConnectionClosed(c)
    BY <1>6, <2>2, Zenon DEF ConnectionSuccess, RegisterDevice, ConnectionClosed
  <2> QED
    BY <1>9, <2>1, <2>2, Zenon DEF Peer
<1>10. CASE UNCHANGED vars
  BY <1>6, <1>10, Zenon DEF vars
<1> QED
  BY <1>7, <1>8, <1>9, <1>10, Zenon DEF Next

(***************************************************************************)
(* The counting facts, from the library of theorems about finite sets.  It *)
(* instantiates the module FiniteSets anew, so the two lemmas that say what *)
(* Finite and Count are come first: both definitions say the same.         *)
(***************************************************************************)
LEMMA FiniteIs ==
  ASSUME NEW S
  PROVE  Finite(S) <=> \E q \in Seq(S) : \A x \in S : \E n \in 1..Len(q) : q[n] = x
  BY Zenon DEF IsFiniteSet, Finite

LEMMA CountIs ==
  ASSUME NEW S
  PROVE  Count(S) = LET CS[T \in SUBSET S] ==
                          IF T = {} THEN 0 ELSE 1 + CS[T \ {CHOOSE x : x \in T}]
                    IN CS[S]
  BY Zenon DEF Cardinality, Count

LOCAL INSTANCE FiniteSetTheorems

LEMMA SameCount ==
  ASSUME NEW S
  PROVE  Count(S) = Cardinality(S) /\ (Finite(S) <=> IsFiniteSet(S))
<1>1. Count(S) = Cardinality(S)
  BY CountIs, Zenon DEF Cardinality
<1>2. Finite(S) <=> IsFiniteSet(S)
  BY FiniteIs DEF IsFiniteSet
<1> QED
  BY <1>1, <1>2

LEMMA CountingHolds == Counting
<1>1. \A S : Finite(S) => Count(S) \in Nat
  BY SameCount, FS_CardinalityType
<1>2. \A S, T : Finite(S) /\ T \subseteq S => Finite(T) /\ Count(T) <= Count(S)
  BY SameCount, FS_Subset
<1>3. Count({}) = 0 /\ \A S : Finite(S) /\ Count(S) = 0 => S = {}
  BY SameCount, FS_EmptySet, Zenon
<1>4. \A S, x : Finite(S) /\ x \in S => Count(S \ {x}) = Count(S) - 1
  BY SameCount, FS_RemoveElement, Zenon
<1>5. \A S, x : Finite(S) => Finite(S \cup {x}) /\ Count(S \cup {x}) <= Count(S) + 1
  BY <1>1, SameCount, FS_AddElement
<1> QED
  BY <1>1, <1>2, <1>3, <1>4, <1>5, Zenon DEF Counting

(***************************************************************************)
(* The theorems.                                                           *)
(***************************************************************************)
(* The state of the dispatcher is well typed; in particular the response   *)
(* count, which IncRspCbCount clamps, never goes below 0.                  *)
THEOREM TypeCorrect == Spec => []TypeOK
<1>1. TypeOK /\ [Next]_vars => TypeOK'
  BY CountingHolds, NextType, Zenon
<1> QED
  BY <1>1, InitType, PTL DEF Spec

(* However many devices come and go, no partition is dropped from the      *)
(* tracker before its block of the output holds a result.                  *)
THEOREM NeverDropped == Spec => []TrackedUntilWritten
<1>1. TrackInv /\ [Next]_vars => TrackInv'
  BY CountingHolds, TrackNext
<1>2. TrackInv => TrackedUntilWritten
  BY Zenon DEF TrackInv
<1> QED
  BY <1>1, <1>2, TrackInit, PTL DEF Spec

(* An operation whose blocks are all written, and none being taken in, has  *)
(* its count at 0, however connections come and go and however often its    *)
(* partitions were sent: IncRspCbCount is called for every block written,   *)
(* and clamps the count for the ones written twice.                         *)
THEOREM CountIsSound == Spec => []CompleteIsCounted
<1>1. Init => ChurnInv
  BY CountingHolds, ChurnInit
<1>2. ChurnInv /\ [Next]_vars => ChurnInv'
  BY CountingHolds, ChurnNext, Zenon
<1>3. ChurnInv => CompleteIsCounted
  BY CountingHolds, ChurnCounts
<1> QED
  BY <1>1, <1>2, <1>3, PTL DEF Spec

(* When no device leaves, no partition is claimed, queued, sent or answered *)
(* twice, whatever the loops interleave: ClaimIdlePartitions takes IDLE     *)
(* partitions only, and a partition that has a copy anywhere is not IDLE.   *)
THEOREM SendsOnce ==
  ASSUME Leavers = {}
  PROVE  Spec => []SentOnce
<1>0. Init => StableInv
  BY CountingHolds, StableInit
<1>1. StableInv /\ [Next]_vars => StableInv'
  BY CountingHolds, StableNext
<1>2. StableInv => SentOnce
  BY OnePlace DEF StableInv, ChurnInv, CopyInv, SentOnce
<1> QED
  BY <1>0, <1>1, <1>2, PTL DEF Spec

(* When no device leaves, WaitMatMul returns a tensor in which every block  *)
(* holds its result: rsp_cb_counts_ is then exactly the number of blocks    *)
(* not yet written or still being taken in, so it is 0 for no other reason. *)
THEOREM ReturnsComplete ==
  ASSUME Leavers = {}
  PROVE  Spec => []WaitReturnsComplete
<1>0. Init => StableInv
  BY CountingHolds, StableInit, Zenon
<1>1. StableInv /\ [Next]_vars => StableInv'
  BY CountingHolds, StableNext, Zenon
<1>2. StableInv => WaitReturnsComplete
  BY Zenon DEF StableInv, ReturnInv, WaitReturnsComplete
<1> QED
  BY <1>0, <1>1, <1>2, PTL DEF Spec

(* When no device leaves, the proxy implements MatMulService: each block is *)
(* filled once, while its operation is submitted and not returned, and an   *)
(* operation returns only when all its blocks are filled.                   *)
THEOREM Implements ==
  ASSUME Leavers = {}
  PROVE  Spec => ImplementsService
<1>0. Init => StableInv
  BY CountingHolds, StableInit, Zenon
<1>1. StableInv /\ [Next]_vars => StableInv'
  BY CountingHolds, StableNext, Zenon
<1>2. StableInv /\ [Next]_vars => [Service!ServiceNext]_(Service!svars)
  BY CountingHolds, ServiceStep, Zenon
<1> QED
  BY <1>0, <1>1, <1>2, ServiceInitially, PTL
     DEF Spec, ImplementsService, Service!ServiceSpec
==============================================================================
