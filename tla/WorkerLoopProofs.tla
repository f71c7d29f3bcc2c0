-------------------------- MODULE WorkerLoopProofs ---------------------------
(***************************************************************************)
(* Proofs about the two threads that run what others queue:                *)
(* - EventLoop, for any number of posters: no wakeup is lost, and          *)
(*   everything queued runs once and in order;                             *)
(* - WorkerBase, for any set of tasks and of waiting threads.              *)
(***************************************************************************)
EXTENDS EventLoop, WorkerBase, TLAPS

(***************************************************************************)
(* The event loop.                                                         *)
(***************************************************************************)
(* The type invariant of the hand-over of work to a UeventLoop.             *)
THEOREM LoopTypeCorrect == LoopSpec => []LoopTypeOK
<1>1. LoopInit => LoopTypeOK
  BY DEF LoopInit, LoopTypeOK, Kinds
<1>2. LoopTypeOK /\ [LoopNext]_loopVars => LoopTypeOK'
  <2> SUFFICES ASSUME LoopTypeOK, [LoopNext]_loopVars
               PROVE  LoopTypeOK'
    BY Zenon
  <2> USE DEF LoopTypeOK
  <2>1. ASSUME NEW t \in Posters, NEW k \in Kinds, QueueInLoop(t, k)
        PROVE  LoopTypeOK'
    BY <2>1 DEF QueueInLoop
  <2>2. ASSUME NEW t \in Posters, Wakeup(t)
        PROVE  LoopTypeOK'
    BY <2>2 DEF Wakeup
  <2>3. CASE WakeupReadCb
    BY <2>3, Zenon DEF WakeupReadCb
  <2>4. CASE SwapPendingFunctors
    BY <2>4 DEF SwapPendingFunctors
  <2>5. ASSUME NEW k \in Kinds, RunPending(k)
        PROVE  LoopTypeOK'
    BY <2>5 DEF RunPending
  <2>6. CASE Return
    BY <2>6, Zenon DEF Return
  <2>7. CASE UNCHANGED loopVars
    BY <2>7, Zenon DEF loopVars
  <2> QED
    BY <2>1, <2>2, <2>3, <2>4, <2>5, <2>6, <2>7, Zenon DEF LoopNext, LoopStep
<1> QED
  BY <1>1, <1>2, PTL DEF LoopSpec

(* No wakeup is lost: writing the eventfd only when the list was empty is  *)
(* enough, because a list that is not empty has had its wakeup since the   *)
(* last swap.                                                              *)
THEOREM WakeupNotLost == LoopSpec => []WakeupPending
<1>1. LoopInit => WakeupPending
  BY Zenon DEF LoopInit, WakeupPending, Kinds
<1>2. LoopTypeOK /\ WakeupPending /\ [LoopNext]_loopVars => WakeupPending'
  <2> SUFFICES ASSUME LoopTypeOK, WakeupPending, [LoopNext]_loopVars
               PROVE  WakeupPending'
    BY Zenon
  <2> USE DEF LoopTypeOK, WakeupPending
  <2>1. ASSUME NEW t \in Posters, NEW k \in Kinds, QueueInLoop(t, k)
        PROVE  WakeupPending'
    <3>1. CASE pending[k] = <<>>
      BY <2>1, <3>1, Zenon DEF QueueInLoop
    <3>2. CASE pending[k] # <<>>
      BY <2>1, <3>2, Zenon DEF QueueInLoop
    <3> QED
      BY <3>1, <3>2, Zenon
  <2>2. ASSUME NEW t \in Posters, Wakeup(t)
        PROVE  WakeupPending'
    BY <2>2 DEF Wakeup
  <2>3. CASE WakeupReadCb
    BY <2>3, Zenon DEF WakeupReadCb
  <2>4. CASE SwapPendingFunctors
    BY <2>4, Zenon DEF SwapPendingFunctors
  <2>5. ASSUME NEW k \in Kinds, RunPending(k)
        PROVE  WakeupPending'
    BY <2>5, Zenon DEF RunPending
  <2>6. CASE Return
    BY <2>6, Zenon DEF Return
  <2>7. CASE UNCHANGED loopVars
    BY <2>7, Zenon DEF loopVars
  <2> QED
    BY <2>1, <2>2, <2>3, <2>4, <2>5, <2>6, <2>7, Zenon DEF LoopNext, LoopStep
<1> QED
  BY <1>1, <1>2, LoopTypeCorrect, PTL DEF LoopSpec

(* A list that continues a count is continued by what QueueInLoop pushes,  *)
(* and by what is left once its first element ran.                         *)
LEMMA PushContinues ==
  ASSUME NEW s \in Seq(Nat), NEW b \in Nat, \A i \in 1..Len(s) : s[i] = b + i
  PROVE  LET u == Append(s, b + Len(s) + 1) IN
         /\ Len(u) = Len(s) + 1
         /\ \A i \in 1..Len(u) : u[i] = b + i
OBVIOUS

LEMMA TailContinues ==
  ASSUME NEW s \in Seq(Nat), NEW b \in Nat, s # <<>>,
         \A i \in 1..Len(s) : s[i] = b + i
  PROVE  /\ Len(Tail(s)) = Len(s) - 1
         /\ \A i \in 1..Len(Tail(s)) : Tail(s)[i] = b + 1 + i
OBVIOUS

(* DoPendingFunctors starts with empty local lists.                         *)
BatchDone == pc # "run" => \A k \in Kinds : batch[k] = <<>>

(* The count of one list.                                                   *)
Ordered(k) ==
  /\ posted[k] = run[k] + Len(batch[k]) + Len(pending[k])
  /\ \A i \in 1..Len(batch[k]) : batch[k][i] = run[k] + i
  /\ \A i \in 1..Len(pending[k]) : pending[k][i] = run[k] + Len(batch[k]) + i

(* Everything queued runs once and in the order it was queued; the swap    *)
(* finds nothing left of the previous batch, which is what makes it so.    *)
THEOREM OrderKept == LoopSpec => []InOrderOnce
<1> DEFINE IInv == (\A k \in Kinds : Ordered(k)) /\ BatchDone
<1>1. LoopInit => IInv
  BY DEF LoopInit, Ordered, BatchDone, Kinds
<1>2. LoopTypeOK /\ IInv /\ [LoopNext]_loopVars => IInv'
  <2> SUFFICES ASSUME LoopTypeOK, IInv, [LoopNext]_loopVars
               PROVE  IInv'
    BY Zenon
  <2>0. ASSUME NEW j \in Kinds, UNCHANGED <<posted[j], run[j], batch[j], pending[j]>>
        PROVE  Ordered(j)'
    BY <2>0, Zenon DEF Ordered
  <2>1. ASSUME NEW t \in Posters, NEW k \in Kinds, QueueInLoop(t, k)
        PROVE  IInv'
    <3>1. BatchDone'
      BY <2>1, Zenon DEF QueueInLoop, BatchDone
    <3>2. /\ pending[k] \in Seq(Nat) /\ batch[k] \in Seq(Nat)
          /\ run[k] + Len(batch[k]) \in Nat
      BY DEF LoopTypeOK
    <3>3. /\ pending'[k] = Append(pending[k], run[k] + Len(batch[k])
                                               + Len(pending[k]) + 1)
          /\ posted'[k] = posted[k] + 1 /\ run' = run /\ batch' = batch
      BY <2>1, Zenon DEF QueueInLoop, LoopTypeOK, Ordered
    <3>4. /\ Len(pending'[k]) = Len(pending[k]) + 1
          /\ \A i \in 1..Len(pending'[k]) :
               pending'[k][i] = run[k] + Len(batch[k]) + i
      BY <3>2, <3>3, PushContinues DEF Ordered
    <3>5. Ordered(k)'
      BY <3>2, <3>3, <3>4 DEF Ordered, LoopTypeOK
    <3>6. ASSUME NEW j \in Kinds, j # k
          PROVE  UNCHANGED <<posted[j], run[j], batch[j], pending[j]>>
      BY <2>1, <3>6, Zenon DEF QueueInLoop, LoopTypeOK
    <3> QED
      BY <3>1, <3>5, <3>6, <2>0, Zenon
  <2>2. ASSUME UNCHANGED <<pending, posted, batch, run>>, BatchDone'
        PROVE  IInv'
    BY <2>2, <2>0, Zenon
  <2>3. ASSUME NEW t \in Posters, Wakeup(t)
        PROVE  IInv'
    BY <2>2, <2>3, Zenon DEF Wakeup, BatchDone
  <2>4. CASE WakeupReadCb
    BY <2>2, <2>4, Zenon DEF WakeupReadCb, BatchDone
  <2>5. CASE SwapPendingFunctors
    <3>1. ASSUME NEW k \in Kinds
          PROVE  Ordered(k)'
      <4>1. batch[k] = <<>> /\ Ordered(k)
        BY <2>5, Zenon DEF SwapPendingFunctors, BatchDone
      <4>2. /\ batch'[k] = pending[k] /\ pending'[k] = <<>>
            /\ posted' = posted /\ run' = run
        BY <2>5, Zenon DEF SwapPendingFunctors
      <4>3. run[k] \in Nat /\ pending[k] \in Seq(Nat)
        BY Zenon DEF LoopTypeOK
      <4> QED
        BY <4>1, <4>2, <4>3 DEF Ordered
    <3> QED
      BY <2>5, <3>1, Zenon DEF SwapPendingFunctors, BatchDone
  <2>6. ASSUME NEW k \in Kinds, RunPending(k)
        PROVE  IInv'
    <3>1. /\ batch'[k] = Tail(batch[k]) /\ batch[k] # <<>> /\ run'[k] = run[k] + 1
          /\ pending' = pending /\ posted' = posted /\ pc' = "run"
      BY <2>6, Zenon DEF RunPending, LoopTypeOK
    <3>2. batch[k] \in Seq(Nat) /\ pending[k] \in Seq(Nat) /\ run[k] \in Nat
      BY Zenon DEF LoopTypeOK
    <3>3. \A i \in 1..Len(batch[k]) : batch[k][i] = run[k] + i
      BY Zenon DEF Ordered
    <3>4. /\ Len(batch'[k]) = Len(batch[k]) - 1
          /\ \A i \in 1..Len(batch'[k]) : batch'[k][i] = run[k] + 1 + i
      <4>1. /\ Len(Tail(batch[k])) = Len(batch[k]) - 1
            /\ \A i \in 1..Len(Tail(batch[k])) :
                 Tail(batch[k])[i] = run[k] + 1 + i
        BY <3>1, <3>2, <3>3, TailContinues, Zenon
      <4> QED
        BY <3>1, <4>1, Zenon
    <3>5. run'[k] + Len(batch'[k]) = run[k] + Len(batch[k])
      BY <3>1, <3>2, <3>4
    <3>6. /\ posted[k] = run[k] + Len(batch[k]) + Len(pending[k])
          /\ \A i \in 1..Len(pending[k]) : pending[k][i] = run[k] + Len(batch[k]) + i
      BY Zenon DEF Ordered
    <3>7. Ordered(k)'
      BY <3>1, <3>4, <3>5, <3>6, Zenon DEF Ordered
    <3>8. ASSUME NEW j \in Kinds, j # k
          PROVE  UNCHANGED <<posted[j], run[j], batch[j], pending[j]>>
      BY <2>6, <3>8, Zenon DEF RunPending, LoopTypeOK
    <3> QED
      BY <3>1, <3>8, <3>7, <2>0, Zenon DEF BatchDone
  <2>7. CASE Return
    BY <2>2, <2>7, Zenon DEF Return, BatchDone
  <2>8. CASE UNCHANGED loopVars
    BY <2>2, <2>8, Zenon DEF loopVars, BatchDone
  <2> QED
    BY <2>1, <2>3, <2>4, <2>5, <2>6, <2>7, <2>8, Zenon DEF LoopNext, LoopStep
<1>3. IInv => InOrderOnce
  BY Zenon DEF InOrderOnce, Ordered
<1> QED
  BY <1>1, <1>2, <1>3, LoopTypeCorrect, PTL DEF LoopSpec

(***************************************************************************)
(* The worker.                                                             *)
(***************************************************************************)
Queued(t) == \E i \in 1..Len(tasks) : tasks[i] = t

(* What the worker has in hand: a task that was added, and that ran once    *)
(* its function returned.                                                   *)
InHand ==
  /\ worker \in {"run", "complete", "erase", "notify", "call"}
       => cur \in Tasks /\ adder[cur] # "new"
  /\ worker \in {"complete", "erase", "notify", "call"} => cur \in ran

(* task_count_ counts the queue and the task whose function is running.     *)
Counted == count = Len(tasks) + (IF worker = "run" THEN 1 ELSE 0)

(* A task that was added is queued, running or has run, and its id is       *)
(* listed until it has run.                                                 *)
NotLost ==
  /\ \A i \in 1..Len(tasks) : adder[tasks[i]] # "new"
  /\ \A t \in Tasks : adder[t] # "new" =>
       /\ Queued(t) \/ (worker = "run" /\ cur = t) \/ t \in ran
       /\ t \in task_ids \/ t \in ran

QueueInv == TypeOK /\ InHand /\ Counted /\ NotLost

LEMMA QueueInit == Init => QueueInv
<1> SUFFICES ASSUME Init PROVE QueueInv
  BY Zenon
<1>1. tasks = <<>> /\ Len(tasks) = 0
  BY Zenon DEF Init
<1>2. TypeOK
  BY AllAssumption DEF Init, TypeOK
<1>3. InHand /\ Counted /\ NotLost
  BY <1>1 DEF Init, InHand, Counted, NotLost
<1> QED
  BY <1>2, <1>3, Zenon DEF QueueInv

(* AddTask puts the task at the end of the queue, counts and lists it.      *)
LEMMA QueueAdd ==
  ASSUME QueueInv, NEW t \in Tasks, NEW c \in {"none", "added"}, AddTask(t, c)
  PROVE  QueueInv'
<1> USE DEF QueueInv, stateVars, runVars, waitVars
<1>1. /\ Len(tasks') = Len(tasks) + 1
      /\ \A i \in 1..Len(tasks) : tasks'[i] = tasks[i]
      /\ tasks'[Len(tasks) + 1] = t
      /\ tasks' \in Seq(Tasks) /\ Len(tasks) \in Nat
  BY DEF AddTask, TypeOK
<1>2. TypeOK'
  BY <1>1 DEF AddTask, TypeOK
<1>3. InHand' /\ Counted'
  BY <1>1 DEF AddTask, TypeOK, InHand, Counted
<1>4. NotLost'
  <2>1. \A u \in Tasks : Queued(u) => Queued(u)'
    BY <1>1 DEF Queued
  <2>2. Queued(t)'
    BY <1>1 DEF Queued
  <2>3. \A i \in 1..Len(tasks') : adder'[tasks'[i]] # "new"
    <3> SUFFICES ASSUME NEW i \in 1..Len(tasks') PROVE adder'[tasks'[i]] # "new"
      BY Zenon
    <3>1. tasks'[i] = t \/ (i \in 1..Len(tasks) /\ tasks'[i] = tasks[i])
      BY <1>1
    <3> QED
      BY <3>1 DEF NotLost, TypeOK, AddTask
  <2>4. \A u \in Tasks : adder'[u] # "new" => u = t \/ adder[u] # "new"
    BY Zenon DEF AddTask, TypeOK
  <2> QED
    BY <2>1, <2>2, <2>3, <2>4, Zenon DEF NotLost, AddTask
<1> QED
  BY <1>2, <1>3, <1>4, Zenon

(* The worker takes the head of the queue, runs it and takes its id off.    *)
LEMMA QueueRun ==
  ASSUME QueueInv, Run
  PROVE  QueueInv'
<1> USE DEF QueueInv, queueVars, stateVars, runVars, waitVars
<1>1. CASE RunWait /\ worker' = "run"
  <2>1. /\ tasks # <<>> /\ cur' = Head(tasks) /\ tasks' = Tail(tasks)
        /\ worker = "check"
    BY <1>1, Zenon DEF RunWait
  <2>2. /\ Len(tasks') = Len(tasks) - 1 /\ Len(tasks) \in Nat \ {0}
        /\ \A i \in 1..Len(tasks') : tasks'[i] = tasks[i + 1]
        /\ tasks' \in Seq(Tasks) /\ cur' = tasks[1] /\ cur' \in Tasks
    BY <2>1 DEF TypeOK
  <2>3. TypeOK' /\ Counted'
    BY <1>1, <2>1, <2>2 DEF RunWait, TypeOK, Counted
  <2>4. InHand'
    BY <1>1, <2>1, <2>2 DEF RunWait, InHand, NotLost
  <2>5. \A u \in Tasks : Queued(u) => Queued(u)' \/ cur' = u
    <3> SUFFICES ASSUME NEW u \in Tasks, Queued(u), cur' # u
                 PROVE  Queued(u)'
      BY Zenon
    <3>1. PICK i \in 1..Len(tasks) : tasks[i] = u
      BY Zenon DEF Queued
    <3>2. i - 1 \in 1..Len(tasks') /\ tasks'[i - 1] = u
      BY <2>2, <3>1
    <3> QED
      BY <3>2, Zenon DEF Queued
  <2>6. NotLost'
    BY <1>1, <2>1, <2>2, <2>5 DEF RunWait, NotLost
  <2> QED
    BY <2>3, <2>4, <2>6, Zenon
<1>2. CASE RunWait /\ worker' # "run"
  BY <1>2, Zenon DEF RunWait, TypeOK, InHand, Counted, NotLost, Queued
<1>3. CASE RunTask
  BY <1>3 DEF RunTask, TypeOK, InHand, Counted, NotLost, Queued
<1>4. CASE RunComplete
  BY <1>4, Zenon DEF RunComplete, TypeOK, InHand, Counted, NotLost, Queued
<1>5. CASE RunErase
  BY <1>5, Zenon DEF RunErase, TypeOK, InHand, Counted, NotLost, Queued
<1>6. CASE RunNotify
  BY <1>6, Zenon DEF RunNotify, WakeWaiters, TypeOK, InHand, Counted, NotLost, Queued
<1>7. CASE RunCallback
  BY <1>7 DEF RunCallback, TypeOK, InHand, Counted, NotLost, Queued
<1> QED
  BY <1>1, <1>2, <1>3, <1>4, <1>5, <1>6, <1>7, Zenon DEF Run

(* The other threads leave the queue and the worker's task alone: AddTask's *)
(* notify_all, OnComplete, WaitTaskDone and Stop.                           *)
LEMMA QueueFrame ==
  ASSUME QueueInv, TypeOK',
         UNCHANGED <<tasks, task_ids, count, ran, cur>>,
         \A t \in Tasks : adder[t] # "new" <=> adder'[t] # "new",
         worker' = worker \/ (worker = "asleep" /\ worker' = "check")
  PROVE  QueueInv'
<1> USE DEF QueueInv
<1>1. InHand' /\ Counted'
  BY Zenon DEF TypeOK, InHand, Counted
<1>2. \A i \in 1..Len(tasks) : tasks[i] \in Tasks
  BY DEF TypeOK
<1>3. NotLost'
  BY <1>2, Zenon DEF NotLost, Queued
<1> QED
  BY <1>1, <1>3, Zenon

LEMMA QueueOthers ==
  ASSUME QueueInv,
         \/ \E t \in Tasks : AddTaskReturn(t) \/ OnComplete(t)
         \/ \E w \in Waiters : WaitCheck(w) \/ \E t \in Tasks \cup {All} : WaitTaskDone(w, t)
         \/ Stop \/ StopNotify \/ StopJoin
  PROVE  QueueInv'
<1> USE DEF QueueInv, queueVars, stateVars, runVars, waitVars
<1>1. ASSUME NEW t \in Tasks, AddTaskReturn(t) PROVE QueueInv'
  <2>1. TypeOK'
    BY <1>1, Zenon DEF AddTaskReturn, NotifyAll, WakeWaiters, TypeOK
  <2> QED
    BY <1>1, <2>1, QueueFrame DEF AddTaskReturn, NotifyAll, TypeOK
<1>2. ASSUME NEW t \in Tasks, OnComplete(t) PROVE QueueInv'
  <2>1. Append(calls[t], "late") \in Seq({"added", "late"})
    BY DEF TypeOK
  <2>2. calls' \in [Tasks -> Seq({"added", "late"})]
    BY <1>2, <2>1, Zenon DEF OnComplete, TypeOK
  <2>3. TypeOK'
    BY <1>2, <2>2, ZenonT(30) DEF OnComplete, TypeOK
  <2> QED
    BY <1>2, <2>3, QueueFrame, Zenon DEF OnComplete
<1>3. ASSUME NEW w \in Waiters, WaitCheck(w) PROVE QueueInv'
  <2>1. TypeOK'
    BY <1>3 DEF WaitCheck, TypeOK
  <2> QED
    BY <1>3, <2>1, QueueFrame, Zenon DEF WaitCheck
<1>4. ASSUME NEW w \in Waiters, NEW t \in Tasks \cup {All}, WaitTaskDone(w, t)
      PROVE  QueueInv'
  <2>1. TypeOK'
    BY <1>4 DEF WaitTaskDone, TypeOK
  <2> QED
    BY <1>4, <2>1, QueueFrame, Zenon DEF WaitTaskDone
<1>5. CASE Stop \/ StopJoin
  <2>1. TypeOK'
    BY <1>5 DEF Stop, StopJoin, TypeOK
  <2> QED
    BY <1>5, <2>1, QueueFrame, Zenon DEF Stop, StopJoin
<1>6. CASE StopNotify
  <2>1. TypeOK'
    BY <1>6, Zenon DEF StopNotify, NotifyAll, WakeWaiters, TypeOK
  <2> QED
    BY <1>6, <2>1, QueueFrame, Zenon DEF StopNotify, NotifyAll
<1> QED
  BY <1>1, <1>2, <1>3, <1>4, <1>5, <1>6, Zenon

LEMMA QueueNext == QueueInv /\ [Next]_vars => QueueInv'
<1> SUFFICES ASSUME QueueInv, [Next]_vars PROVE QueueInv'
  BY Zenon
<1>1. CASE UNCHANGED vars
  BY <1>1 DEF QueueInv, TypeOK, InHand, Counted, NotLost, Queued, vars, queueVars,
              stateVars, runVars, waitVars
<1> QED
  BY <1>1, QueueAdd, QueueRun, QueueOthers, Zenon DEF Next

(* The type invariant; task_count_, which is decremented outside the lock,  *)
(* does not go below zero.                                                  *)
THEOREM TypeCorrect == Spec => []TypeOK
  BY QueueInit, QueueNext, PTL DEF Spec, QueueInv

(***************************************************************************)
(* Waits.                                                                  *)
(***************************************************************************)
(* A wait owes only tasks that were added and that its target covers, and   *)
(* it returns before Stop with all of them run.                             *)
WaitInv ==
  \A w \in Waiters :
    /\ \A u \in owed[w] : adder[u] # "new" /\ target[w] \in {All, u}
    /\ waiter[w] = "returned" /\ ~quit => owed[w] \subseteq ran

LEMMA DoneMeansRun ==
  ASSUME QueueInv, WaitInv, NEW w \in Waiters, Done(w), ~quit
  PROVE  owed[w] \subseteq ran
<1> SUFFICES ASSUME NEW u \in owed[w] PROVE u \in ran
  BY Zenon
<1>1. u \in Tasks /\ adder[u] # "new" /\ target[w] \in {All, u}
  BY Zenon DEF QueueInv, TypeOK, WaitInv
<1>2. CASE target[w] = All
  <2>1. Len(tasks) = 0 /\ worker # "run"
    BY <1>2 DEF Done, QueueInv, Counted
  <2> QED
    BY <1>1, <2>1 DEF QueueInv, NotLost, Queued
<1>3. CASE target[w] # All
  BY <1>1, <1>3, Zenon DEF Done, QueueInv, NotLost
<1> QED
  BY <1>2, <1>3, Zenon

(* WaitTaskDone returns only when the tasks it waits for were run, unless   *)
(* the pool is stopped, whatever is added, run and completed meanwhile.     *)
THEOREM WaitsAreSound == Spec => []WaitMeansDone
<1> USE DEF queueVars, stateVars, runVars, waitVars
<1>1. Init => WaitInv
  BY Zenon DEF Init, WaitInv
<1>2. QueueInv /\ WaitInv /\ [Next]_vars => WaitInv'
  <2> SUFFICES ASSUME QueueInv, WaitInv, [Next]_vars PROVE WaitInv'
    BY Zenon
  <2>1. ASSUME UNCHANGED waitVars, ran \subseteq ran', quit => quit',
               \A t \in Tasks : adder[t] # "new" => adder'[t] # "new",
               \A w \in Waiters : waiter'[w] = "returned" => waiter[w] = "returned"
        PROVE  WaitInv'
    BY <2>1 DEF WaitInv, QueueInv, TypeOK
  <2>2. ASSUME NEW t \in Tasks, NEW c \in {"none", "added"}, AddTask(t, c)
        PROVE  WaitInv'
    BY <2>1, <2>2, Zenon DEF AddTask, QueueInv, TypeOK, quit
  <2>3. ASSUME NEW t \in Tasks, AddTaskReturn(t) \/ OnComplete(t)
        PROVE  WaitInv'
    BY <2>1, <2>3 DEF AddTaskReturn, OnComplete, NotifyAll, WakeWaiters, QueueInv,
                      TypeOK, quit
  <2>4. CASE Run
    BY <2>1, <2>4, Zenon DEF Run, RunWait, RunTask, RunComplete, RunErase, RunNotify,
                      RunCallback, WakeWaiters, quit
  <2>5. ASSUME NEW w \in Waiters, WaitCheck(w)
        PROVE  WaitInv'
    <3>1. waiter'[w] = "returned" => Done(w)
      BY <2>5, Zenon DEF WaitCheck, QueueInv, TypeOK
    <3> QED
      BY <2>5, <3>1, DoneMeansRun DEF WaitCheck, QueueInv, TypeOK, WaitInv, quit
  <2>6. ASSUME NEW w \in Waiters, NEW t \in Tasks \cup {All}, WaitTaskDone(w, t)
        PROVE  WaitInv'
    BY <2>6 DEF WaitTaskDone, QueueInv, TypeOK, WaitInv, quit
  <2>7. CASE Stop \/ StopNotify \/ StopJoin
    BY <2>1, <2>7, Zenon DEF Stop, StopNotify, StopJoin, NotifyAll, WakeWaiters, quit
  <2>8. CASE UNCHANGED vars
    BY <2>1, <2>8, Zenon DEF vars, quit
  <2> QED
    BY <2>2, <2>3, <2>4, <2>5, <2>6, <2>7, <2>8, Zenon DEF Next
<1>3. WaitInv => WaitMeansDone
  BY Zenon DEF WaitInv, WaitMeansDone
<1> QED
  BY <1>1, <1>2, <1>3, QueueInit, QueueNext, PTL DEF Spec

(***************************************************************************)
(* Wakeups.                                                                *)
(***************************************************************************)
(* A thread on cv_ whose condition is true is about to be woken: no step    *)
(* makes a condition true without a notify_all of its thread to follow.     *)
THEOREM WakeupsAreKept == Spec => []NoLostWakeup
<1> USE DEF queueVars, stateVars, runVars, waitVars
<1>1. Init => NoLostWakeup
  BY Zenon DEF Init, NoLostWakeup, quit
<1>2. QueueInv /\ NoLostWakeup /\ [Next]_vars => NoLostWakeup'
  <2> SUFFICES ASSUME QueueInv, NoLostWakeup, [Next]_vars PROVE NoLostWakeup'
    BY Zenon
  <2> USE DEF NoLostWakeup, quit
  <2>1. ASSUME NEW t \in Tasks, NEW c \in {"none", "added"}, AddTask(t, c)
        PROVE  NoLostWakeup'
    BY <2>1, Zenon DEF AddTask, QueueInv, TypeOK
  <2>2. ASSUME NotifyAll PROVE NoLostWakeup'
    BY <2>2, Zenon DEF NotifyAll, WakeWaiters, QueueInv, TypeOK
  <2>3. ASSUME NEW t \in Tasks, OnComplete(t) PROVE NoLostWakeup'
    BY <2>3, Zenon DEF OnComplete, Done
  <2>4. CASE RunWait
    <3>1. worker' = "run" => count # 0 /\ count' = count
      BY <2>4 DEF RunWait, QueueInv, Counted, TypeOK
    <3>2. worker' # "run" => UNCHANGED <<tasks, count>>
      BY <2>4, Zenon DEF RunWait
    <3> QED
      BY <2>4, <3>1, <3>2, Zenon DEF RunWait, Done
  <2>5. CASE RunTask
    BY <2>5, Zenon DEF RunTask, Done
  <2>6. CASE RunComplete \/ RunErase
    BY <2>6, Zenon DEF RunComplete, RunErase, Done
  <2>7. CASE RunNotify
    BY <2>7, Zenon DEF RunNotify, WakeWaiters, QueueInv, TypeOK
  <2>8. CASE RunCallback
    BY <2>8, Zenon DEF RunCallback, Done
  <2>9. ASSUME NEW w \in Waiters, WaitCheck(w) PROVE NoLostWakeup'
    BY <2>9 DEF WaitCheck, Done, QueueInv, TypeOK
  <2>10. ASSUME NEW w \in Waiters, NEW t \in Tasks \cup {All}, WaitTaskDone(w, t)
         PROVE  NoLostWakeup'
    BY <2>10 DEF WaitTaskDone, Done, QueueInv, TypeOK
  <2>11. CASE Stop
    BY <2>11, Zenon DEF Stop
  <2>12. CASE StopJoin
    BY <2>12, Zenon DEF StopJoin, Done
  <2>13. CASE UNCHANGED vars
    BY <2>13, Zenon DEF vars, Done
  <2> QED
    BY <2>1, <2>2, <2>3, <2>4, <2>5, <2>6, <2>7, <2>8, <2>9, <2>10, <2>11, <2>12, <2>13, Zenon
       DEF Next, Run, AddTaskReturn, StopNotify
<1> QED
  BY <1>1, <1>2, QueueInit, QueueNext, PTL DEF Spec

(***************************************************************************)
(* Callbacks.                                                              *)
(***************************************************************************)
LateCalls(s) == {i \in 1..Len(s) : s[i] = "late"}

LEMMA LateAppend ==
  ASSUME NEW s \in Seq({"added", "late"}), NEW c \in {"added", "late"}
  PROVE  /\ Append(s, c) # <<>> /\ Len(Append(s, c)) = Len(s) + 1 /\ Len(s) \in Nat
         /\ LateCalls(Append(s, c)) =
              IF c = "late" THEN LateCalls(s) \cup {Len(s) + 1} ELSE LateCalls(s)
<1>1. /\ Len(Append(s, c)) = Len(s) + 1 /\ Len(s) \in Nat
      /\ \A i \in 1..Len(s) : Append(s, c)[i] = s[i]
      /\ Append(s, c)[Len(s) + 1] = c
      /\ Append(s, c) \in Seq({"added", "late"})
  OBVIOUS
<1>2. Append(s, c) # <<>>
  BY <1>1
<1>3. LateCalls(Append(s, c)) =
        IF c = "late" THEN LateCalls(s) \cup {Len(s) + 1} ELSE LateCalls(s)
  BY <1>1 DEF LateCalls
<1> QED
  BY <1>1, <1>2, <1>3, Zenon

Taken(t) == cur = t /\ cb = "late"

(* Where the late callback of t is: stored, taken by the worker or called.  *)
InOnePlace(t) ==
  \/ callback[t] = "late" /\ ~Taken(t) /\ LateCalls(calls[t]) = {}
  \/ callback[t] # "late" /\ Taken(t) /\ LateCalls(calls[t]) = {}
  \/ /\ callback[t] # "late" /\ ~Taken(t)
     /\ \E i \in 1..Len(calls[t]) : LateCalls(calls[t]) = {i}

(* CalledOnce, and what it needs: a callback the worker took belongs to a   *)
(* complete task, only tasks that were added complete, and only tasks given *)
(* to OnComplete have a late callback.                                      *)
CallInv ==
  /\ cb # "none" => cur \in completed /\ worker \in {"erase", "notify", "call"}
  /\ \A t \in Tasks :
       /\ t \in completed \cup late => adder[t] # "new"
       /\ callback[t] # "none" => t \notin completed
       /\ calls[t] # <<>> => t \in completed
       /\ t \notin late => callback[t] # "late" /\ ~Taken(t) /\ LateCalls(calls[t]) = {}
       /\ t \in late => InOnePlace(t)

(* The callback registered with OnComplete is called at most once, and is   *)
(* never dropped, whichever of OnComplete and the worker gets to the        *)
(* TaskState first.                                                         *)
THEOREM CallbacksCalledOnce == Spec => []CalledOnce
<1> USE DEF queueVars, stateVars, runVars, waitVars
<1>1. Init => CallInv
  <2> SUFFICES ASSUME Init PROVE CallInv
    BY Zenon
  <2>1. LateCalls(<<>>) = {}
    BY DEF LateCalls
  <2> QED
    BY <2>1, Zenon DEF Init, CallInv, Taken
<1>2. QueueInv /\ CallInv /\ [Next]_vars => CallInv'
  <2> SUFFICES ASSUME QueueInv, CallInv, [Next]_vars PROVE CallInv'
    BY Zenon
  <2>1. ASSUME UNCHANGED <<completed, callback, late, calls, cb>>,
               cb # "none" => cur' = cur /\ worker' \in {"erase", "notify", "call"},
               \A t \in Tasks : adder[t] # "new" => adder'[t] # "new"
        PROVE  CallInv'
    <3>1. \A t \in Tasks : (Taken(t) <=> Taken(t)') /\ (InOnePlace(t) <=> InOnePlace(t)')
      BY <2>1, Zenon DEF Taken, InOnePlace
    <3> QED
      BY <2>1, <3>1, Zenon DEF CallInv
  <2>2. ASSUME NEW t \in Tasks, NEW c \in {"none", "added"}, AddTask(t, c)
        PROVE  CallInv'
    <3>1. /\ \A u \in Tasks : u # t => callback'[u] = callback[u] /\ adder'[u] = adder[u]
          /\ callback'[t] = c /\ adder'[t] # "new"
      BY <2>2, Zenon DEF AddTask, QueueInv, TypeOK
    <3> QED
      BY <2>2, <3>1, ZenonT(30) DEF AddTask, CallInv, InOnePlace, Taken
  <2>3. ASSUME NEW t \in Tasks, AddTaskReturn(t)
        PROVE  CallInv'
    BY <2>1, <2>3, Zenon DEF AddTaskReturn, NotifyAll, QueueInv, TypeOK, CallInv
  <2>4. ASSUME NEW t \in Tasks, OnComplete(t), t \in completed
        PROVE  CallInv'
    <3>1. /\ \A u \in Tasks : calls'[u] = IF u = t THEN Append(calls[t], "late") ELSE calls[u]
          /\ calls[t] \in Seq({"added", "late"})
      BY <2>4, Zenon DEF OnComplete, QueueInv, TypeOK
    <3>2. /\ calls'[t] # <<>> /\ LateCalls(calls'[t]) = {Len(calls[t]) + 1}
          /\ Len(calls[t]) + 1 \in 1..Len(calls'[t])
      <4>1. calls'[t] = Append(calls[t], "late")
        BY <3>1, Zenon
      <4>2. LateCalls(calls[t]) = {}
        BY <2>4, Zenon DEF CallInv, OnComplete
      <4> QED
        BY <3>1, <4>1, <4>2, LateAppend
    <3>3. \A u \in Tasks : (Taken(u) <=> Taken(u)')
      BY <2>4, Zenon DEF OnComplete, Taken
    <3>4. \A u \in Tasks \ {t} : InOnePlace(u) <=> InOnePlace(u)'
      BY <2>4, <3>1, <3>3, Zenon DEF OnComplete, InOnePlace
    <3>5. InOnePlace(t)'
      BY <2>4, <3>2, <3>3, Zenon DEF OnComplete, InOnePlace, CallInv
    <3> QED
      BY <2>4, <3>1, <3>2, <3>3, <3>4, <3>5, Zenon DEF OnComplete, CallInv
  <2>5. ASSUME NEW t \in Tasks, OnComplete(t), t \notin completed
        PROVE  CallInv'
    <3>1. \A u \in Tasks : callback'[u] = IF u = t THEN "late" ELSE callback[u]
      BY <2>5, Zenon DEF OnComplete, QueueInv, TypeOK
    <3> QED
      BY <2>5, <3>1, ZenonT(30) DEF OnComplete, CallInv, InOnePlace, Taken
  <2>6. CASE RunWait \/ RunTask \/ RunErase \/ RunNotify
    BY <2>1, <2>6, Zenon DEF RunWait, RunTask, RunErase, RunNotify, CallInv
  <2>7. CASE RunComplete
    <3>1. cur \in Tasks /\ adder[cur] # "new"
      BY <2>7, Zenon DEF RunComplete, QueueInv, InHand
    <3>2. \A u \in Tasks : callback'[u] = IF u = cur THEN "none" ELSE callback[u]
      BY <2>7, Zenon DEF RunComplete, QueueInv, TypeOK
    <3> QED
      BY <2>7, <3>1, <3>2, ZenonT(30) DEF RunComplete, CallInv, InOnePlace, Taken
  <2>8. CASE RunCallback /\ cb # "none"
    <3>1. /\ \A u \in Tasks : calls'[u] = IF u = cur THEN Append(calls[cur], cb) ELSE calls[u]
          /\ cur \in Tasks /\ calls[cur] \in Seq({"added", "late"}) /\ cb \in {"added", "late"}
      BY <2>8, Zenon DEF RunCallback, QueueInv, TypeOK, InHand
    <3>2. /\ calls'[cur] # <<>>
          /\ cb = "late" => /\ LateCalls(calls[cur]) = {}
                            /\ LateCalls(calls'[cur]) = {Len(calls[cur]) + 1}
          /\ cb = "added" => LateCalls(calls'[cur]) = LateCalls(calls[cur])
          /\ Len(calls'[cur]) = Len(calls[cur]) + 1 /\ Len(calls[cur]) \in Nat
      <4>1. cb = "late" => LateCalls(calls[cur]) = {}
        BY <3>1, Zenon DEF CallInv, InOnePlace, Taken
      <4>2. calls'[cur] = Append(calls[cur], cb)
        BY <3>1, Zenon
      <4> QED
        BY <3>1, <4>1, <4>2, LateAppend
    <3>3. \A u \in Tasks : ~Taken(u)'
      BY <2>8, Zenon DEF RunCallback, Taken
    <3>4. \A u \in Tasks \ {cur} : ~Taken(u) /\ (InOnePlace(u) <=> InOnePlace(u)')
      BY <2>8, <3>1, <3>3, Zenon DEF RunCallback, InOnePlace, Taken
    <3>5. cur \in late => InOnePlace(cur)'
      <4> SUFFICES ASSUME cur \in late PROVE InOnePlace(cur)'
        BY Zenon
      <4>1. InOnePlace(cur) /\ callback' = callback /\ cur' = cur /\ ~Taken(cur)'
        BY <2>8, <3>1, <3>3, Zenon DEF RunCallback, CallInv
      <4>2. CASE cb = "late"
        <5>1. callback[cur] # "late" /\ Len(calls[cur]) + 1 \in 1..Len(calls'[cur])
          BY <4>1, <4>2, <3>2 DEF InOnePlace, Taken
        <5> QED
          BY <4>1, <4>2, <5>1, <3>2, Zenon DEF InOnePlace
      <4>3. CASE cb = "added"
        <5>1. 1..Len(calls[cur]) \subseteq 1..Len(calls'[cur])
          BY <3>2
        <5> QED
          BY <4>1, <4>3, <5>1, <3>2, Zenon DEF InOnePlace, Taken
      <4> QED
        BY <4>2, <4>3, <3>1, Zenon
    <3> QED
      BY <2>8, <3>1, <3>2, <3>3, <3>4, <3>5, ZenonT(30) DEF RunCallback, CallInv, Taken
  <2>9. CASE RunCallback /\ cb = "none"
    BY <2>1, <2>9, Zenon DEF RunCallback
  <2>10. ASSUME NEW w \in Waiters,
                WaitCheck(w) \/ \E t \in Tasks \cup {All} : WaitTaskDone(w, t)
         PROVE  CallInv'
    BY <2>1, <2>10, Zenon DEF WaitCheck, WaitTaskDone, CallInv
  <2>11. CASE Stop \/ StopNotify \/ StopJoin
    BY <2>1, <2>11, Zenon DEF Stop, StopNotify, StopJoin, NotifyAll, CallInv
  <2>12. CASE UNCHANGED vars
    BY <2>1, <2>12, Zenon DEF vars, CallInv
  <2> QED
    BY <2>2, <2>3, <2>4, <2>5, <2>6, <2>7, <2>8, <2>9, <2>10, <2>11, <2>12, Zenon DEF Next, Run
<1>3. QueueInv /\ CallInv => CalledOnce
  <2> SUFFICES ASSUME QueueInv, CallInv, NEW t \in Tasks
               PROVE  DOMAIN calls[t] = 1..Len(calls[t])
    BY DEF CallInv, CalledOnce, LateCalls, InOnePlace, Taken
  <2> QED
    BY DEF QueueInv, TypeOK
<1> QED
  BY <1>1, <1>2, <1>3, QueueInit, QueueNext, PTL DEF Spec
==============================================================================
