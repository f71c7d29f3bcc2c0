------------------------------ MODULE WorkerBase ------------------------------
(***************************************************************************)
(* One worker thread of a CPU or GPU pool: threads add tasks to a queue    *)
(* and wait for them, the worker runs them and calls their callbacks, and  *)
(* Stop ends it. The worker and all waiters share mutex_ and cv_. A        *)
(* section under mutex_ is a step, and the notify_all after it another.    *)
(***************************************************************************)
EXTENDS Integers, Sequences

CONSTANTS
  Tasks,     \* a task stands for its task_id: ids are distinct
  Waiters,
  All        \* the target of a wait for every task

ASSUME AllAssumption == All \notin Tasks

VARIABLES
  tasks,      \* tasks_
  task_ids,   \* task_ids_
  count,      \* task_count_
  adder,      \* [Tasks -> "new", "notify" or "returned"], where AddTask is
  ran,        \* the tasks whose function returned
  completed,  \* the tasks whose TaskState is completed
  callback,   \* [Tasks -> "none", "added" or "late"], TaskState::callback
  late,       \* the tasks on which OnComplete was called
  calls,      \* [Tasks -> Seq({"added", "late"})], the callbacks called
  worker,     \* where Run is
  cur, cb,    \* Run's task_id and cb
  stopper,    \* where Stop is: "new", "notify", "join" or "returned"
  waiter,     \* [Waiters -> "new", "check", "asleep" or "returned"]
  target,     \* what a waiter waits for
  owed        \* the tasks added before the wait, which it must see run

queueVars == <<tasks, task_ids, count, adder>>
stateVars == <<ran, completed, callback, late, calls>>
runVars == <<cur, cb>>
waitVars == <<target, owed>>
vars == <<queueVars, stateVars, runVars, waitVars, worker, stopper, waiter>>

Init ==
  /\ tasks = <<>> /\ task_ids = {} /\ count = 0
  /\ adder = [t \in Tasks |-> "new"]
  /\ ran = {} /\ completed = {} /\ late = {}
  /\ callback = [t \in Tasks |-> "none"]
  /\ calls = [t \in Tasks |-> <<>>]
  /\ worker = "check" /\ cur = All /\ cb = "none"
  /\ stopper = "new"
  /\ waiter = [w \in Waiters |-> "new"]
  /\ target = [w \in Waiters |-> All]
  /\ owed = [w \in Waiters |-> {}]

(* quit_ is set by Stop's first step.                                       *)
quit == stopper # "new"

WakeWaiters ==
  waiter' = [w \in Waiters |-> IF waiter[w] = "asleep" THEN "check" ELSE waiter[w]]

(* Mutant: notify_one, which wakes some sleeper.                            *)
NotifyOne ==
  \/ /\ worker = "asleep" /\ worker' = "check"
     /\ UNCHANGED waiter
  \/ \E w \in Waiters : /\ waiter[w] = "asleep"
                        /\ waiter' = [waiter EXCEPT ![w] = "check"]
                        /\ UNCHANGED worker
  \/ /\ worker # "asleep" /\ \A w \in Waiters : waiter[w] # "asleep"
     /\ UNCHANGED <<worker, waiter>>

(* cv_.notify_all, called by a thread other than the worker.                *)
NotifyAll ==
  /\ worker' = IF worker = "asleep" THEN "check" ELSE worker
  /\ WakeWaiters

AddTask(t, c) ==
  /\ adder[t] = "new"
  /\ callback' = [callback EXCEPT ![t] = c]
  /\ tasks' = Append(tasks, t)
  /\ count' = count + 1
  /\ task_ids' = task_ids \cup {t}
  /\ adder' = [adder EXCEPT ![t] = "notify"]
  /\ UNCHANGED <<ran, completed, late, calls, runVars, waitVars, worker, stopper, waiter>>

AddTaskReturn(t) ==
  /\ adder[t] = "notify"
  /\ NotifyAll
  /\ adder' = [adder EXCEPT ![t] = "returned"]
  /\ UNCHANGED <<tasks, task_ids, count, stateVars, runVars, waitVars, stopper>>

(* Mutant: stores the callback without a look at completed.                 *)
OnCompleteStored(t) ==
  /\ adder[t] = "returned" /\ t \notin late
  /\ late' = late \cup {t}
  /\ callback' = [callback EXCEPT ![t] = "late"]
  /\ UNCHANGED <<ran, completed, calls, queueVars, runVars, waitVars, worker, stopper, waiter>>

(* The owner of the handle registers a callback. It replaces the one given  *)
(* to AddTask, and is called at once when the task is complete.             *)
OnComplete(t) ==
  /\ adder[t] = "returned" /\ t \notin late
  /\ late' = late \cup {t}
  /\ IF t \in completed
     THEN calls' = [calls EXCEPT ![t] = Append(@, "late")] /\ UNCHANGED callback
     ELSE callback' = [callback EXCEPT ![t] = "late"] /\ UNCHANGED calls
  /\ UNCHANGED <<ran, completed, queueVars, runVars, waitVars, worker, stopper, waiter>>

(* Mutant: waits for a task only.                                           *)
RunWaitTask ==
  /\ worker = "check"
  /\ \/ tasks = <<>> /\ worker' = "asleep" /\ UNCHANGED <<cur, tasks>>
     \/ tasks # <<>> /\ quit /\ worker' = "exit" /\ UNCHANGED <<cur, tasks>>
     \/ /\ ~quit /\ tasks # <<>>
        /\ worker' = "run" /\ cur' = Head(tasks) /\ tasks' = Tail(tasks)
  /\ UNCHANGED <<task_ids, count, adder, stateVars, cb, waitVars, stopper, waiter>>

(* The wait at the top of Run's loop: quit_ comes before the queue.         *)
RunWait ==
  /\ worker = "check"
  /\ \/ quit /\ worker' = "exit" /\ UNCHANGED <<cur, tasks>>
     \/ ~quit /\ tasks = <<>> /\ worker' = "asleep" /\ UNCHANGED <<cur, tasks>>
     \/ /\ ~quit /\ tasks # <<>>
        /\ worker' = "run" /\ cur' = Head(tasks) /\ tasks' = Tail(tasks)
  /\ UNCHANGED <<task_ids, count, adder, stateVars, cb, waitVars, stopper, waiter>>

(* task() and then task_count_--, which takes no lock.                      *)
RunTask ==
  /\ worker = "run" /\ worker' = "complete"
  /\ ran' = ran \cup {cur}
  /\ count' = count - 1
  /\ UNCHANGED <<tasks, task_ids, adder, completed, callback, late, calls,
                 runVars, waitVars, stopper, waiter>>

(* Mutant: marks the task complete and leaves its callback behind.          *)
RunCompleteDropped ==
  /\ worker = "complete" /\ worker' = "erase"
  /\ completed' = completed \cup {cur}
  /\ UNCHANGED <<ran, callback, late, calls, cb, cur, queueVars, waitVars, stopper, waiter>>

RunComplete ==
  /\ worker = "complete" /\ worker' = "erase"
  /\ completed' = completed \cup {cur}
  /\ cb' = callback[cur]
  /\ callback' = [callback EXCEPT ![cur] = "none"]
  /\ UNCHANGED <<ran, late, calls, cur, queueVars, waitVars, stopper, waiter>>

RunErase ==
  /\ worker = "erase" /\ worker' = "notify"
  /\ task_ids' = task_ids \ {cur}
  /\ UNCHANGED <<tasks, count, adder, stateVars, runVars, waitVars, stopper, waiter>>

RunNotify ==
  /\ worker = "notify" /\ worker' = "call"
  /\ WakeWaiters
  /\ UNCHANGED <<queueVars, stateVars, runVars, waitVars, stopper>>

RunCallback ==
  /\ worker = "call" /\ worker' = "check"
  /\ cb' = "none"
  /\ calls' = IF cb = "none" THEN calls ELSE [calls EXCEPT ![cur] = Append(@, cb)]
  /\ UNCHANGED <<ran, completed, callback, late, cur, queueVars, waitVars, stopper, waiter>>

Run == RunWait \/ RunTask \/ RunComplete \/ RunErase \/ RunNotify \/ RunCallback

(* Mutants of the condition: the queue alone, and no quit_.                 *)
DoneQueued(w) ==
  IF target[w] = All THEN tasks = <<>> \/ quit ELSE target[w] \notin task_ids \/ quit

DoneUnlessQuit(w) ==
  IF target[w] = All THEN tasks = <<>> /\ count = 0 ELSE target[w] \notin task_ids

(* The condition of WaitTaskDone, without and with a task id.               *)
Done(w) ==
  \/ IF target[w] = All THEN tasks = <<>> /\ count = 0 ELSE target[w] \notin task_ids
  \/ quit

WaitTaskDone(w, t) ==
  /\ waiter[w] = "new"
  /\ waiter' = [waiter EXCEPT ![w] = "check"]
  /\ target' = [target EXCEPT ![w] = t]
  /\ owed' = [owed EXCEPT ![w] = {u \in Tasks : adder[u] = "returned" /\ t \in {All, u}}]
  /\ UNCHANGED <<queueVars, stateVars, runVars, worker, stopper>>

WaitCheck(w) ==
  /\ waiter[w] = "check"
  /\ waiter' = [waiter EXCEPT ![w] = IF Done(w) THEN "returned" ELSE "asleep"]
  /\ UNCHANGED <<queueVars, stateVars, runVars, waitVars, worker, stopper>>

Stop ==
  /\ stopper = "new" /\ stopper' = "notify"
  /\ UNCHANGED <<queueVars, stateVars, runVars, waitVars, worker, waiter>>

StopNotify ==
  /\ stopper = "notify" /\ stopper' = "join"
  /\ NotifyAll
  /\ UNCHANGED <<queueVars, stateVars, runVars, waitVars>>

StopJoin ==
  /\ stopper = "join" /\ worker = "exit" /\ stopper' = "returned"
  /\ UNCHANGED <<queueVars, stateVars, runVars, waitVars, worker, waiter>>

Next ==
  \/ \E t \in Tasks, c \in {"none", "added"} : AddTask(t, c)
  \/ \E t \in Tasks : AddTaskReturn(t) \/ OnComplete(t)
  \/ Run
  \/ \E w \in Waiters : WaitCheck(w) \/ \E t \in Tasks \cup {All} : WaitTaskDone(w, t)
  \/ Stop \/ StopNotify \/ StopJoin

(* Threads that have begun a call run on, and tasks return.                 *)
Fairness ==
  /\ WF_vars(Run)
  /\ \A t \in Tasks : WF_vars(AddTaskReturn(t))
  /\ \A w \in Waiters : WF_vars(WaitCheck(w))
  /\ WF_vars(StopNotify \/ StopJoin)

Spec == Init /\ [][Next]_vars /\ Fairness

(***************************************************************************)
(* Properties.                                                             *)
(***************************************************************************)
(* The type of the state; task_count_ does not go below zero.              *)
TypeOK ==
  /\ tasks \in Seq(Tasks) /\ task_ids \subseteq Tasks /\ count \in Nat
  /\ adder \in [Tasks -> {"new", "notify", "returned"}]
  /\ ran \subseteq Tasks /\ completed \subseteq Tasks /\ late \subseteq Tasks
  /\ callback \in [Tasks -> {"none", "added", "late"}]
  /\ calls \in [Tasks -> Seq({"added", "late"})]
  /\ worker \in {"check", "asleep", "run", "complete", "erase", "notify", "call", "exit"}
  /\ cur \in Tasks \cup {All} /\ cb \in {"none", "added", "late"}
  /\ stopper \in {"new", "notify", "join", "returned"}
  /\ waiter \in [Waiters -> {"new", "check", "asleep", "returned"}]
  /\ target \in [Waiters -> Tasks \cup {All}]
  /\ owed \in [Waiters -> SUBSET Tasks]

(* WaitTaskDone returns before Stop only when every task it waits for,      *)
(* added before it was called, was run.                                     *)
WaitMeansDone ==
  \A w \in Waiters : waiter[w] = "returned" /\ ~quit => owed[w] \subseteq ran

(* Nobody sleeps on cv_ with its condition true unless a notify_all is      *)
(* still to come: task_count_-- is outside the lock, and each notify_all    *)
(* comes after the section that makes the condition true.                   *)
NoLostWakeup ==
  LET notifying == stopper = "notify" \/ \E t \in Tasks : adder[t] = "notify"
  IN  /\ worker = "asleep" /\ (tasks # <<>> \/ quit) => notifying
      /\ \A w \in Waiters : waiter[w] = "asleep" /\ Done(w)
           => notifying \/ worker \in {"complete", "erase", "notify"}

(* A callback given to OnComplete is in one place: stored in a state that   *)
(* is not complete, taken by the worker, or called, and called once. So is  *)
(* one given to AddTask unless OnComplete replaced it.                      *)
CalledOnce ==
  \A t \in Tasks :
    LET stored == callback[t] = "late"
        taken == cur = t /\ cb = "late"
        called == {i \in DOMAIN calls[t] : calls[t][i] = "late"}
    IN  /\ callback[t] # "none" => t \notin completed
        /\ t \in late => \/ stored /\ ~taken /\ called = {}
                         \/ ~stored /\ taken /\ called = {}
                         \/ ~stored /\ ~taken /\ \E i \in DOMAIN calls[t] : called = {i}
        /\ calls[t] # <<>> => t \in completed

(* A wait returns, whether its tasks are run or Stop is called.             *)
WaitReturns == \A w \in Waiters : waiter[w] = "check" ~> waiter[w] = "returned"

(* A callback registered on a task that runs is called, Stop or not.        *)
CallbackRuns ==
  \A t \in Tasks : t \in late /\ t \in ran ~> calls[t] # <<>>

(* Stop returns: the worker leaves its loop, with tasks queued or not.      *)
StopReturns == stopper = "notify" ~> stopper = "returned"

(* Nobody is left asleep (AddTask, WaitTaskDone, Run, Stop): no wakeup is      *)
(* lost, waits and Stop return, and a callback of a task that ran is called.   *)
EveryoneReturns ==
  []NoLostWakeup /\ WaitReturns /\ CallbackRuns /\ StopReturns
==============================================================================
