------------------------------- MODULE EventLoop -------------------------------
(***************************************************************************)
(* UeventLoop's hand-over of work between threads: QueueInLoop pushes a    *)
(* functor, or a task, and writes the eventfd only if the list was empty;  *)
(* the loop reads the eventfd, swaps both lists and runs what was in them. *)
(*                                                                         *)
(* What is queued is numbered, per list, in the order of the pushes.  The  *)
(* loop's own thread is a poster too, from within what it runs.            *)
(***************************************************************************)
EXTENDS Integers, Sequences

CONSTANTS
  Posters,   \* the threads that queue work
  Self,      \* the loop's own thread, one of them
  MaxPosts   \* bound on what is queued in each list

ASSUME PostersAssumption == Self \in Posters
ASSUME MaxPostsAssumption == MaxPosts \in Nat

Kinds == {"functor", "task"}

VARIABLES
  pending,  \* pending_functors_ and pending_tasks_
  posted,   \* how many were ever queued in each
  batch,    \* functors and tasks of DoPendingFunctors
  run,      \* how many were ever run of each
  efd,      \* the counter of wakeup_fd_
  waking,   \* posters that found their list empty and have yet to write
  pc        \* the loop: "poll", "swap" after the read, "run"

loopVars == <<pending, posted, batch, run, efd, waking, pc>>

LoopInit ==
  /\ pending = [k \in Kinds |-> <<>>]
  /\ posted = [k \in Kinds |-> 0]
  /\ batch = [k \in Kinds |-> <<>>]
  /\ run = [k \in Kinds |-> 0]
  /\ efd = 0
  /\ waking = {}
  /\ pc = "poll"

(* Mutant: the loop's own thread counts on its next look at the lists.      *)
QueueInLoopUnwoken(t, k) ==
  /\ t \notin waking
  /\ t = Self => pc = "run"
  /\ posted[k] < MaxPosts
  /\ posted' = [posted EXCEPT ![k] = @ + 1]
  /\ pending' = [pending EXCEPT ![k] = Append(@, posted[k] + 1)]
  /\ waking' = IF pending[k] = <<>> /\ t # Self THEN waking \cup {t} ELSE waking
  /\ UNCHANGED <<batch, run, efd, pc>>

(* The push, under mutex_.  The loop's own thread queues from a functor.    *)
QueueInLoop(t, k) ==
  /\ t \notin waking
  /\ t = Self => pc = "run"
  /\ posted[k] < MaxPosts
  /\ posted' = [posted EXCEPT ![k] = @ + 1]
  /\ pending' = [pending EXCEPT ![k] = Append(@, posted[k] + 1)]
  /\ waking' = IF pending[k] = <<>> THEN waking \cup {t} ELSE waking
  /\ UNCHANGED <<batch, run, efd, pc>>

Wakeup(t) ==
  /\ t \in waking
  /\ waking' = waking \ {t}
  /\ efd' = efd + 1
  /\ UNCHANGED <<pending, posted, batch, run, pc>>

(* WakeupReadCb: the read takes the whole counter.                          *)
WakeupReadCb ==
  /\ pc = "poll"
  /\ efd > 0
  /\ efd' = 0
  /\ pc' = "swap"
  /\ UNCHANGED <<pending, posted, batch, run, waking>>

(* Mutants: tasks wait for a turn without functors; the swap keeps what was *)
(* pending, to be cleared once it ran.                                      *)
SwapFunctorsFirst ==
  /\ pc = "swap"
  /\ pc' = "run"
  /\ LET kept == IF pending["functor"] = <<>> THEN "functor" ELSE "task" IN
     /\ batch' = [k \in Kinds |-> IF k = kept THEN <<>> ELSE pending[k]]
     /\ pending' = [k \in Kinds |-> IF k = kept THEN pending[k] ELSE <<>>]
  /\ UNCHANGED <<posted, run, efd, waking>>

CopyPendingFunctors ==
  /\ pc = "swap"
  /\ pc' = "run"
  /\ batch' = pending
  /\ UNCHANGED <<pending, posted, run, efd, waking>>

(* DoPendingFunctors takes both lists under mutex_ ...                      *)
SwapPendingFunctors ==
  /\ pc = "swap"
  /\ pc' = "run"
  /\ batch' = pending
  /\ pending' = [k \in Kinds |-> <<>>]
  /\ UNCHANGED <<posted, run, efd, waking>>

(* ... and runs the functors, then the tasks.                               *)
RunPending(k) ==
  /\ pc = "run"
  /\ Self \notin waking
  /\ batch[k] # <<>>
  /\ k = "task" => batch["functor"] = <<>>
  /\ run' = [run EXCEPT ![k] = @ + 1]
  /\ batch' = [batch EXCEPT ![k] = Tail(@)]
  /\ UNCHANGED <<pending, posted, efd, waking, pc>>

Return ==
  /\ pc = "run"
  /\ Self \notin waking
  /\ \A k \in Kinds : batch[k] = <<>>
  /\ pc' = "poll"
  /\ UNCHANGED <<pending, posted, batch, run, efd, waking>>

LoopStep ==
  WakeupReadCb \/ SwapPendingFunctors \/ (\E k \in Kinds : RunPending(k)) \/ Return

LoopNext ==
  \/ \E t \in Posters : Wakeup(t) \/ (\E k \in Kinds : QueueInLoop(t, k))
  \/ LoopStep

LoopSpec == LoopInit /\ [][LoopNext]_loopVars

(* Threads run; nobody has to post.                                         *)
LoopFairSpec == LoopSpec /\ WF_loopVars(LoopStep) /\ \A t \in Posters : WF_loopVars(Wakeup(t))

(***************************************************************************)
(* Properties.                                                             *)
(***************************************************************************)
(* The type of the state. *)
LoopTypeOK ==
  /\ pending \in [Kinds -> Seq(Nat)]
  /\ posted \in [Kinds -> Nat]
  /\ batch \in [Kinds -> Seq(Nat)]
  /\ run \in [Kinds -> Nat]
  /\ efd \in Nat
  /\ waking \subseteq Posters
  /\ pc \in {"poll", "swap", "run"}

(* What is pending has a wakeup on its way, though only the poster that    *)
(* finds its list empty writes the eventfd: the loop is about to swap, or  *)
(* the eventfd is readable, or some poster is about to write it.           *)
WakeupPending ==
  (\E k \in Kinds : pending[k] # <<>>) => pc = "swap" \/ efd > 0 \/ waking # {}

(* Everything queued runs once and in the order it was queued: what the    *)
(* loop runs next, and what is pending behind it, continues the count of   *)
(* what ran, up to what was queued.                                        *)
InOrderOnce ==
  \A k \in Kinds :
    /\ posted[k] = run[k] + Len(batch[k]) + Len(pending[k])
    /\ \A i \in 1..Len(batch[k]) : batch[k][i] = run[k] + i
    /\ \A i \in 1..Len(pending[k]) :
         pending[k][i] = run[k] + Len(batch[k]) + i

(* Everything queued runs. *)
EverythingRuns ==
  \A k \in Kinds, n \in 1..MaxPosts : posted[k] >= n ~> run[k] >= n

==============================================================================
