------------------------------ MODULE TimerQueue ------------------------------
(***************************************************************************)
(* The timer queue of one event loop: timers ordered by expiration and one *)
(* timerfd armed for the earliest. The loop's thread adds and cancels at   *)
(* once, other threads through the loop's functors. Time is kept as the    *)
(* time left, in units of the 100 us below which the fd is never armed; a  *)
(* timer that is late has none left.                                       *)
(***************************************************************************)
EXTENDS Integers, Sequences, FiniteSets

CONSTANTS
  Timers,      \* sequence numbers, each used for one Timer
  Repeating,   \* those with an interval
  Interval,
  MaxDelay,    \* bound of the delay given to AddTimer
  None

ASSUME TimerAssumption ==
  /\ IsFiniteSet(Timers)
  /\ Repeating \subseteq Timers /\ None \notin Timers
  /\ Interval \in Nat \ {0} /\ MaxDelay \in Nat

VARIABLES
  posted,     \* the loop's functors: <<"add", s>> and <<"cancel", s>>
  adding,     \* timers another thread posted and whose sequence() it still reads
  created,    \* timers that were given to AddTimer
  left,       \* [Timers -> Nat], the time left to expiration_
  timers,     \* timers_, and the keys of active_timers_
  fd,         \* the time left on the timerfd, Off when disarmed
  calling,    \* calling_expired_timers_
  expired,    \* TimerfdReadCb's expired
  rest,       \* the part of expired its loop has not reached
  running,    \* the timer whose callback runs, or None
  canceling,  \* canceling_timers_
  elapsed,    \* the time since TimerfdReadCb read the clock, up to Interval
  asked,      \* timers whose cancel was asked for
  dead        \* timers whose cancel came after their insertion

clientVars == <<created, adding, asked>>
batchVars == <<calling, expired, rest, running, elapsed>>
vars == <<posted, clientVars, left, timers, fd, batchVars, canceling, dead>>

Off == -1

Init ==
  /\ posted = <<>> /\ adding = {} /\ created = {} /\ asked = {} /\ dead = {}
  /\ left = [s \in Timers |-> 0]
  /\ timers = {} /\ fd = Off
  /\ calling = FALSE /\ expired = {} /\ rest = <<>> /\ running = None
  /\ canceling = {} /\ elapsed = 0

(* Mutant: arms the fd with no time left, which disarms it.                 *)
ResetTimerfdExact(d) == fd' = IF d = 0 THEN Off ELSE d

(* HowMuchTimeFromNow is never below the precision.                         *)
ResetTimerfd(d) == fd' = IF d = 0 THEN 1 ELSE d

(* The fd armed for the first timer of S, the times left being l.           *)
ResetToEarliest(S, l) ==
  \E s \in S : (\A u \in S : l[s] <= l[u]) /\ ResetTimerfd(l[s])

(* Insert, and whether the earliest expiration changed. Of two late timers  *)
(* either may be the earlier.                                               *)
Insert(s, l, earliest_changed) ==
  /\ timers' = timers \cup {s}
  /\ IF earliest_changed THEN \A u \in timers : l[s] < l[u] \/ l[s] = 0
     ELSE \E u \in timers : l[s] >= l[u]

AddTimerInLoop(s, l) ==
  \E earliest_changed \in BOOLEAN :
    /\ Insert(s, l, earliest_changed)
    /\ IF earliest_changed THEN ResetTimerfd(l[s]) ELSE UNCHANGED fd

(* Mutant: forgets a cancel of a timer that is not in the queue.            *)
CancelInLoopQueued(s) ==
  /\ timers' = timers \ {s}
  /\ UNCHANGED canceling

CancelInLoop(s) ==
  /\ timers' = timers \ {s}
  /\ canceling' = IF s \notin timers /\ calling THEN canceling \cup {s} ELSE canceling

(* The loop's thread is in a timer's callback, or in any other handler.     *)
InHandler == running # None \/ ~calling

(* The functor that adds a timer has yet to run.                            *)
AddPosted(s) == \E i \in 1..Len(posted) : posted[i] = <<"add", s>>

(* The timers of S, each once, in some order.                               *)
Orders(S) ==
  UNION {{q \in [1..n -> S] : \A s \in S : \E i \in 1..n : \A j \in 1..n : q[j] = s <=> j = i}
         : n \in 0..Cardinality(S)}

(***************************************************************************)
(* The callers.                                                            *)
(***************************************************************************)
AddTimer(s, d) ==
  /\ s \notin created
  /\ created' = created \cup {s} /\ adding' = adding \cup {s}
  /\ left' = [left EXCEPT ![s] = d]
  /\ posted' = Append(posted, <<"add", s>>)
  /\ UNCHANGED <<asked, timers, fd, batchVars, canceling, dead>>

(* timer->sequence(), after the timer was handed over.                      *)
AddTimerReturn(s) ==
  /\ s \in adding
  /\ adding' = adding \ {s}
  /\ UNCHANGED <<posted, created, asked, left, timers, fd, batchVars, canceling, dead>>

AddTimerFromLoop(s, d) ==
  /\ InHandler /\ s \notin created
  /\ created' = created \cup {s}
  /\ left' = [left EXCEPT ![s] = d]
  /\ AddTimerInLoop(s, left')
  /\ UNCHANGED <<posted, adding, asked, batchVars, canceling, dead>>

Cancel(s) ==
  /\ s \in created \ (adding \cup asked)
  /\ asked' = asked \cup {s}
  /\ posted' = Append(posted, <<"cancel", s>>)
  /\ UNCHANGED <<created, adding, left, timers, fd, batchVars, canceling, dead>>

CancelFromLoop(s) ==
  /\ InHandler /\ s \in created \ (adding \cup asked)
  /\ asked' = asked \cup {s}
  /\ CancelInLoop(s)
  /\ dead' = IF AddPosted(s) THEN dead ELSE dead \cup {s}
  /\ UNCHANGED <<posted, created, adding, left, fd, batchVars>>

(***************************************************************************)
(* The loop.                                                               *)
(***************************************************************************)
RunPosted ==
  /\ ~calling /\ posted # <<>>
  /\ posted' = Tail(posted)
  /\ LET s == Head(posted)[2] IN
     \/ /\ Head(posted)[1] = "add"
        /\ AddTimerInLoop(s, left)
        /\ UNCHANGED <<canceling, dead>>
     \/ /\ Head(posted)[1] = "cancel"
        /\ CancelInLoop(s)
        /\ dead' = dead \cup {s}
        /\ UNCHANGED fd
  /\ UNCHANGED <<clientVars, left, batchVars>>

(* ReadTimerfd and GetExpired, up to the loop over the expired timers.      *)
TimerfdReadCb ==
  /\ ~calling /\ fd = 0
  /\ fd' = Off
  /\ expired' = {s \in timers : left[s] = 0}
  /\ timers' = timers \ expired'
  /\ rest' \in Orders(expired')
  /\ calling' = TRUE /\ canceling' = {} /\ elapsed' = 0
  /\ UNCHANGED <<posted, clientVars, left, running, dead>>

(* One round of that loop: a timer cancelled by an earlier one is skipped.  *)
RunExpired ==
  /\ calling /\ running = None /\ rest # <<>>
  /\ rest' = Tail(rest)
  /\ running' = IF Head(rest) \in canceling THEN None ELSE Head(rest)
  /\ UNCHANGED <<posted, clientVars, left, timers, fd, calling, expired, elapsed, canceling, dead>>

CallbackReturn ==
  /\ running # None /\ running' = None
  /\ UNCHANGED <<posted, clientVars, left, timers, fd, calling, expired, rest, elapsed, canceling, dead>>

(* Mutant: re-arms only for a timer it restarted.                           *)
ResetRestarted ==
  /\ calling /\ running = None /\ rest = <<>>
  /\ calling' = FALSE /\ expired' = {} /\ elapsed' = 0
  /\ LET again == (expired \cap Repeating) \ canceling IN
     /\ left' = [s \in Timers |-> IF s \in again THEN Interval - elapsed ELSE left[s]]
     /\ timers' = timers \cup again
     /\ IF again = {} THEN UNCHANGED fd ELSE ResetToEarliest(timers', left')
  /\ UNCHANGED <<posted, clientVars, rest, running, canceling, dead>>

(* Mutant: a repeating timer is not put back.                               *)
ResetOnce ==
  /\ calling /\ running = None /\ rest = <<>>
  /\ calling' = FALSE /\ expired' = {} /\ elapsed' = 0
  /\ IF timers = {} THEN UNCHANGED fd ELSE ResetToEarliest(timers, left)
  /\ UNCHANGED <<posted, clientVars, left, timers, rest, running, canceling, dead>>

(* Restart of the repeating timers not cancelled, delete of the others, and *)
(* the fd re-armed.                                                         *)
Reset ==
  /\ calling /\ running = None /\ rest = <<>>
  /\ calling' = FALSE /\ expired' = {} /\ elapsed' = 0
  /\ LET again == (expired \cap Repeating) \ canceling IN
     /\ left' = [s \in Timers |-> IF s \in again THEN Interval - elapsed ELSE left[s]]
     /\ timers' = timers \cup again
     /\ IF timers' = {} THEN UNCHANGED fd ELSE ResetToEarliest(timers', left')
  /\ UNCHANGED <<posted, clientVars, rest, running, canceling, dead>>

Tick ==
  /\ left' = [s \in Timers |-> IF left[s] = 0 THEN 0 ELSE left[s] - 1]
  /\ fd' = IF fd > 0 THEN fd - 1 ELSE fd
  /\ elapsed' = IF calling /\ elapsed < Interval THEN elapsed + 1 ELSE elapsed
  /\ UNCHANGED <<posted, clientVars, timers, calling, expired, rest, running, canceling, dead>>

Loop == RunPosted \/ TimerfdReadCb \/ RunExpired \/ CallbackReturn \/ Reset

Next ==
  \/ \E s \in Timers, d \in 0..MaxDelay : AddTimer(s, d) \/ AddTimerFromLoop(s, d)
  \/ \E s \in Timers : AddTimerReturn(s) \/ Cancel(s) \/ CancelFromLoop(s)
  \/ Loop
  \/ Tick

(* Time passes, callbacks return, and a round of the loop serves both the   *)
(* wakeup fd and the timerfd when both are readable.                        *)
Fairness ==
  /\ WF_vars(Tick) /\ WF_vars(RunExpired \/ CallbackReturn \/ Reset)
  /\ SF_vars(RunPosted) /\ SF_vars(TimerfdReadCb)

Spec == Init /\ [][Next]_vars /\ Fairness

(***************************************************************************)
(* Properties.                                                             *)
(***************************************************************************)
(* The type of the state; a timer is in the queue or in the batch that is   *)
(* called, never in both, which Insert asserts when it puts one back.       *)
TypeOK ==
  /\ posted \in Seq({"add", "cancel"} \X Timers)
  /\ adding \subseteq created /\ created \subseteq Timers /\ asked \subseteq created
  /\ dead \subseteq asked
  /\ left \in [Timers -> Nat] /\ fd \in Nat \cup {Off}
  /\ timers \subseteq created /\ expired \subseteq created /\ expired \cap timers = {}
  /\ rest \in Seq(expired) /\ running \in Timers \cup {None}
  /\ calling \in BOOLEAN /\ canceling \subseteq Timers /\ elapsed \in 0..Interval

(* Between timer callbacks the timerfd goes off no later than the earliest  *)
(* timer, or one unit from now: cancelling the earliest and adding in the   *)
(* middle of a batch do not leave the queue unarmed.                        *)
ArmedForEarliest ==
  ~calling => \A s \in timers : fd \in 0..(IF left[s] = 0 THEN 1 ELSE left[s])

(* A timer whose cancel was run after its insertion is not called again:    *)
(* neither later in the batch that is being called, nor by a restart.       *)
CancelledStaysQuiet ==
  [][running' \notin {running, None} => running' \notin dead]_vars

(* A timer that is posted or queued is called unless its cancel is asked    *)
(* for, and a repeating one is called again and again.                      *)
TimerFires ==
  \A s \in Timers :
    \/ s \in timers \/ AddPosted(s) \/ s \in created \cap Repeating
    ~> running = s \/ s \in asked

(* "Must be thread safe. Usually be called from other threads." (AddTimer): *)
(* the Timer that another thread's AddTimer reads the sequence number of is *)
(* not deleted yet.  False: the loop may have run it and deleted it.        *)
SequenceReadAlive ==
  \A s \in adding : s \in timers \cup expired \/ AddPosted(s)

(* Timers go off, and not late (ResetTimerfd, TimerfdReadCb, Reset): the       *)
(* timerfd is armed for the earliest between callbacks, and every timer that   *)
(* nobody cancels is called.                                                   *)
TimersKeepTime ==
  []ArmedForEarliest /\ TimerFires
==============================================================================
