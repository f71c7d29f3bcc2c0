---------------------------- MODULE DispatchEntry ----------------------------
(***************************************************************************)
(* DispatchMatMulAsync up to its operation id: the calls that the gate     *)
(* lets through draw their ids from the one counter, each on its own       *)
(* thread, while devices go on to join and leave.  A call whose work is    *)
(* queued, or whose barrier timed out, returns -1 before it draws one.     *)
(***************************************************************************)
EXTENDS DispatchGate, OperationId

ASSUME ThreadsAssumption == Threads = Calls

entryVars == <<vars, idVars>>

EntryInit == Init /\ IdInit

(* Mutant: a call whose barrier timed out goes on.                          *)
PassedOrTimedOut(c) == call[c] \in {"dispatched", "failed"}

(* Past the gate, and not yet answered by ReserveOperationId.               *)
Passed(c) == call[c] = "dispatched"

ReserveOperationId(c) ==
  /\ Passed(c)
  /\ \/ taking[c] = "idle" /\ ids[c] = {} /\ Load(c)
     \/ Exchange(c) \/ ExchangeFails(c)
  /\ UNCHANGED vars

EntryNext ==
  \/ Next /\ UNCHANGED idVars
  \/ \E c \in Calls : ReserveOperationId(c)

(* The gate's fairness, and an exchange that is tried time and again on an  *)
(* unchanged counter succeeds.                                              *)
EntrySpec ==
  /\ EntryInit /\ [][EntryNext]_entryVars
  /\ \A c \in Calls :
       /\ SF_entryVars(Caller(c) /\ UNCHANGED idVars)
       /\ WF_entryVars(ReserveOperationId(c))
       /\ SF_entryVars(Passed(c) /\ Exchange(c) /\ UNCHANGED vars)
  /\ \A d \in Devices : WF_entryVars(Handler(d) /\ UNCHANGED idVars)

(***************************************************************************)
(* Properties.                                                             *)
(***************************************************************************)
Answered(c) == ids[c] # {} \/ taking[c] = "refused"

(* Ids go to the calls the gate let through and to no other, and no id is   *)
(* kept from one of them while a call that returned -1 took it: as long as  *)
(* no more than Capacity calls pass the gate, none of them is refused.      *)
IdsForThePassed ==
  /\ \A c \in Calls : Answered(c) => call[c] = "dispatched"
  /\ (\E c \in Calls : taking[c] = "refused")
       => \E S \in SUBSET {c \in Calls : call[c] = "dispatched"} :
            \E f \in [0..(Capacity - 1) -> S] : \A i, j \in 0..(Capacity - 1) : f[i] = f[j] => i = j

(* With a timeout, a call in BARRIER mode comes to an end whatever devices  *)
(* and other calls do: an id, -1 for the timeout or -1 for the capacity.    *)
BarrierCallEnds ==
  \A c \in Calls : call[c] = "waiting" ~> call[c] = "failed" \/ Answered(c)

(* The gate as the callers of DispatchMatMulAsync see it: dispatch waits for   *)
(* the joins and no longer, queued work is held once, and ids go to the calls  *)
(* that passed and to no other.                                                *)
GateAdmitsInTurn ==
  DispatchAfterJoins /\ NoLostWakeup /\ QueuedOnce /\ IdsForThePassed

(* In BARRIER mode everybody gets out: the call, with its timeout, and the     *)
(* registration that calls NotifyDeviceJoined under the tracker's lock.        *)
BarrierReturns ==
  BarrierCallEnds /\ BarrierRegistrationReturns
==============================================================================
