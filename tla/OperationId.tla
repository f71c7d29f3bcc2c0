----------------------------- MODULE OperationId -----------------------------
(***************************************************************************)
(* ReserveOperationId: the threads that dispatch operations draw ids from  *)
(* one atomic counter, with a compare-and-swap loop that stops at the      *)
(* capacity of outputs_ and rsp_cb_counts_.                                *)
(***************************************************************************)
EXTENDS Integers

CONSTANTS
  Threads,
  Capacity   \* kMaxLifetimeOperationCount

ASSUME CapacityAssumption == Capacity \in Nat

VARIABLES
  next,   \* next_oid, ProxySvrImpl::mm_count_
  taking, \* "idle", "cas" with a value loaded, or "refused" with -1
  oid,    \* the value a thread loaded
  ids     \* the ids a thread was given

idVars == <<next, taking, oid, ids>>

IdInit ==
  /\ next = 0
  /\ taking = [t \in Threads |-> "idle"]
  /\ oid = [t \in Threads |-> 0]
  /\ ids = [t \in Threads |-> {}]

(* The loop's condition, on a value just loaded: -1 past the capacity.      *)
Loaded(t, n) ==
  /\ oid' = [oid EXCEPT ![t] = n]
  /\ taking' = [taking EXCEPT ![t] = IF n >= 0 /\ n < Capacity THEN "cas" ELSE "refused"]

Load(t) ==
  /\ taking[t] \in {"idle", "refused"}
  /\ Loaded(t, next)
  /\ UNCHANGED <<next, ids>>

(* Mutant: a store in place of the exchange.                                *)
StoreNext(t) ==
  /\ taking[t] = "cas"
  /\ next' = oid[t] + 1
  /\ ids' = [ids EXCEPT ![t] = @ \cup {oid[t]}]
  /\ taking' = [taking EXCEPT ![t] = "idle"]
  /\ UNCHANGED oid

Exchange(t) ==
  /\ taking[t] = "cas"
  /\ next = oid[t]
  /\ next' = oid[t] + 1
  /\ ids' = [ids EXCEPT ![t] = @ \cup {oid[t]}]
  /\ taking' = [taking EXCEPT ![t] = "idle"]
  /\ UNCHANGED oid

(* compare_exchange_weak loads the counter when it fails, and may fail for *)
(* no reason.                                                              *)
ExchangeFails(t) ==
  /\ taking[t] = "cas"
  /\ Loaded(t, next)
  /\ UNCHANGED <<next, ids>>

IdNext == \E t \in Threads : Load(t) \/ Exchange(t) \/ ExchangeFails(t)

IdSpec == IdInit /\ [][IdNext]_idVars

(***************************************************************************)
(* Properties.                                                             *)
(***************************************************************************)
(* The type of the state; the counter stops at the capacity. *)
IdTypeOK ==
  /\ next \in 0..Capacity
  /\ taking \in [Threads -> {"idle", "cas", "refused"}]
  /\ oid \in [Threads -> 0..Capacity]
  /\ ids \in [Threads -> SUBSET Nat]

(* No two operations share an id, and the ids given out are those below    *)
(* the counter: none is skipped, and each is a valid index of outputs_.    *)
IdsUnique ==
  /\ \A s, t \in Threads : s # t => ids[s] \cap ids[t] = {}
  /\ \A t \in Threads : ids[t] \subseteq 0..(next - 1)
  /\ \A n \in 0..(next - 1) : \E t \in Threads : n \in ids[t]

(* A thread is refused only once every id has been given out, and then     *)
(* nobody is given one again.                                              *)
RefusedWhenFull ==
  \A t \in Threads : taking[t] = "refused" => next = Capacity

==============================================================================
