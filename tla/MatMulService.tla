---------------------------- MODULE MatMulService ----------------------------
(***************************************************************************)
(* What the caller of DispatchMatMulAsync and WaitMatMul is promised: an   *)
(* operation is submitted, its blocks are filled in some order, each once, *)
(* and it returns when, and only when, all of them are.                    *)
(***************************************************************************)
CONSTANTS Blocks, Calls, CallOf

VARIABLES phase, filled

svars == <<phase, filled>>

BlocksOf(o) == {b \in Blocks : CallOf[b] = o}

ServiceInit ==
  /\ phase = [o \in Calls |-> "unsubmitted"]
  /\ filled = {}

Submit(o) ==
  /\ phase[o] = "unsubmitted"
  /\ phase' = [phase EXCEPT ![o] = "submitted"]
  /\ UNCHANGED filled

Fill(b) ==
  /\ phase[CallOf[b]] = "submitted"
  /\ b \notin filled
  /\ filled' = filled \cup {b}
  /\ UNCHANGED phase

Return(o) ==
  /\ phase[o] = "submitted"
  /\ BlocksOf(o) \subseteq filled
  /\ phase' = [phase EXCEPT ![o] = "returned"]
  /\ UNCHANGED filled

ServiceNext ==
  \/ \E o \in Calls : Submit(o) \/ Return(o)
  \/ \E b \in Blocks : Fill(b)

ServiceSpec == ServiceInit /\ [][ServiceNext]_svars
==============================================================================
