------------------------------- MODULE MCDevice -------------------------------
(* The way of a product through a device: the cut into blocks and the copy    *)
(* of the answers, the client that keeps tensors and hands blocks to a pool,  *)
(* and a worker of the pool.  Each is checked by itself: one of them, of the  *)
(* initial state's choice, runs.  What the client sees of the worker is that  *)
(* each task is run once and its callback called, CalledOnce and              *)
(* EveryoneReturns of WorkerBase.                                             *)
EXTENDS WorkerBase, DeviceClient, MatrixBlocks

CONSTANTS t1, t2, w1, row1, row2, col1, col2

VARIABLES part

MCSize == [k \in Tensors |-> IF k = col2 THEN 2 ELSE 1]
MCBlockKeys == [row : {row1, row2}, col : {col1, col2}]

deviceVars == <<part, vars, clientVars, blockVars>>

DeviceInit ==
  /\ part \in {"worker", "client", "blocks"}
  /\ Init /\ ClientInit /\ BlocksInit
  /\ part # "blocks" => shape = [in |-> 0, out |-> 0, stack |-> 0, stack_b |-> FALSE, block_size |-> 1]

(* A step of one part leaves the others' variables as they are.               *)
Keep(p, v) == IF part = p THEN TRUE ELSE UNCHANGED v
Of(p, A) ==
  /\ part = p /\ A /\ UNCHANGED part
  /\ Keep("worker", vars) /\ Keep("client", clientVars) /\ Keep("blocks", blockVars)

DeviceNext == Of("worker", Next) \/ Of("client", ClientNext) \/ Of("blocks", BlocksNext)

(* WorkerBase's fairness, for behaviours in which the worker is the part.     *)
DeviceFairness ==
  /\ WF_deviceVars(Of("worker", Run))
  /\ \A t \in Tasks : WF_deviceVars(Of("worker", AddTaskReturn(t)))
  /\ \A w \in Waiters : WF_deviceVars(Of("worker", WaitCheck(w)))
  /\ WF_deviceVars(Of("worker", StopNotify \/ StopJoin))

DeviceSpec == DeviceInit /\ [][DeviceNext]_deviceVars /\ DeviceFairness
===============================================================================
