--------------------------- MODULE MultiCoordinator ---------------------------
(***************************************************************************)
(* One point of the multi-coordinator scaling experiment: _execute_run     *)
(* starts a process per rank in a session of its own, and each rank joins  *)
(* a Gloo group, starts its backend and its device processes, trains with  *)
(* gradients averaged over the ranks, writes its result and leaves.        *)
(*                                                                         *)
(* Every call out of the code may raise, a collective may time out or lose *)
(* its peer, the devices may never answer, and the launcher may run out of *)
(* patience at any time.  A gradient is the set of what was added into it: *)
(* <<r, s>> stands for the local gradient of rank r in step s.             *)
(***************************************************************************)
EXTENDS Integers, Sequences, FiniteSets

CONSTANTS
  Ranks,     \* 0 .. coordinators - 1
  Params,    \* number of parameters of the model
  Steps,     \* warmup_iterations + measured_iterations
  Warmup,    \* warmup_iterations
  Fleet      \* devices_per_coordinator

ASSUME SizesAssumption ==
  /\ Cardinality(Ranks) \in Nat \ {0} /\ Ranks = 0..(Cardinality(Ranks) - 1)
  /\ Params \in Nat \ {0} /\ Steps \in Nat /\ Warmup \in 0..Steps /\ Fleet \in Nat

VARIABLES
  overlap,  \* MORPHLING_OVERLAP_GRADIENT_SYNC, the same for all ranks
  tracks,   \* whether complete, averaged losses stay within the tolerance
  lpc,      \* where _execute_run is
  lrank,    \* the rank its loop is at
  rpc,      \* where a rank is
  raised,   \* an exception is on its way through run_coordinator
  joined,   \* ranks that entered init_process_group
  inited,   \* ranks with group_initialized
  backend,  \* ranks whose backend is started
  devs,     \* device processes of a rank that are alive
  known,    \* ranks whose fleet is bound to the tuple spawn_fleet returned
  step,     \* training steps a rank finished
  at,       \* index of the parameter a rank is at
  issued,   \* the collectives a rank issued, in order, with its contribution
  done,     \* how many of them are complete at the rank
  grad,     \* grad of each parameter, and the loss
  applied,  \* the gradients each optimizer step used
  losses,   \* the losses recorded
  file,     \* rank-<r>.json
  status,   \* exit status
  global    \* global.json

launch == <<lpc, lrank, global>>
train == <<step, at, issued, done, grad, applied, losses>>
life == <<raised, joined, inited, backend, devs, known, file, status>>
env == <<overlap, tracks>>
vars == <<env, launch, rpc, life, train>>

Loss == Params + 1
Barrier == Params + 2
Absent == [kind |-> "absent", passed |-> FALSE]
None == [from |-> {}, div |-> 0]

Init ==
  /\ overlap \in BOOLEAN
  /\ tracks \in BOOLEAN
  /\ lpc = "spawn" /\ lrank = 0 /\ global = FALSE
  /\ rpc = [r \in Ranks |-> "none"]
  /\ raised = [r \in Ranks |-> FALSE]
  /\ joined = {} /\ inited = {} /\ backend = {} /\ known = {}
  /\ devs = [r \in Ranks |-> 0]
  /\ step = [r \in Ranks |-> 0]
  /\ at = [r \in Ranks |-> 1]
  /\ issued = [r \in Ranks |-> <<>>]
  /\ done = [r \in Ranks |-> 0]
  /\ grad = [r \in Ranks |-> [p \in 1..Loss |-> None]]
  /\ applied = [r \in Ranks |-> <<>>]
  /\ losses = [r \in Ranks |-> <<>>]
  \* a run directory that was used before keeps its files
  /\ \E f \in {Absent, [kind |-> "stale", passed |-> TRUE]} : file = [r \in Ranks |-> f]
  /\ status = [r \in Ranks |-> 0]

Alive(r) == rpc[r] \notin {"none", "exited"}
Goto(r, l) == rpc' = [rpc EXCEPT ![r] = l]

(* An exception leaves the try of run_coordinator for its finally.          *)
Raise(r) == raised' = [raised EXCEPT ![r] = TRUE] /\ Goto(r, "finally")

(***************************************************************************)
(* run_coordinator, before the workload.                                   *)
(***************************************************************************)
StartCollector(r) ==
  /\ rpc[r] = "start"
  /\ \/ Raise(r) /\ UNCHANGED joined
     \/ Goto(r, "init") /\ joined' = joined \cup {r} /\ UNCHANGED raised
  /\ UNCHANGED <<env, launch, inited, backend, devs, known, file, status, train>>

InitProcessGroup(r) ==
  /\ rpc[r] = "init"
  /\ joined = Ranks
  /\ inited' = inited \cup {r}
  /\ Goto(r, "backend")
  /\ UNCHANGED <<env, launch, raised, joined, backend, devs, known, file, status, train>>

(* Mutant: the timeout covers the handshake and not the wait for a peer.    *)
HandshakeTimeout(r) ==
  /\ rpc[r] = "init"
  /\ joined = Ranks
  /\ Raise(r)
  /\ UNCHANGED <<env, launch, joined, inited, backend, devs, known, file, status, train>>

InitTimeout(r) ==
  /\ rpc[r] = "init"
  /\ Raise(r)
  /\ UNCHANGED <<env, launch, joined, inited, backend, devs, known, file, status, train>>

StartBackend(r) ==
  /\ rpc[r] = "backend"
  /\ \/ Raise(r) /\ UNCHANGED backend
     \/ Goto(r, "spawn") /\ backend' = backend \cup {r} /\ UNCHANGED raised
  /\ UNCHANGED <<env, launch, joined, inited, devs, known, file, status, train>>

(* spawn_fleet starts the devices one by one; what it started is lost to    *)
(* the caller if a later one fails to start.                                *)
SpawnDevice(r) ==
  /\ rpc[r] = "spawn"
  /\ \/ /\ devs[r] < Fleet
        /\ devs' = [devs EXCEPT ![r] = @ + 1]
        /\ UNCHANGED <<rpc, raised, known>>
     \/ /\ devs[r] < Fleet
        /\ Raise(r)
        /\ UNCHANGED <<devs, known>>
     \/ /\ devs[r] = Fleet
        /\ known' = known \cup {r}
        /\ Goto(r, "connect")
        /\ UNCHANGED <<devs, raised>>
  /\ UNCHANGED <<env, launch, joined, inited, backend, file, status, train>>

(* wait_for_connections gives up after its timeout, and training starts     *)
(* with whatever connected.                                                 *)
WaitForConnections(r) ==
  /\ rpc[r] = "connect"
  /\ Goto(r, IF Steps = 0 THEN "write" ELSE "forward")
  /\ UNCHANGED <<env, launch, life, train>>

(***************************************************************************)
(* _distributed_losses.                                                    *)
(***************************************************************************)
Local(r) == [from |-> {<<r, step[r] + 1>>}, div |-> 0]

Issue(r, w, v) == issued' = [issued EXCEPT ![r] = Append(@, [what |-> w, val |-> v])]

(* zero_grad, pending.clear and the forward pass, which leaves the loss.    *)
Forward(r) ==
  /\ rpc[r] = "forward"
  /\ grad' = [grad EXCEPT ![r] = [p \in 1..Loss |-> IF p = Loss THEN Local(r) ELSE None]]
  /\ at' = [at EXCEPT ![r] = Params]
  /\ Goto(r, "backward")
  /\ UNCHANGED <<env, launch, life, step, issued, done, applied, losses>>

(* Backward accumulates the gradients from the last parameter to the first; *)
(* with overlap the hook of a parameter starts its reduction at once.       *)
Backward(r) ==
  /\ rpc[r] = "backward"
  /\ grad' = [grad EXCEPT ![r][at[r]] = Local(r)]
  /\ IF overlap THEN Issue(r, at[r], Local(r).from) ELSE UNCHANGED issued
  /\ at' = [at EXCEPT ![r] = IF @ > 1 THEN @ - 1 ELSE IF overlap THEN Params ELSE 1]
  /\ Goto(r, IF at[r] > 1 THEN "backward" ELSE IF overlap THEN "finish" ELSE "reduce")
  /\ UNCHANGED <<env, launch, life, step, done, applied, losses>>

(* A device that fails its part of a product makes either pass raise.       *)
DispatchFails(r) ==
  /\ rpc[r] \in {"forward", "backward"}
  /\ Raise(r)
  /\ UNCHANGED <<env, launch, joined, inited, backend, devs, known, file, status, train>>

(* Gloo pairs the collectives of the ranks by their order, and the sum      *)
(* replaces the tensor in place.                                            *)
Complete(r) ==
  LET k == done[r] + 1
      w == issued[r][k].what
      sum == UNION {issued[q][k].val : q \in Ranks} IN
  /\ Alive(r)
  /\ \A q \in Ranks : k <= Len(issued[q])
  /\ done' = [done EXCEPT ![r] = k]
  /\ grad' = IF w = Barrier THEN grad
             ELSE [grad EXCEPT ![r][w] = [from |-> sum, div |-> 0]]
  /\ UNCHANGED <<env, launch, rpc, life, step, at, issued, applied, losses>>

Divide(r, w) == grad' = [grad EXCEPT ![r][w].div = @ + Cardinality(Ranks)]

(* Mutant: the gradient is divided without waiting for its reduction.       *)
FinishUnwaited(r) ==
  /\ rpc[r] = "finish"
  /\ Divide(r, at[r])
  /\ at' = [at EXCEPT ![r] = @ - 1]
  /\ Goto(r, IF at[r] = 1 THEN "loss" ELSE "finish")
  /\ UNCHANGED <<env, launch, life, step, issued, done, applied, losses>>

(* _finish_async_gradient_reduction, in the order of pending.               *)
FinishAsync(r) ==
  /\ rpc[r] = "finish"
  /\ done[r] > Len(issued[r]) - at[r]
  /\ Divide(r, at[r])
  /\ at' = [at EXCEPT ![r] = @ - 1]
  /\ Goto(r, IF at[r] = 1 THEN "loss" ELSE "finish")
  /\ UNCHANGED <<env, launch, life, step, issued, done, applied, losses>>

(* _reduce_gradients_blocking, in the order of model.parameters().          *)
ReduceBlocking(r) ==
  /\ rpc[r] = "reduce"
  /\ Issue(r, at[r], grad[r][at[r]].from)
  /\ Goto(r, "reducing")
  /\ UNCHANGED <<env, launch, life, step, at, done, grad, applied, losses>>

ReducedBlocking(r) ==
  /\ rpc[r] = "reducing"
  /\ done[r] = Len(issued[r])
  /\ Divide(r, at[r])
  /\ at' = [at EXCEPT ![r] = @ + 1]
  /\ Goto(r, IF at[r] = Params THEN "loss" ELSE "reduce")
  /\ UNCHANGED <<env, launch, life, step, issued, done, applied, losses>>

ReduceLoss(r) ==
  /\ rpc[r] = "loss"
  /\ Issue(r, Loss, grad[r][Loss].from)
  /\ Goto(r, "lossing")
  /\ UNCHANGED <<env, launch, life, step, at, done, grad, applied, losses>>

ReducedLoss(r) ==
  /\ rpc[r] = "lossing"
  /\ done[r] = Len(issued[r])
  /\ Divide(r, Loss)
  /\ losses' = [losses EXCEPT ![r] = IF step[r] < Warmup THEN @ ELSE Append(@, grad'[r][Loss])]
  /\ Goto(r, "optimizer")
  /\ UNCHANGED <<env, launch, life, step, at, issued, done, applied>>

OptimizerStep(r) ==
  /\ rpc[r] = "optimizer"
  /\ applied' = [applied EXCEPT ![r] = Append(@, [p \in 1..Params |-> grad[r][p]])]
  /\ step' = [step EXCEPT ![r] = @ + 1]
  /\ Goto(r, IF step[r] + 1 = Steps THEN "write" ELSE "forward")
  /\ UNCHANGED <<env, launch, life, at, issued, done, grad, losses>>

(* A collective in progress times out, or finds its peer gone.              *)
CollectiveFails(r) ==
  /\ rpc[r] \in {"finish", "reducing", "lossing", "barrier"}
  /\ Raise(r)
  /\ UNCHANGED <<env, launch, joined, inited, backend, devs, known, file, status, train>>

(***************************************************************************)
(* The end of run_coordinator, and worker_boundary.                        *)
(***************************************************************************)
Mean(s) == [from |-> {<<q, s>> : q \in Ranks}, div |-> Cardinality(Ranks)]

(* _loss_correctness: as many losses as the reference run, all close.       *)
Passed(r) == tracks /\ losses[r] = [i \in 1..(Steps - Warmup) |-> Mean(Warmup + i)]

(* _write_result, which raises if the phases do not add up, then the        *)
(* barrier is entered.                                                      *)
WriteResult(r) ==
  /\ rpc[r] = "write"
  /\ \/ /\ file' = [file EXCEPT ![r] = [kind |-> "result", passed |-> Passed(r)]]
        /\ Issue(r, Barrier, {})
        /\ Goto(r, "barrier")
        /\ UNCHANGED raised
     \/ Raise(r) /\ UNCHANGED <<file, issued>>
  /\ UNCHANGED <<env, launch, joined, inited, backend, devs, known, status,
                 step, at, done, grad, applied, losses>>

BarrierDone(r) ==
  /\ rpc[r] = "barrier"
  /\ done[r] = Len(issued[r])
  /\ status' = [status EXCEPT ![r] = IF Passed(r) THEN 0 ELSE 1]
  /\ Goto(r, "finally")
  /\ UNCHANGED <<env, launch, raised, joined, inited, backend, devs, known, file, train>>

(* collector.stop and destroy_process_group; if the latter raises the rest  *)
(* of the finally is skipped.                                               *)
DestroyGroup(r) ==
  /\ rpc[r] = "finally"
  /\ \/ Goto(r, "fleet") /\ UNCHANGED raised
     \/ /\ r \in inited
        /\ raised' = [raised EXCEPT ![r] = TRUE]
        /\ Goto(r, "boundary")
  /\ UNCHANGED <<env, launch, joined, inited, backend, devs, known, file, status, train>>

TerminateFleet(r) ==
  /\ rpc[r] = "fleet"
  /\ devs' = IF r \in known THEN [devs EXCEPT ![r] = 0] ELSE devs
  /\ Goto(r, "stop")
  /\ UNCHANGED <<env, launch, raised, joined, inited, backend, known, file, status, train>>

StopBackend(r) ==
  /\ rpc[r] = "stop"
  /\ \/ UNCHANGED raised
     \/ r \in backend /\ raised' = [raised EXCEPT ![r] = TRUE]
  /\ Goto(r, "boundary")
  /\ UNCHANGED <<env, launch, joined, inited, backend, devs, known, file, status, train>>

(* Mutant: the status of the training is returned whatever was raised.      *)
WorkerKeepsStatus(r) ==
  /\ rpc[r] = "boundary"
  /\ UNCHANGED <<file, status>>
  /\ Goto(r, "exited")
  /\ UNCHANGED <<env, launch, raised, joined, inited, backend, devs, known, train>>

(* worker_boundary: os._exit, with status 1 and a failure record in the     *)
(* place of the result if anything was raised.                              *)
WorkerBoundary(r) ==
  /\ rpc[r] = "boundary"
  /\ IF raised[r]
     THEN /\ file' = [file EXCEPT ![r] = [kind |-> "failed", passed |-> FALSE]]
          /\ status' = [status EXCEPT ![r] = 1]
     ELSE UNCHANGED <<file, status>>
  /\ Goto(r, "exited")
  /\ UNCHANGED <<env, launch, raised, joined, inited, backend, devs, known, train>>

(***************************************************************************)
(* _execute_run, wait_for_rank_processes and cleanup_rank_processes.       *)
(***************************************************************************)
Last == Cardinality(Ranks) - 1
Loop(here, next) ==
  IF lrank < Last THEN lrank' = lrank + 1 /\ lpc' = here ELSE lrank' = 0 /\ lpc' = next

(* Popen of a rank; when it fails the ranks already started are left alone. *)
PopenRank ==
  /\ lpc = "spawn"
  /\ \/ Goto(lrank, "start") /\ Loop("spawn", "wait")
     \/ lpc' = "aborted" /\ UNCHANGED <<lrank, rpc>>
  /\ UNCHANGED <<env, global, life, train>>

(* process.wait, rank after rank; the statuses are looked at together.      *)
WaitRank ==
  /\ lpc = "wait"
  /\ rpc[lrank] = "exited"
  /\ Loop("wait", IF \E r \in Ranks : status[r] # 0 THEN "term" ELSE "load")
  /\ UNCHANGED <<env, global, rpc, life, train>>

(* Mutant: the timeout is for the first rank.                               *)
WaitFirstTimeout ==
  /\ lpc = "wait" /\ lrank = 0
  /\ rpc[lrank] # "exited"
  /\ lpc' = "term" /\ lrank' = 0
  /\ UNCHANGED <<env, global, rpc, life, train>>

WaitTimeout ==
  /\ lpc = "wait"
  /\ rpc[lrank] # "exited"
  /\ lpc' = "term" /\ lrank' = 0
  /\ UNCHANGED <<env, global, rpc, life, train>>

(* A rank has no handler for SIGTERM and dies of it; a device may take      *)
(* longer than the grace period.                                            *)
TerminateGroup ==
  /\ lpc = "term"
  /\ \E d \in 0..devs[lrank] : devs' = [devs EXCEPT ![lrank] = d]
  /\ IF Alive(lrank)
     THEN Goto(lrank, "exited") /\ status' = [status EXCEPT ![lrank] = -15]
     ELSE UNCHANGED <<rpc, status>>
  /\ Loop("term", "kill")
  /\ UNCHANGED <<env, global, raised, joined, inited, backend, known, file, train>>

(* Mutant: the rank alone is killed, its group is not.                      *)
KillRank ==
  /\ lpc = "kill"
  /\ Loop("kill", "raised")
  /\ UNCHANGED <<env, global, rpc, life, train>>

KillGroup ==
  /\ lpc = "kill"
  /\ devs' = [devs EXCEPT ![lrank] = 0]
  /\ Loop("kill", "raised")
  /\ UNCHANGED <<env, global, rpc, raised, joined, inited, backend, known, file, status, train>>

(* _load_rank_result of every rank, build_global_result and global.json.    *)
LoadResults ==
  /\ lpc = "load"
  /\ global' = \A r \in Ranks : file[r].kind \in {"result", "stale"}
  /\ lpc' = IF global' THEN "returned" ELSE "raised"
  /\ UNCHANGED <<env, lrank, rpc, life, train>>

(* Ctrl-C reaches the launcher alone: the ranks are in other sessions.      *)
Interrupt ==
  /\ lpc \in {"spawn", "wait"}
  /\ lpc' = "interrupted"
  /\ UNCHANGED <<env, lrank, global, rpc, life, train>>

Launcher ==
  PopenRank \/ WaitRank \/ WaitTimeout \/ TerminateGroup \/ KillGroup \/ LoadResults

Training(r) ==
  \/ Forward(r) \/ Backward(r) \/ FinishAsync(r) \/ ReduceBlocking(r) \/ ReducedBlocking(r)
  \/ ReduceLoss(r) \/ ReducedLoss(r) \/ OptimizerStep(r)

Next ==
  \/ Launcher \/ Interrupt
  \/ \E r \in Ranks :
       \/ StartCollector(r) \/ InitProcessGroup(r) \/ InitTimeout(r) \/ StartBackend(r)
       \/ SpawnDevice(r) \/ WaitForConnections(r) \/ Training(r) \/ DispatchFails(r)
       \/ Complete(r) \/ CollectiveFails(r) \/ WriteResult(r) \/ BarrierDone(r)
       \/ DestroyGroup(r) \/ TerminateFleet(r) \/ StopBackend(r) \/ WorkerBoundary(r)

(* The launcher's waits have a timeout and so has the rendezvous; what      *)
(* depends on devices, on the backend or on a peer need not ever happen.    *)
Fairness ==
  /\ WF_vars(Launcher)
  /\ \A r \in Ranks :
       /\ WF_vars(StartCollector(r)) /\ WF_vars(InitTimeout(r))
       /\ WF_vars(DestroyGroup(r)) /\ WF_vars(TerminateFleet(r))
       /\ WF_vars(r \notin backend /\ StopBackend(r)) /\ WF_vars(WorkerBoundary(r))

Spec == Init /\ [][Next]_vars /\ Fairness

(***************************************************************************)
(* Properties.                                                             *)
(***************************************************************************)
Places ==
  {"none", "start", "init", "backend", "spawn", "connect", "forward", "backward", "finish",
   "reduce", "reducing", "loss", "lossing", "optimizer", "write", "barrier", "finally", "fleet",
   "stop", "boundary", "exited"}
Records == [kind : {"absent", "stale", "result", "failed"}, passed : BOOLEAN]
Collectives == [what : 1..Barrier, val : SUBSET (Ranks \X (1..Steps))]
Gradients == [from : SUBSET (Ranks \X (1..Steps)), div : Nat]

(* The type of the state. *)
TypeOK ==
  /\ overlap \in BOOLEAN /\ tracks \in BOOLEAN /\ global \in BOOLEAN
  /\ lpc \in {"spawn", "wait", "term", "kill", "load", "returned", "raised", "aborted",
              "interrupted"}
  /\ lrank \in Ranks
  /\ rpc \in [Ranks -> Places] /\ raised \in [Ranks -> BOOLEAN] /\ file \in [Ranks -> Records]
  /\ joined \subseteq Ranks /\ inited \subseteq joined /\ backend \subseteq inited /\ known \subseteq backend
  /\ devs \in [Ranks -> 0..Fleet]
  /\ step \in [Ranks -> 0..Steps]
  /\ at \in [Ranks -> 0..Params + 1]
  /\ issued \in [Ranks -> Seq(Collectives)]
  /\ done \in [Ranks -> Nat] /\ grad \in [Ranks -> [1..Loss -> Gradients]]
  /\ losses \in [Ranks -> Seq(Gradients)] /\ applied \in [Ranks -> Seq([1..Params -> Gradients])]
  /\ \A r \in Ranks : done[r] \in 0..Len(issued[r]) /\ Len(applied[r]) = step[r]
  /\ status \in [Ranks -> {-15, 0, 1}]

(* Blocking or overlapped with the backward pass, what an optimizer step   *)
(* uses is each parameter's gradient of that step summed over all ranks    *)
(* and divided once: the replicas stay equal.                              *)
GradientIsGlobalMean ==
  \A r \in Ranks : \A s \in DOMAIN applied[r] :
    applied[r][s] = [p \in 1..Params |-> Mean(s)]

(* global.json is written only from results of this run in which every     *)
(* rank trained to the end and passed: never from a rank that failed, nor  *)
(* from a file an earlier run left in the directory.                       *)
GlobalFromPassedRanks ==
  global => \A r \in Ranks :
    /\ file[r] = [kind |-> "result", passed |-> TRUE]
    /\ status[r] = 0 /\ step[r] = Steps

(* When _execute_run returns, or raises because a rank failed or timed     *)
(* out, no rank and no device process is left: also not the devices a rank *)
(* lost track of or did not live to terminate.                             *)
NothingLeft ==
  lpc \in {"returned", "raised"} =>
    \A r \in Ranks : ~Alive(r) /\ devs[r] = 0

(* _execute_run comes to an end whatever the ranks and the devices do.     *)
RunEnds ==
  <>(lpc \in {"returned", "raised", "aborted", "interrupted"})

(* The ranks that are left alone when a later one cannot be started give   *)
(* up on their own and leave no device behind.                             *)
AbandonedRanksExit ==
  (lpc = "aborted") ~> \A r \in Ranks : ~Alive(r) /\ devs[r] = 0

(* _execute_run ends whatever happens, and ranks it abandons end by themselves *)
(* and take their devices along.                                               *)
RunIsOver ==
  RunEnds /\ AbandonedRanksExit
==============================================================================
