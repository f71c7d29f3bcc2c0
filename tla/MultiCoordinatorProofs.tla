------------------------ MODULE MultiCoordinatorProofs ------------------------
(***************************************************************************)
(* Proofs about MultiCoordinator, for any number of ranks, parameters,     *)
(* steps and devices. This module has the invariants, and the steps that   *)
(* keep the types, what a rank joined and how it exits, and the launcher's *)
(* loops. MultiTrainingProofs has those of the collectives and gradients,  *)
(* and the theorems.                                                       *)
(***************************************************************************)
EXTENDS MultiCoordinator, TLAPS

(***************************************************************************)
(* The invariants.                                                         *)
(***************************************************************************)
Starting == {"start", "init", "backend", "spawn"}
Stepping == {"forward", "backward", "finish", "reduce", "reducing", "loss", "lossing", "optimizer"}
Leaving == {"finally", "fleet", "stop", "boundary"}

(* A rank on its way out without an exception wrote its result, and no rank *)
(* exits with status 0 that did not pass and terminate its devices.         *)
Trained(r) ==
  /\ r \in known /\ step[r] = Steps
  /\ Passed(r) => file[r] = [kind |-> "result", passed |-> TRUE]

Exits(r) ==
  /\ rpc[r] \notin Leaving \cup {"exited"} => status[r] = 0 /\ raised[r] = FALSE
  /\ rpc[r] \in Stepping \cup {"connect", "write"} => r \in known
  /\ rpc[r] = "write" => step[r] = Steps
  /\ rpc[r] = "barrier" => Trained(r)
  /\ rpc[r] \in Leaving /\ raised[r] = FALSE =>
       Trained(r) /\ status[r] = IF Passed(r) THEN 0 ELSE 1
  /\ rpc[r] \in {"stop", "boundary"} /\ raised[r] = FALSE => devs[r] = 0
  /\ rpc[r] = "exited" /\ status[r] = 0 => Trained(r) /\ Passed(r) /\ devs[r] = 0

ExitInv == \A r \in Ranks : Exits(r)

(* What a rank joined and started by the time it needs it.                  *)
Member(r) ==
  /\ rpc[r] = "init" => r \in joined
  /\ rpc[r] = "backend" => r \in inited
  /\ rpc[r] = "spawn" => r \in backend

MemberInv == \A r \in Ranks : Member(r)

(* The launcher goes through the ranks in order, and once it looks at the   *)
(* results every rank has exited.                                           *)
LaunchInv ==
  /\ lpc = "spawn" => \A r \in Ranks : r >= lrank => rpc[r] = "none"
  /\ lpc = "wait" => \A r \in Ranks : r < lrank => rpc[r] = "exited"
  /\ lpc \in {"load", "returned"} => \A r \in Ranks : rpc[r] = "exited" /\ status[r] = 0
  /\ lpc = "term" => \A r \in Ranks : r < lrank => ~Alive(r)
  /\ lpc \in {"kill", "raised"} => \A r \in Ranks : ~Alive(r)
  /\ lpc = "kill" => \A r \in Ranks : r < lrank => devs[r] = 0
  /\ lpc = "raised" => \A r \in Ranks : devs[r] = 0
  /\ global => lpc = "returned"

(* The collectives of a step, numbered from 1: the parameters in the order  *)
(* they are reduced in, then the loss. Order is its own inverse.            *)
Order(j) == IF j = Loss THEN Loss ELSE IF overlap THEN Loss - j ELSE j
Base(s) == s * Loss

Issued(r) ==
  /\ \A s \in Nat, j \in 1..Loss : s < Steps /\ Base(s) + j <= Len(issued[r]) =>
       issued[r][Base(s) + j] = [what |-> Order(j), val |-> {<<r, s + 1>>}]
  /\ Len(issued[r]) > Base(Steps) => issued[r][Base(Steps) + 1].what = Barrier

IssuedInv == \A r \in Ranks : Issued(r)

(* Where a rank is in its collectives: b were issued in earlier steps.      *)
PlaceAt(r, b) ==
  /\ rpc[r] \in Starting \cup {"none", "connect"} =>
       step[r] = 0 /\ Len(issued[r]) = 0 /\ done[r] = 0
  /\ rpc[r] \in Stepping => step[r] < Steps
  /\ rpc[r] = "forward" => Len(issued[r]) = b /\ done[r] = b
  /\ rpc[r] = "backward" =>
       /\ at[r] \in 1..Params /\ done[r] >= b
       /\ Len(issued[r]) = IF overlap THEN b + Params - at[r] ELSE b
  /\ rpc[r] = "finish" =>
       /\ overlap = TRUE /\ at[r] \in 1..Params
       /\ Len(issued[r]) = b + Params /\ done[r] >= b + Params - at[r]
  /\ rpc[r] = "reduce" =>
       /\ overlap = FALSE /\ at[r] \in 1..Params
       /\ Len(issued[r]) = b + at[r] - 1 /\ done[r] = Len(issued[r])
  /\ rpc[r] = "reducing" =>
       /\ overlap = FALSE /\ at[r] \in 1..Params
       /\ Len(issued[r]) = b + at[r] /\ done[r] >= b + at[r] - 1
  /\ rpc[r] = "loss" => Len(issued[r]) = b + Params /\ done[r] = b + Params
  /\ rpc[r] = "lossing" => Len(issued[r]) = b + Loss /\ done[r] >= b + Params
  /\ rpc[r] = "optimizer" => Len(issued[r]) = b + Loss /\ done[r] = b + Loss
  /\ rpc[r] = "write" => step[r] = Steps /\ Len(issued[r]) = b /\ done[r] = b
  /\ rpc[r] = "barrier" => step[r] = Steps /\ Len(issued[r]) = b + 1

Place(r) == PlaceAt(r, Base(step[r]))

PlaceInv == \A r \in Ranks : Place(r)

(* The gradient of a parameter during a step: its own, then the sum of all  *)
(* ranks once its reduction is complete, then divided.                      *)
Produced(r, p) == rpc[r] = "backward" => p > at[r]
Divided(r, p) ==
  \/ rpc[r] = "finish" /\ p > at[r] /\ p # Loss
  \/ rpc[r] \in {"reduce", "reducing"} /\ p < at[r]
  \/ rpc[r] \in {"loss", "lossing"} /\ p # Loss
  \/ rpc[r] = "optimizer"

Grad(r) ==
  rpc[r] \in Stepping \ {"forward"} => \A p \in 1..Loss :
    /\ grad[r][p].from = IF done[r] >= Base(step[r]) + Order(p) THEN Mean(step[r] + 1).from
                         ELSE IF Produced(r, p) THEN Local(r).from ELSE {}
    /\ grad[r][p].div = IF Divided(r, p) THEN Cardinality(Ranks) ELSE 0

GradInv == \A r \in Ranks : Grad(r)

Applied(r) == \A s \in DOMAIN applied[r] : applied[r][s] = [p \in 1..Params |-> Mean(s)]

(***************************************************************************)
(* Steps of one rank.                                                      *)
(***************************************************************************)
RankStep(r) ==
  \/ StartCollector(r) \/ InitProcessGroup(r) \/ InitTimeout(r) \/ StartBackend(r)
  \/ SpawnDevice(r) \/ WaitForConnections(r) \/ Training(r) \/ DispatchFails(r)
  \/ Complete(r) \/ CollectiveFails(r) \/ WriteResult(r) \/ BarrierDone(r)
  \/ DestroyGroup(r) \/ TerminateFleet(r) \/ StopBackend(r) \/ WorkerBoundary(r)

(* What one rank does leaves the others where they are.                     *)
Same(q) ==
  /\ rpc'[q] = rpc[q] /\ raised'[q] = raised[q] /\ devs'[q] = devs[q]
  /\ file'[q] = file[q] /\ status'[q] = status[q]
  /\ q \in joined' <=> q \in joined
  /\ q \in inited' <=> q \in inited
  /\ q \in backend' <=> q \in backend
  /\ q \in known' <=> q \in known

SameTraining(q) ==
  /\ step'[q] = step[q] /\ at'[q] = at[q] /\ issued'[q] = issued[q] /\ done'[q] = done[q]
  /\ grad'[q] = grad[q] /\ applied'[q] = applied[q] /\ losses'[q] = losses[q]

LEMMA Numbers ==
  /\ Cardinality(Ranks) \in Nat \ {0} /\ Last \in Ranks /\ 0 \in Ranks /\ Ranks \subseteq Nat
  /\ \A r \in Ranks : r <= Last /\ (r < Last => r + 1 \in Ranks)
  BY SizesAssumption DEF Last

LEMMA LoopRanks ==
  ASSUME lrank \in Ranks, NEW here, NEW next, Loop(here, next)
  PROVE  /\ lrank' \in Ranks
         /\ \/ lpc' = here /\ lrank' = lrank + 1
            \/ lpc' = next /\ lrank' = 0 /\ \A r \in Ranks : r <= lrank
  BY Numbers DEF Loop

LEMMA RankFrame ==
  ASSUME TypeOK, NEW r \in Ranks, RankStep(r), NEW q \in Ranks, q # r
  PROVE  Same(q) /\ SameTraining(q) /\ UNCHANGED <<env, launch>>
<1> USE DEF env, launch, life, train, Goto, Raise, TypeOK, Same, SameTraining
<1>1. CASE StartCollector(r) \/ InitProcessGroup(r) \/ InitTimeout(r) \/ StartBackend(r)
  BY <1>1, Zenon DEF StartCollector, InitProcessGroup, InitTimeout, StartBackend
<1>2. CASE SpawnDevice(r) \/ WaitForConnections(r)
  BY <1>2, Zenon DEF SpawnDevice, WaitForConnections
<1>3. CASE Forward(r) \/ ReduceBlocking(r) \/ ReduceLoss(r)
  BY <1>3, Zenon DEF Forward, ReduceBlocking, ReduceLoss, Issue
<1>9. CASE Backward(r)
  <2>1. issued'[q] = issued[q]
    BY <1>9, Zenon DEF Backward, Issue
  <2> QED
    BY <1>9, <2>1, Zenon DEF Backward
<1>4. CASE FinishAsync(r) \/ ReducedBlocking(r) \/ ReducedLoss(r)
  BY <1>4, ZenonT(30) DEF FinishAsync, ReducedBlocking, ReducedLoss, Divide
<1>5. CASE OptimizerStep(r) \/ Complete(r)
  BY <1>5, ZenonT(30) DEF OptimizerStep, Complete
<1>6. CASE DispatchFails(r) \/ CollectiveFails(r)
  BY <1>6, Zenon DEF DispatchFails, CollectiveFails
<1>7. CASE WriteResult(r) \/ BarrierDone(r)
  BY <1>7, Zenon DEF WriteResult, BarrierDone, Issue
<1>8. CASE DestroyGroup(r) \/ TerminateFleet(r) \/ StopBackend(r) \/ WorkerBoundary(r)
  BY <1>8, ZenonT(30) DEF DestroyGroup, TerminateFleet, StopBackend, WorkerBoundary
<1> QED
  BY <1>1, <1>2, <1>3, <1>4, <1>5, <1>6, <1>7, <1>8, <1>9, Zenon DEF RankStep, Training

LEMMA IssueFacts ==
  ASSUME TypeOK, NEW r \in Ranks, NEW w \in 1..Barrier, NEW v \in SUBSET (Ranks \X (1..Steps)),
         Issue(r, w, v)
  PROVE  /\ issued' \in [Ranks -> Seq(Collectives)]
         /\ Len(issued[r]) \in Nat /\ Len(issued'[r]) = Len(issued[r]) + 1
         /\ issued'[r][Len(issued[r]) + 1] = [what |-> w, val |-> v]
         /\ \A k \in 1..Len(issued[r]) : issued'[r][k] = issued[r][k]
         /\ \A q \in Ranks : q # r => issued'[q] = issued[q]
<1> DEFINE e == [what |-> w, val |-> v]
<1>1. issued \in [Ranks -> Seq(Collectives)] /\ issued[r] \in Seq(Collectives) /\ e \in Collectives
  BY Zenon DEF TypeOK, Collectives
<1>2. issued' = [issued EXCEPT ![r] = Append(issued[r], e)]
  BY Zenon DEF Issue
<1> HIDE DEF e
<1>3. Append(issued[r], e) \in Seq(Collectives)
  BY <1>1
<1>4. issued'[r] = Append(issued[r], e) /\ issued' \in [Ranks -> Seq(Collectives)]
  BY <1>1, <1>2, <1>3, Zenon
<1>5. \A q \in Ranks : q # r => issued'[q] = issued[q]
  BY <1>1, <1>2, Zenon
<1>6. /\ Len(issued[r]) \in Nat /\ Len(issued'[r]) = Len(issued[r]) + 1
      /\ issued'[r][Len(issued[r]) + 1] = e
      /\ \A k \in 1..Len(issued[r]) : issued'[r][k] = issued[r][k]
  BY <1>1, <1>4
<1> QED
  BY <1>4, <1>5, <1>6, Zenon DEF e

LEMMA DivideFacts ==
  ASSUME TypeOK, NEW r \in Ranks, NEW w \in 1..Loss, Divide(r, w)
  PROVE  /\ grad' \in [Ranks -> [1..Loss -> Gradients]]
         /\ grad'[r][w].from = grad[r][w].from
         /\ grad'[r][w].div = grad[r][w].div + Cardinality(Ranks)
         /\ \A p \in 1..Loss : p # w => grad'[r][p] = grad[r][p]
<1>1. grad \in [Ranks -> [1..Loss -> Gradients]]
  BY Zenon DEF TypeOK
<1>2. grad[r] \in [1..Loss -> Gradients] /\ grad[r][w] \in Gradients
  BY <1>1, Zenon
<1>3. grad' = [grad EXCEPT ![r] = [grad[r] EXCEPT ![w] =
                [grad[r][w] EXCEPT !.div = grad[r][w].div + Cardinality(Ranks)]]]
  BY Zenon DEF Divide
<1> DEFINE g == [grad[r][w] EXCEPT !.div = grad[r][w].div + Cardinality(Ranks)]
<1>4. g \in Gradients /\ g.from = grad[r][w].from /\ g.div = grad[r][w].div + Cardinality(Ranks)
  BY <1>2, Numbers DEF Gradients
<1> HIDE DEF g
<1>5. grad' = [grad EXCEPT ![r] = [grad[r] EXCEPT ![w] = g]]
  BY <1>3, Zenon DEF g
<1>6. grad'[r] = [grad[r] EXCEPT ![w] = g] /\ [grad[r] EXCEPT ![w] = g] \in [1..Loss -> Gradients]
  BY <1>1, <1>2, <1>4, <1>5, Zenon
<1> QED
  BY <1>1, <1>2, <1>4, <1>5, <1>6, Zenon

(***************************************************************************)
(* The types.                                                              *)
(***************************************************************************)
LEMMA InitType == Init => TypeOK
<1> SUFFICES ASSUME Init PROVE TypeOK
  BY Zenon
<1>1. overlap \in BOOLEAN /\ tracks \in BOOLEAN /\ global \in BOOLEAN /\ raised \in [Ranks -> BOOLEAN]
  BY Zenon DEF Init
<1>2. /\ lrank \in Ranks /\ devs \in [Ranks -> 0..Fleet] /\ step \in [Ranks -> 0..Steps]
      /\ at \in [Ranks -> 0..Params + 1] /\ status \in [Ranks -> {-15, 0, 1}]
  BY Numbers, SizesAssumption DEF Init
<1>3. PICK f \in {Absent, [kind |-> "stale", passed |-> TRUE]} : file = [r \in Ranks |-> f]
  BY Zenon DEF Init
<1>4. f \in Records
  <2>1. Absent \in Records /\ [kind |-> "stale", passed |-> TRUE] \in Records
    BY Zenon DEF Absent, Records
  <2> QED
    BY <1>3, <2>1, Zenon
<1>5. file \in [Ranks -> Records]
  BY <1>3, <1>4, Zenon
<1>6. /\ issued \in [Ranks -> Seq(Collectives)]
      /\ losses \in [Ranks -> Seq(Gradients)]
      /\ applied \in [Ranks -> Seq([1..Params -> Gradients])]
      /\ done \in [Ranks -> Nat]
  BY DEF Init
<1>7. None \in Gradients
  BY Zenon DEF None, Gradients
<1>8. grad \in [Ranks -> [1..Loss -> Gradients]]
  BY <1>7, Zenon DEF Init
<1>9. \A r \in Ranks : done[r] \in 0..Len(issued[r]) /\ Len(applied[r]) = step[r]
  BY DEF Init
<1>10. rpc \in [Ranks -> Places]
  BY Zenon DEF Init, Places
<1> QED
  BY <1>1, <1>2, <1>5, <1>6, <1>8, <1>9, <1>10, Zenon DEF Init, TypeOK

(* What the launcher and the steps outside training assign.                 *)
LEMMA LifeType ==
  ASSUME TypeOK, MemberInv, NEW r \in Ranks,
         \/ StartCollector(r) \/ InitProcessGroup(r) \/ InitTimeout(r) \/ StartBackend(r)
         \/ SpawnDevice(r) \/ WaitForConnections(r) \/ DispatchFails(r) \/ CollectiveFails(r)
         \/ BarrierDone(r) \/ DestroyGroup(r) \/ TerminateFleet(r) \/ StopBackend(r)
         \/ WorkerBoundary(r)
  PROVE  TypeOK'
<1> USE DEF env, launch, life, train
<1>1. /\ rpc \in [Ranks -> Places] /\ raised \in [Ranks -> BOOLEAN] /\ file \in [Ranks -> Records]
      /\ devs \in [Ranks -> 0..Fleet] /\ status \in [Ranks -> {-15, 0, 1}]
  BY Zenon DEF TypeOK
<1>2. \A l \in Places : Goto(r, l) => rpc' \in [Ranks -> Places]
  BY <1>1, Zenon DEF Goto
<1>3. /\ raised' = [raised EXCEPT ![r] = TRUE] => raised' \in [Ranks -> BOOLEAN]
      /\ Raise(r) => rpc' \in [Ranks -> Places] /\ raised' \in [Ranks -> BOOLEAN]
  <2>1. TRUE \in BOOLEAN /\ "finally" \in Places
    BY Zenon DEF Places
  <2> QED
    BY <1>1, <1>2, <2>1, Zenon DEF Raise
<1>4. /\ "init" \in Places /\ "backend" \in Places /\ "spawn" \in Places /\ "connect" \in Places
      /\ "write" \in Places /\ "forward" \in Places /\ "finally" \in Places /\ "fleet" \in Places
      /\ "boundary" \in Places /\ "stop" \in Places /\ "exited" \in Places
  BY Zenon DEF Places
<1>5. CASE StartCollector(r)
  BY <1>2, <1>3, <1>4, <1>5, Zenon DEF StartCollector, TypeOK
<1>6. CASE InitProcessGroup(r)
  BY <1>2, <1>4, <1>6, Zenon DEF InitProcessGroup, TypeOK
<1>7. CASE InitTimeout(r) \/ DispatchFails(r) \/ CollectiveFails(r)
  BY <1>3, <1>7, ZenonT(30) DEF InitTimeout, DispatchFails, CollectiveFails, TypeOK
<1>8. CASE StartBackend(r)
  <2>1. r \in inited
    BY <1>8, Zenon DEF StartBackend, MemberInv, Member
  <2> QED
    BY <1>2, <1>3, <1>4, <1>8, <2>1, Zenon DEF StartBackend, TypeOK
<1>9. CASE SpawnDevice(r)
  <2>1. r \in backend
    BY <1>9, Zenon DEF SpawnDevice, MemberInv, Member
  <2>2. devs' \in [Ranks -> 0..Fleet]
    BY <1>1, <1>9, SizesAssumption DEF SpawnDevice
  <2> QED
    BY <1>2, <1>3, <1>4, <1>9, <2>1, <2>2, ZenonT(30) DEF SpawnDevice, TypeOK
<1>10. CASE WaitForConnections(r)
  BY <1>2, <1>4, <1>10, Zenon DEF WaitForConnections, TypeOK
<1>11. CASE BarrierDone(r)
  <2>1. status' \in [Ranks -> {-15, 0, 1}]
    BY <1>1, <1>11, Zenon DEF BarrierDone
  <2> QED
    BY <1>2, <1>4, <1>11, <2>1, Zenon DEF BarrierDone, TypeOK
<1>12. CASE DestroyGroup(r) \/ StopBackend(r)
  BY <1>2, <1>3, <1>4, <1>12, ZenonT(30) DEF DestroyGroup, StopBackend, TypeOK
<1>13. CASE TerminateFleet(r)
  <2>1. devs' \in [Ranks -> 0..Fleet]
    BY <1>1, <1>13, SizesAssumption DEF TerminateFleet
  <2> QED
    BY <1>2, <1>4, <1>13, <2>1, Zenon DEF TerminateFleet, TypeOK
<1>14. CASE WorkerBoundary(r)
  <2>1. [kind |-> "failed", passed |-> FALSE] \in Records
    BY Zenon DEF Records
  <2>2. file' \in [Ranks -> Records] /\ status' \in [Ranks -> {-15, 0, 1}]
    BY <1>1, <1>14, <2>1, Zenon DEF WorkerBoundary
  <2> QED
    BY <1>2, <1>4, <1>14, <2>2, Zenon DEF WorkerBoundary, TypeOK
<1> QED
  BY <1>5, <1>6, <1>7, <1>8, <1>9, <1>10, <1>11, <1>12, <1>13, <1>14, Zenon

(* Training: place in the collectives, gradients and what was applied.      *)
LEMMA TrainType ==
  ASSUME TypeOK, PlaceInv, NEW r \in Ranks, Training(r)
  PROVE  TypeOK'
<1> USE DEF env, launch, life, train
<1>1. /\ rpc \in [Ranks -> Places] /\ step \in [Ranks -> 0..Steps]
      /\ at \in [Ranks -> 0..Params + 1] /\ grad \in [Ranks -> [1..Loss -> Gradients]]
      /\ losses \in [Ranks -> Seq(Gradients)] /\ applied \in [Ranks -> Seq([1..Params -> Gradients])]
      /\ issued \in [Ranks -> Seq(Collectives)] /\ done \in [Ranks -> Nat]
      /\ \A q \in Ranks : done[q] \in 0..Len(issued[q]) /\ Len(applied[q]) = step[q]
  BY Zenon DEF TypeOK
<1>2. \A l \in Places : Goto(r, l) => rpc' \in [Ranks -> Places]
  BY <1>1, Zenon DEF Goto
<1>3. \A l \in Stepping \cup {"write"} : l \in Places
  BY Zenon DEF Places, Stepping
<1>4. rpc[r] \in Stepping
  BY Zenon DEF Training, Stepping, Forward, Backward, FinishAsync, ReduceBlocking, ReducedBlocking,
     ReduceLoss, ReducedLoss, OptimizerStep
<1>5. step[r] < Steps /\ step[r] + 1 \in 1..Steps /\ step[r] \in Nat
  BY <1>1, <1>4, SizesAssumption DEF PlaceInv, Place, PlaceAt
<1>6. Params \in Nat \ {0} /\ Loss = Params + 1 /\ Barrier = Params + 2
  BY SizesAssumption, Zenon DEF Loss, Barrier
<1>7. Local(r) \in Gradients /\ Local(r).from \in SUBSET (Ranks \X (1..Steps)) /\ None \in Gradients
  BY <1>5 DEF Local, Gradients, None
<1>8. ASSUME NEW w \in 1..Loss, NEW v \in SUBSET (Ranks \X (1..Steps)), Issue(r, w, v), UNCHANGED done
      PROVE  /\ issued' \in [Ranks -> Seq(Collectives)]
             /\ \A q \in Ranks : done'[q] \in 0..Len(issued'[q])
  <2>1. w \in 1..Barrier
    BY <1>6
  <2>2. /\ issued' \in [Ranks -> Seq(Collectives)]
        /\ Len(issued[r]) \in Nat /\ Len(issued'[r]) = Len(issued[r]) + 1
        /\ \A q \in Ranks : q # r => issued'[q] = issued[q]
    BY <1>8, <2>1, IssueFacts, Zenon
  <2>3. done'[r] \in 0..Len(issued'[r])
    BY <1>1, <1>8, <2>2
  <2>4. \A q \in Ranks : q # r => done'[q] \in 0..Len(issued'[q])
    BY <1>1, <1>8, <2>2, Zenon
  <2> QED
    BY <2>2, <2>3, <2>4, Zenon
<1>9. CASE Forward(r)
  <2>1. at' \in [Ranks -> 0..Params + 1]
    BY <1>1, <1>6, <1>9 DEF Forward
  <2>2. [p \in 1..Loss |-> IF p = Loss THEN Local(r) ELSE None] \in [1..Loss -> Gradients]
    BY <1>7, Zenon
  <2>3. grad' \in [Ranks -> [1..Loss -> Gradients]]
    BY <1>1, <1>9, <2>2, Zenon DEF Forward
  <2>4. rpc' \in [Ranks -> Places]
    BY <1>2, <1>3, <1>9, Zenon DEF Forward, Stepping
  <2> QED
    BY <1>9, <2>1, <2>3, <2>4, Zenon DEF Forward, TypeOK
<1>10. CASE Backward(r)
  <2>1. at[r] \in 1..Params
    BY <1>10, Zenon DEF Backward, PlaceInv, Place, PlaceAt
  <2>2. at' \in [Ranks -> 0..Params + 1]
    BY <1>1, <1>6, <1>10, <2>1 DEF Backward
  <2>3. grad' \in [Ranks -> [1..Loss -> Gradients]]
    <3>1. [grad[r] EXCEPT ![at[r]] = Local(r)] \in [1..Loss -> Gradients]
      BY <1>1, <1>7, Zenon
    <3>2. grad' = [grad EXCEPT ![r] = [grad[r] EXCEPT ![at[r]] = Local(r)]]
      BY <1>10, Zenon DEF Backward
    <3> QED
      BY <1>1, <3>1, <3>2, Zenon
  <2>4. rpc' \in [Ranks -> Places]
    BY <1>2, <1>3, <1>10, Zenon DEF Backward, Stepping
  <2>5. issued' \in [Ranks -> Seq(Collectives)] /\ \A q \in Ranks : done'[q] \in 0..Len(issued'[q])
    <3>1. at[r] \in 1..Loss
      BY <1>6, <2>1
    <3>2. Issue(r, at[r], Local(r).from) \/ UNCHANGED issued
      BY <1>10, Zenon DEF Backward
    <3>3. UNCHANGED done
      BY <1>10, Zenon DEF Backward
    <3> QED
      BY <1>1, <1>7, <1>8, <3>1, <3>2, <3>3, Zenon
  <2> QED
    BY <1>10, <2>2, <2>3, <2>4, <2>5, Zenon DEF Backward, TypeOK
<1>11. CASE FinishAsync(r)
  <2>1. at[r] \in 1..Params
    BY <1>11, Zenon DEF FinishAsync, PlaceInv, Place, PlaceAt
  <2>2. at' \in [Ranks -> 0..Params + 1]
    BY <1>1, <1>6, <1>11, <2>1 DEF FinishAsync
  <2>3. grad' \in [Ranks -> [1..Loss -> Gradients]]
    BY <1>6, <1>11, <2>1, DivideFacts DEF FinishAsync
  <2>4. rpc' \in [Ranks -> Places]
    BY <1>2, <1>3, <1>11, Zenon DEF FinishAsync, Stepping
  <2> QED
    BY <1>11, <2>2, <2>3, <2>4, Zenon DEF FinishAsync, TypeOK
<1>12. CASE ReduceBlocking(r)
  <2>1. at[r] \in 1..Loss
    BY <1>6, <1>12 DEF ReduceBlocking, PlaceInv, Place, PlaceAt
  <2>2. grad[r][at[r]].from \in SUBSET (Ranks \X (1..Steps))
    <3>1. grad[r][at[r]] \in Gradients
      BY <1>1, <2>1, ZenonT(30)
    <3> QED
      BY <3>1, Zenon DEF Gradients
  <2>3. issued' \in [Ranks -> Seq(Collectives)] /\ \A q \in Ranks : done'[q] \in 0..Len(issued'[q])
    BY <1>8, <1>12, <2>1, <2>2, Zenon DEF ReduceBlocking
  <2>4. rpc' \in [Ranks -> Places]
    BY <1>2, <1>3, <1>12, Zenon DEF ReduceBlocking, Stepping
  <2> QED
    BY <1>12, <2>3, <2>4, ZenonT(30) DEF ReduceBlocking, TypeOK
<1>13. CASE ReducedBlocking(r)
  <2>1. at[r] \in 1..Params
    BY <1>13, Zenon DEF ReducedBlocking, PlaceInv, Place, PlaceAt
  <2>2. at' \in [Ranks -> 0..Params + 1]
    BY <1>1, <1>6, <1>13, <2>1 DEF ReducedBlocking
  <2>3. grad' \in [Ranks -> [1..Loss -> Gradients]]
    BY <1>6, <1>13, <2>1, DivideFacts DEF ReducedBlocking
  <2>4. rpc' \in [Ranks -> Places]
    BY <1>2, <1>3, <1>13, Zenon DEF ReducedBlocking, Stepping
  <2> QED
    BY <1>13, <2>2, <2>3, <2>4, Zenon DEF ReducedBlocking, TypeOK
<1>14. CASE ReduceLoss(r)
  <2>1. Loss \in 1..Loss
    BY <1>6
  <2>2. grad[r][Loss].from \in SUBSET (Ranks \X (1..Steps))
    BY <1>1, <2>1 DEF Gradients
  <2>3. issued' \in [Ranks -> Seq(Collectives)] /\ \A q \in Ranks : done'[q] \in 0..Len(issued'[q])
    BY <1>8, <1>14, <2>1, <2>2, Zenon DEF ReduceLoss
  <2>4. rpc' \in [Ranks -> Places]
    BY <1>2, <1>3, <1>14, Zenon DEF ReduceLoss, Stepping
  <2> QED
    BY <1>14, <2>3, <2>4, Zenon DEF ReduceLoss, TypeOK
<1>15. CASE ReducedLoss(r)
  <2>1. Loss \in 1..Loss
    BY <1>6
  <2>2. grad' \in [Ranks -> [1..Loss -> Gradients]]
    BY <1>15, <2>1, DivideFacts, Zenon DEF ReducedLoss
  <2>3. losses' \in [Ranks -> Seq(Gradients)]
    <3>1. grad'[r][Loss] \in Gradients
      BY <2>1, <2>2, Zenon
    <3>2. Append(losses[r], grad'[r][Loss]) \in Seq(Gradients)
      BY <1>1, <3>1
    <3> QED
      BY <1>1, <1>15, <3>2, Zenon DEF ReducedLoss
  <2>4. rpc' \in [Ranks -> Places]
    BY <1>2, <1>3, <1>15, Zenon DEF ReducedLoss, Stepping
  <2> QED
    BY <1>15, <2>2, <2>3, <2>4, Zenon DEF ReducedLoss, TypeOK
<1>16. CASE OptimizerStep(r)
  <2>1. [p \in 1..Params |-> grad[r][p]] \in [1..Params -> Gradients]
    BY <1>1, <1>6
  <2>2. applied' \in [Ranks -> Seq([1..Params -> Gradients])]
    <3>1. Append(applied[r], [p \in 1..Params |-> grad[r][p]]) \in Seq([1..Params -> Gradients])
      BY <1>1, <2>1
    <3> QED
      BY <1>1, <1>16, <3>1, Zenon DEF OptimizerStep
  <2>3. step' \in [Ranks -> 0..Steps]
    BY <1>1, <1>5, <1>16, SizesAssumption, SMTT(20) DEF OptimizerStep
  <2>4. \A q \in Ranks : Len(applied'[q]) = step'[q]
    <3>1. Len(Append(applied[r], [p \in 1..Params |-> grad[r][p]])) = Len(applied[r]) + 1
      BY <1>1, <2>1
    <3>2. applied'[r] = Append(applied[r], [p \in 1..Params |-> grad[r][p]]) /\ step'[r] = step[r] + 1
      BY <1>1, <1>16, Zenon DEF OptimizerStep
    <3>3. \A q \in Ranks : q # r => applied'[q] = applied[q] /\ step'[q] = step[q]
      BY <1>1, <1>16, Zenon DEF OptimizerStep
    <3> QED
      BY <1>1, <3>1, <3>2, <3>3, Zenon
  <2>5. rpc' \in [Ranks -> Places]
    BY <1>2, <1>3, <1>16, Zenon DEF OptimizerStep, Stepping
  <2> QED
    BY <1>16, <2>2, <2>3, <2>4, <2>5, Zenon DEF OptimizerStep, TypeOK
<1> QED
  BY <1>9, <1>10, <1>11, <1>12, <1>13, <1>14, <1>15, <1>16, Zenon DEF Training

(* The collectives that complete, and the result that is written.           *)
LEMMA CompleteType ==
  ASSUME TypeOK, NEW r \in Ranks, Complete(r)
  PROVE  TypeOK'
<1> USE DEF env, launch, life, train
<1> DEFINE k == done[r] + 1
<1> DEFINE sum == UNION {issued[q][k].val : q \in Ranks}
<1>1. /\ grad \in [Ranks -> [1..Loss -> Gradients]]
      /\ issued \in [Ranks -> Seq(Collectives)] /\ done \in [Ranks -> Nat]
      /\ \A q \in Ranks : done[q] \in 0..Len(issued[q]) /\ Len(applied[q]) = step[q]
  BY Zenon DEF TypeOK
<1>2. \A q \in Ranks : k <= Len(issued[q])
  BY Zenon DEF Complete
<1>3. ASSUME NEW q \in Ranks PROVE issued[q][k] \in Collectives
  <2>1. issued[q] \in Seq(Collectives) /\ k \in 1..Len(issued[q])
    BY <1>1, <1>2
  <2> QED
    BY <2>1
<1>4. \A q \in Ranks : issued[q][k].val \subseteq Ranks \X (1..Steps)
  BY <1>3, Zenon DEF Collectives
<1> HIDE DEF k
<1>5. sum \subseteq Ranks \X (1..Steps)
  BY <1>4, Zenon
<1> HIDE DEF sum
<1>6. [from |-> sum, div |-> 0] \in Gradients
  BY <1>5, Zenon DEF Gradients
<1>7. \/ UNCHANGED grad
      \/ grad' = [grad EXCEPT ![r] = [grad[r] EXCEPT ![issued[r][k].what] = [from |-> sum, div |-> 0]]]
  BY Zenon DEF Complete, k, sum
<1>8. grad' \in [Ranks -> [1..Loss -> Gradients]]
  <2>1. [grad[r] EXCEPT ![issued[r][k].what] = [from |-> sum, div |-> 0]] \in [1..Loss -> Gradients]
    BY <1>1, <1>6, Zenon
  <2> QED
    BY <1>1, <1>7, <2>1, Zenon
<1>9. done' \in [Ranks -> Nat] /\ done'[r] = k /\ \A q \in Ranks : q # r => done'[q] = done[q]
  BY <1>1 DEF Complete, k
<1>10. \A q \in Ranks : done'[q] \in 0..Len(issued[q])
  <2>1. k \in 0..Len(issued[r])
    BY <1>1, <1>2 DEF k
  <2> QED
    BY <1>1, <1>9, <2>1, Zenon
<1> QED
  BY <1>1, <1>8, <1>9, <1>10, Zenon DEF Complete, TypeOK

LEMMA WriteType ==
  ASSUME TypeOK, NEW r \in Ranks, WriteResult(r)
  PROVE  TypeOK'
<1> USE DEF env, launch, life, train
<1>1. /\ rpc \in [Ranks -> Places] /\ raised \in [Ranks -> BOOLEAN] /\ file \in [Ranks -> Records]
      /\ issued \in [Ranks -> Seq(Collectives)] /\ done \in [Ranks -> Nat]
      /\ \A q \in Ranks : done[q] \in 0..Len(issued[q]) /\ Len(applied[q]) = step[q]
  BY Zenon DEF TypeOK
<1>2. "barrier" \in Places /\ "finally" \in Places /\ TRUE \in BOOLEAN
  BY Zenon DEF Places
<1>3. CASE Raise(r) /\ UNCHANGED <<file, issued>>
  <2>1. rpc' \in [Ranks -> Places] /\ raised' \in [Ranks -> BOOLEAN]
    BY <1>1, <1>2, <1>3, Zenon DEF Raise, Goto
  <2> QED
    BY <1>3, <2>1, Zenon DEF WriteResult, TypeOK
<1>4. CASE /\ file' = [file EXCEPT ![r] = [kind |-> "result", passed |-> Passed(r)]]
           /\ Issue(r, Barrier, {}) /\ Goto(r, "barrier") /\ UNCHANGED raised
  <2>1. Passed(r) \in BOOLEAN
    BY Zenon DEF Passed
  <2>2. [kind |-> "result", passed |-> Passed(r)] \in Records
    BY <2>1, Zenon DEF Records
  <2>3. file' \in [Ranks -> Records] /\ rpc' \in [Ranks -> Places]
    BY <1>1, <1>2, <1>4, <2>2, Zenon DEF Goto
  <2>4. Barrier \in 1..Barrier /\ {} \in SUBSET (Ranks \X (1..Steps))
    BY SizesAssumption DEF Barrier
  <2>5. /\ issued' \in [Ranks -> Seq(Collectives)]
        /\ Len(issued[r]) \in Nat /\ Len(issued'[r]) = Len(issued[r]) + 1
        /\ \A q \in Ranks : q # r => issued'[q] = issued[q]
    BY <1>4, <2>4, IssueFacts, Zenon
  <2>6. UNCHANGED done
    BY Zenon DEF WriteResult
  <2>7. done'[r] \in 0..Len(issued'[r])
    BY <1>1, <2>5, <2>6
  <2>8. \A q \in Ranks : q # r => done'[q] \in 0..Len(issued'[q])
    BY <1>1, <2>5, <2>6, Zenon
  <2> QED
    BY <1>4, <2>3, <2>5, <2>7, <2>8, Zenon DEF WriteResult, TypeOK
<1> QED
  BY <1>3, <1>4, Zenon DEF WriteResult

LEMMA LaunchType ==
  ASSUME TypeOK, Launcher \/ Interrupt
  PROVE  TypeOK'
<1> USE DEF env, launch, life, train
<1>1. /\ rpc \in [Ranks -> Places] /\ devs \in [Ranks -> 0..Fleet] /\ status \in [Ranks -> {-15, 0, 1}]
      /\ lrank \in Ranks /\ "start" \in Places /\ "exited" \in Places
  BY Zenon DEF TypeOK, Places
<1>2. CASE PopenRank
  <2>1. lrank' \in Ranks /\ lpc' \in {"spawn", "wait", "aborted"}
    BY <1>1, <1>2, LoopRanks, Zenon DEF PopenRank
  <2>2. rpc' \in [Ranks -> Places]
    BY <1>1, <1>2, Zenon DEF PopenRank, Goto
  <2> QED
    BY <1>2, <2>1, <2>2, Zenon DEF PopenRank, TypeOK
<1>3. CASE WaitRank
  <2>1. lrank' \in Ranks /\ lpc' \in {"wait", "term", "load"}
    BY <1>1, <1>3, LoopRanks, Zenon DEF WaitRank
  <2> QED
    BY <1>3, <2>1, Zenon DEF WaitRank, TypeOK
<1>4. CASE WaitTimeout
  BY <1>4, Numbers, Zenon DEF WaitTimeout, TypeOK
<1>5. CASE TerminateGroup
  <2>1. lrank' \in Ranks /\ lpc' \in {"term", "kill"}
    BY <1>1, <1>5, LoopRanks, Zenon DEF TerminateGroup
  <2>2. rpc' \in [Ranks -> Places] /\ status' \in [Ranks -> {-15, 0, 1}]
    BY <1>1, <1>5, Zenon DEF TerminateGroup, Goto
  <2>3. devs' \in [Ranks -> 0..Fleet]
    BY <1>1, <1>5, SizesAssumption DEF TerminateGroup
  <2> QED
    BY <1>5, <2>1, <2>2, <2>3, Zenon DEF TerminateGroup, TypeOK
<1>6. CASE KillGroup
  <2>1. lrank' \in Ranks /\ lpc' \in {"kill", "raised"}
    BY <1>1, <1>6, LoopRanks, Zenon DEF KillGroup
  <2>2. devs' \in [Ranks -> 0..Fleet]
    BY <1>1, <1>6, SizesAssumption DEF KillGroup
  <2> QED
    BY <1>6, <2>1, <2>2, Zenon DEF KillGroup, TypeOK
<1>7. CASE LoadResults
  <2>1. global' \in BOOLEAN
    BY <1>7, Zenon DEF LoadResults
  <2> QED
    BY <1>7, <2>1, Zenon DEF LoadResults, TypeOK
<1>8. CASE Interrupt
  BY <1>8, Zenon DEF Interrupt, TypeOK
<1> QED
  BY <1>2, <1>3, <1>4, <1>5, <1>6, <1>7, <1>8, Zenon DEF Launcher

LEMMA TypeNext ==
  ASSUME TypeOK, MemberInv, PlaceInv, [Next]_vars
  PROVE  TypeOK'
<1>1. ASSUME NEW r \in Ranks, RankStep(r) PROVE TypeOK'
  BY <1>1, LifeType, TrainType, CompleteType, WriteType, Zenon DEF RankStep
<1>2. CASE UNCHANGED vars
  BY <1>2, Zenon DEF vars, env, launch, life, train, TypeOK
<1> QED
  BY <1>1, <1>2, LaunchType, Zenon DEF Next, RankStep

(***************************************************************************)
(* Who joined, and how a rank exits.                                       *)
(***************************************************************************)
LEMMA MemberNext ==
  ASSUME TypeOK, MemberInv, [Next]_vars
  PROVE  MemberInv'
<1> USE DEF env, launch, life, train
<1> SUFFICES ASSUME NEW q \in Ranks PROVE Member(q)'
  BY Zenon DEF MemberInv
<1>1. Member(q) /\ rpc \in [Ranks -> Places]
  BY Zenon DEF MemberInv, TypeOK
<1>2. ASSUME NEW r \in Ranks, RankStep(r), q # r PROVE Member(q)'
  BY <1>1, <1>2, RankFrame, Zenon DEF Same, Member
<1>3. ASSUME RankStep(q) PROVE Member(q)'
  <2>1. CASE Raise(q)
    BY <1>1, <2>1, Zenon DEF Raise, Goto, Member
  <2>2. CASE StartCollector(q) /\ ~Raise(q)
    BY <1>1, <2>2, Zenon DEF StartCollector, Goto, Member
  <2>3. CASE InitProcessGroup(q)
    BY <1>1, <2>3, Zenon DEF InitProcessGroup, Goto, Member
  <2>4. CASE StartBackend(q) /\ ~Raise(q)
    BY <1>1, <2>4, Zenon DEF StartBackend, Goto, Member
  <2>5. CASE SpawnDevice(q) /\ ~Raise(q)
    BY <1>1, <2>5, Zenon DEF SpawnDevice, Goto, Member
  <2>6. CASE Complete(q)
    BY <1>1, <2>6, Zenon DEF Complete, Member
  <2>7. CASE ~Raise(q) /\ (WaitForConnections(q) \/ Training(q) \/ WriteResult(q) \/ BarrierDone(q)
               \/ DestroyGroup(q) \/ TerminateFleet(q) \/ StopBackend(q) \/ WorkerBoundary(q))
    <3>1. rpc'[q] \in Stepping \cup {"write", "barrier", "finally", "fleet", "stop", "boundary", "exited"}
      BY <1>1, <2>7, Zenon DEF WaitForConnections, Training, Forward, Backward, FinishAsync, ReduceBlocking,
         ReducedBlocking, ReduceLoss, ReducedLoss, OptimizerStep, WriteResult, BarrierDone, DestroyGroup,
         TerminateFleet, StopBackend, WorkerBoundary, Goto, Stepping
    <3> QED
      BY <3>1, Zenon DEF Member, Stepping
  <2> QED
    BY <1>3, <2>1, <2>2, <2>3, <2>4, <2>5, <2>6, <2>7, Zenon
       DEF RankStep, InitTimeout, DispatchFails, CollectiveFails
<1>4. CASE PopenRank
  BY <1>1, <1>4, Zenon DEF PopenRank, Goto, Member
<1>5. CASE TerminateGroup
  BY <1>1, <1>5, Zenon DEF TerminateGroup, Goto, Member
<1>6. CASE WaitRank \/ WaitTimeout \/ KillGroup \/ LoadResults \/ Interrupt \/ UNCHANGED vars
  BY <1>1, <1>6, Zenon DEF WaitRank, WaitTimeout, KillGroup, LoadResults, Interrupt, vars, Member
<1> QED
  BY <1>2, <1>3, <1>4, <1>5, <1>6, Zenon DEF Next, Launcher, RankStep

LEMMA ExitFrame ==
  ASSUME NEW q \in Ranks, Same(q), SameTraining(q), UNCHANGED tracks, Exits(q)
  PROVE  Exits(q)'
<1>1. Passed(q)' <=> Passed(q)
  BY Zenon DEF SameTraining, Passed, Mean
<1>2. Trained(q)' <=> Trained(q)
  BY <1>1, Zenon DEF Same, SameTraining, Trained
<1> QED
  BY <1>1, <1>2, Zenon DEF Same, SameTraining, Exits

LEMMA RaiseExits ==
  ASSUME TypeOK, NEW r \in Ranks, Raise(r)
  PROVE  Exits(r)'
<1>1. rpc'[r] = "finally" /\ raised'[r] = TRUE
  BY Zenon DEF TypeOK, Raise, Goto
<1>2. rpc'[r] \in Leaving /\ rpc'[r] \notin Stepping \cup {"connect", "write"} /\ rpc'[r] # "barrier"
      /\ rpc'[r] # "write" /\ rpc'[r] # "exited"
  BY <1>1, Zenon DEF Leaving, Stepping
<1>3. raised'[r] # FALSE
  BY <1>1, Zenon
<1> QED
  BY <1>2, <1>3, Zenon DEF Exits

(* A rank between start and barrier stays there with nothing raised.        *)
LEMMA ExitsOnTheWay ==
  ASSUME TypeOK, NEW r \in Ranks, Exits(r), UNCHANGED <<raised, status>>,
         rpc[r] \notin Leaving \cup {"exited"},
         rpc'[r] \in Starting \cup Stepping \cup {"connect", "write"},
         rpc'[r] \in Stepping \cup {"connect", "write"} => r \in known',
         rpc'[r] = "write" => step'[r] = Steps
  PROVE  Exits(r)'
<1>1. rpc'[r] \notin Leaving \cup {"exited", "barrier"}
  BY Zenon DEF Leaving, Starting, Stepping
<1>2. status'[r] = 0 /\ raised'[r] = FALSE
  BY Zenon DEF Exits
<1>3. rpc'[r] \notin {"stop", "boundary"}
  BY <1>1, Zenon DEF Leaving
<1> QED
  BY <1>1, <1>2, <1>3, Zenon DEF Exits

LEMMA ExitOwn ==
  ASSUME TypeOK, PlaceInv, NEW r \in Ranks, Exits(r), RankStep(r)
  PROVE  Exits(r)'
<1> USE DEF env, launch, life, train
<1>1. /\ rpc \in [Ranks -> Places] /\ raised \in [Ranks -> BOOLEAN] /\ file \in [Ranks -> Records]
      /\ devs \in [Ranks -> 0..Fleet] /\ status \in [Ranks -> {-15, 0, 1}] /\ step \in [Ranks -> 0..Steps]
  BY Zenon DEF TypeOK
<1>2. \A l : Goto(r, l) => rpc'[r] = l
  BY <1>1, Zenon DEF Goto
<1>3. CASE Raise(r)
  BY <1>3, RaiseExits, Zenon
<1>4. CASE ~Raise(r) /\ (StartCollector(r) \/ InitProcessGroup(r) \/ StartBackend(r))
  <2>1. /\ rpc[r] \in {"start", "init", "backend"} /\ rpc'[r] \in {"init", "backend", "spawn"}
        /\ UNCHANGED <<raised, status>>
    BY <1>2, <1>4, Zenon DEF StartCollector, InitProcessGroup, StartBackend
  <2> QED
    BY <2>1, ExitsOnTheWay, Zenon DEF Starting, Stepping, Leaving
<1>5. CASE SpawnDevice(r) /\ ~Raise(r)
  <2>1. /\ rpc[r] = "spawn" /\ UNCHANGED <<raised, status>>
        /\ rpc'[r] = "spawn" \/ (rpc'[r] = "connect" /\ r \in known')
    BY <1>2, <1>5, Zenon DEF SpawnDevice
  <2> QED
    BY <2>1, ExitsOnTheWay, Zenon DEF Starting, Stepping, Leaving
<1>6. CASE WaitForConnections(r)
  <2>1. /\ rpc[r] = "connect" /\ UNCHANGED <<raised, status, known, step>>
        /\ rpc'[r] = IF Steps = 0 THEN "write" ELSE "forward"
    BY <1>2, <1>6, Zenon DEF WaitForConnections
  <2>2. step[r] = 0 /\ r \in known
    BY <2>1, Zenon DEF PlaceInv, Place, PlaceAt, Exits
  <2> QED
    BY <2>1, <2>2, ExitsOnTheWay, Zenon DEF Starting, Stepping, Leaving
<1>7. CASE Training(r)
  <2>1. rpc[r] \in Stepping /\ UNCHANGED <<raised, status, known>>
    BY <1>7, ZenonT(30) DEF Training, Forward, Backward, FinishAsync, ReduceBlocking, ReducedBlocking,
       ReduceLoss, ReducedLoss, OptimizerStep, Stepping
  <2>2. \/ rpc'[r] \in Stepping
        \/ rpc'[r] = "write" /\ step'[r] = Steps
    BY <1>1, <1>2, <1>7, SizesAssumption DEF Training, Forward, Backward, FinishAsync, ReduceBlocking,
       ReducedBlocking, ReduceLoss, ReducedLoss, OptimizerStep, Stepping
  <2>3. r \in known
    BY <2>1, Zenon DEF Exits
  <2> QED
    BY <2>1, <2>2, <2>3, ExitsOnTheWay, Zenon DEF Starting, Stepping, Leaving
<1>8. CASE Complete(r)
  <2>1. Same(r) /\ step'[r] = step[r] /\ losses'[r] = losses[r] /\ UNCHANGED tracks
    BY <1>8, Zenon DEF Complete, Same
  <2>2. Passed(r)' <=> Passed(r)
    BY <2>1, Zenon DEF Passed, Mean
  <2>3. Trained(r)' <=> Trained(r)
    BY <2>1, <2>2, Zenon DEF Same, Trained
  <2> QED
    BY <2>1, <2>2, <2>3, Zenon DEF Same, Exits
<1>9. CASE WriteResult(r) /\ ~Raise(r)
  <2>1. /\ rpc[r] = "write" /\ rpc'[r] = "barrier" /\ UNCHANGED <<raised, status, known, step, losses, tracks>>
        /\ file' = [file EXCEPT ![r] = [kind |-> "result", passed |-> Passed(r)]]
    BY <1>2, <1>9, Zenon DEF WriteResult
  <2>2. Passed(r)' <=> Passed(r)
    BY <2>1, Zenon DEF Passed, Mean
  <2>3. Passed(r) => Passed(r) = TRUE
    BY Zenon DEF Passed
  <2>4. file'[r] = [kind |-> "result", passed |-> Passed(r)]
    BY <1>1, <2>1, Zenon
  <2>5. Passed(r) => file'[r] = [kind |-> "result", passed |-> TRUE]
    BY <2>3, <2>4, ZenonT(30)
  <2>6. r \in known /\ step[r] = Steps /\ status[r] = 0 /\ raised[r] = FALSE
    BY <2>1, Zenon DEF Exits, Leaving
  <2>7. Trained(r)'
    BY <2>1, <2>2, <2>5, <2>6, Zenon DEF Trained
  <2>8. rpc'[r] \notin Leaving \cup Stepping \cup {"connect", "write", "exited", "stop", "boundary"}
    BY <2>1, Zenon DEF Leaving, Stepping
  <2> QED
    BY <2>1, <2>6, <2>7, <2>8, Zenon DEF Exits
<1>10. CASE BarrierDone(r)
  <2>1. /\ rpc[r] = "barrier" /\ rpc'[r] = "finally"
        /\ UNCHANGED <<raised, known, step, losses, tracks, file>>
        /\ status'[r] = IF Passed(r) THEN 0 ELSE 1
    BY <1>1, <1>2, <1>10, Zenon DEF BarrierDone
  <2>2. Passed(r)' <=> Passed(r)
    BY <2>1, Zenon DEF Passed, Mean
  <2>3. Trained(r)'
    BY <2>1, <2>2, ZenonT(30) DEF Trained, Exits
  <2>4. /\ rpc'[r] \in Leaving
        /\ rpc'[r] \notin Stepping \cup {"connect", "write", "exited", "stop", "boundary", "barrier"}
    BY <2>1, Zenon DEF Leaving, Stepping
  <2>5. status'[r] = IF Passed(r)' THEN 0 ELSE 1
    BY <2>1, <2>2, Zenon
  <2> QED
    BY <2>3, <2>4, <2>5, Zenon DEF Exits
<1>11. CASE DestroyGroup(r) \/ TerminateFleet(r) \/ StopBackend(r)
  <2>1. /\ rpc[r] \in {"finally", "fleet", "stop"}
        /\ rpc'[r] \in Leaving /\ rpc[r] \in Leaving
        /\ UNCHANGED <<known, step, losses, tracks, file, status>>
        /\ raised'[r] = raised[r] \/ raised'[r] = TRUE
    BY <1>1, <1>2, <1>11, Zenon DEF DestroyGroup, TerminateFleet, StopBackend, Leaving
  <2>2. rpc'[r] \notin Stepping \cup {"connect", "write", "exited", "barrier"}
    BY <2>1, Zenon DEF Leaving, Stepping
  <2>3. CASE raised'[r] = TRUE
    <3>1. raised'[r] # FALSE
      BY <2>3, Zenon
    <3> QED
      BY <2>1, <2>2, <3>1, Zenon DEF Exits
  <2>4. CASE raised'[r] = raised[r]
    <3>1. SUFFICES ASSUME raised[r] = FALSE, raised'[r] = FALSE PROVE Exits(r)'
      BY <2>1, <2>2, <2>4, Zenon DEF Exits
    <3>2. Passed(r)' <=> Passed(r)
      BY <2>1, Zenon DEF Passed, Mean
    <3>3. Trained(r) /\ status[r] = IF Passed(r) THEN 0 ELSE 1
      BY <2>1, <3>1, Zenon DEF Exits
    <3>4. Trained(r)'
      BY <2>1, <3>2, <3>3, Zenon DEF Trained
    <3>5. status'[r] = IF Passed(r)' THEN 0 ELSE 1
      BY <2>1, <3>2, <3>3, Zenon
    <3>6. rpc'[r] \in {"stop", "boundary"} => devs'[r] = 0
      <4>1. CASE DestroyGroup(r)
        <5>1. raised' # [raised EXCEPT ![r] = TRUE]
          BY <1>1, <3>1, Zenon
        <5> QED
          BY <1>2, <4>1, <5>1, Zenon DEF DestroyGroup
      <4>2. CASE TerminateFleet(r)
        <5>1. r \in known
          BY <3>3, Zenon DEF Trained
        <5> QED
          BY <1>1, <4>2, <5>1, Zenon DEF TerminateFleet
      <4>3. CASE StopBackend(r)
        <5>1. rpc[r] = "stop" /\ UNCHANGED devs
          BY <4>3, Zenon DEF StopBackend
        <5> QED
          BY <3>1, <5>1, Zenon DEF Exits
      <4> QED
        BY <1>11, <4>1, <4>2, <4>3, Zenon
    <3> QED
      BY <2>1, <2>2, <3>4, <3>5, <3>6, Zenon DEF Exits
  <2> QED
    BY <2>1, <2>3, <2>4, Zenon
<1>12. CASE WorkerBoundary(r)
  <2>1. /\ rpc[r] = "boundary" /\ rpc'[r] = "exited"
        /\ UNCHANGED <<known, step, losses, tracks, devs>>
    BY <1>2, <1>12, Zenon DEF WorkerBoundary
  <2>2. Passed(r)' <=> Passed(r)
    BY <2>1, Zenon DEF Passed, Mean
  <2>3. rpc'[r] \notin Leaving \cup Stepping \cup {"connect", "write", "stop", "boundary", "barrier"}
        /\ rpc[r] \in Leaving
    BY <2>1, Zenon DEF Leaving, Stepping
  <2>4. CASE raised[r] = TRUE
    <3>1. status'[r] = 1
      BY <1>1, <1>12, <2>4, Zenon DEF WorkerBoundary
    <3>2. status'[r] # 0
      BY <3>1
    <3> QED
      BY <2>1, <2>3, <3>2, Zenon DEF Exits
  <2>5. CASE raised[r] = FALSE
    <3>1. UNCHANGED <<file, status>>
      BY <1>12, <2>5, Zenon DEF WorkerBoundary
    <3>2. Trained(r) /\ devs[r] = 0 /\ status[r] = IF Passed(r) THEN 0 ELSE 1
      BY <2>1, <2>3, <2>5, Zenon DEF Exits
    <3>3. Trained(r)' /\ devs'[r] = 0
      BY <2>1, <2>2, <3>1, <3>2, Zenon DEF Trained
    <3>4. status'[r] = 0 => Passed(r)
      BY <3>1, <3>2
    <3> QED
      BY <2>1, <2>2, <2>3, <3>3, <3>4, Zenon DEF Exits
  <2>6. raised[r] \in BOOLEAN
    BY <1>1, Zenon
  <2> QED
    BY <2>4, <2>5, <2>6, Zenon
<1> QED
  BY <1>3, <1>4, <1>5, <1>6, <1>7, <1>8, <1>9, <1>10, <1>11, <1>12, Zenon
     DEF RankStep, InitTimeout, DispatchFails, CollectiveFails

LEMMA ExitNext ==
  ASSUME TypeOK, PlaceInv, ExitInv, LaunchInv, [Next]_vars
  PROVE  ExitInv'
<1> USE DEF env, launch, life, train
<1> SUFFICES ASSUME NEW q \in Ranks PROVE Exits(q)'
  BY Zenon DEF ExitInv
<1>1. /\ rpc \in [Ranks -> Places] /\ devs \in [Ranks -> 0..Fleet]
      /\ status \in [Ranks -> {-15, 0, 1}] /\ lrank \in Ranks
  BY Zenon DEF TypeOK
<1>2. Exits(q)
  BY Zenon DEF ExitInv
<1>3. ASSUME NEW r \in Ranks, RankStep(r) PROVE Exits(q)'
  BY <1>2, <1>3, ExitOwn, RankFrame, ExitFrame, Zenon
<1>4. CASE PopenRank
  <2>1. CASE rpc'[q] = rpc[q]
    <3>1. Same(q) /\ SameTraining(q) /\ UNCHANGED tracks
      BY <1>4, <2>1, Zenon DEF PopenRank, Same, SameTraining
    <3> QED
      BY <1>2, <3>1, ExitFrame, Zenon
  <2>2. CASE rpc'[q] # rpc[q]
    <3>1. q = lrank /\ rpc'[q] = "start" /\ lpc = "spawn" /\ UNCHANGED <<raised, status>>
      BY <1>1, <1>4, <2>2, Zenon DEF PopenRank, Goto
    <3>2. rpc[q] = "none"
      BY <3>1, Numbers DEF LaunchInv
    <3> QED
      BY <1>2, <3>1, <3>2, ExitsOnTheWay, Zenon DEF Starting, Stepping, Leaving
  <2> QED
    BY <2>1, <2>2, Zenon
<1>5. CASE TerminateGroup
  <2>1. CASE q # lrank \/ UNCHANGED <<rpc, status, devs>>
    <3>1. Same(q) /\ SameTraining(q) /\ UNCHANGED tracks
      BY <1>1, <1>5, <2>1, Zenon DEF TerminateGroup, Same, SameTraining, Goto
    <3> QED
      BY <1>2, <3>1, ExitFrame, Zenon
  <2>2. CASE q = lrank /\ Alive(lrank)
    <3>1. rpc'[q] = "exited" /\ status'[q] = -15
      BY <1>1, <1>5, <2>2, Zenon DEF TerminateGroup, Goto
    <3>2. status'[q] # 0 /\ rpc'[q] \notin Leaving \cup Stepping \cup {"connect", "write", "barrier", "stop", "boundary"}
      BY <3>1 DEF Leaving, Stepping
    <3> QED
      BY <3>1, <3>2, Zenon DEF Exits
  <2>3. CASE q = lrank /\ ~Alive(lrank)
    <3>1. UNCHANGED <<rpc, status, raised, known, step, losses, tracks, file>> /\ rpc[q] \in {"none", "exited"}
      BY <1>5, <2>3, Zenon DEF TerminateGroup, Alive
    <3>2. devs[q] = 0 => devs'[q] = 0
      BY <1>1, <1>5, <2>3 DEF TerminateGroup
    <3>3. Passed(q)' <=> Passed(q)
      BY <3>1, Zenon DEF Passed, Mean
    <3>4. Trained(q)' <=> Trained(q)
      BY <3>1, <3>3, Zenon DEF Trained
    <3>5. rpc[q] \notin {"stop", "boundary"}
      BY <3>1, Zenon
    <3> QED
      BY <1>2, <3>1, <3>2, <3>3, <3>4, <3>5, Zenon DEF Exits
  <2> QED
    BY <2>1, <2>2, <2>3, Zenon
<1>6. CASE KillGroup
  <2>1. UNCHANGED <<rpc, status, raised, known, step, losses, tracks, file>>
    BY <1>6, Zenon DEF KillGroup
  <2>2. devs[q] = 0 => devs'[q] = 0
    BY <1>1, <1>6, Zenon DEF KillGroup
  <2>3. Passed(q)' <=> Passed(q)
    BY <2>1, Zenon DEF Passed, Mean
  <2>4. Trained(q)' <=> Trained(q)
    BY <2>1, <2>3, Zenon DEF Trained
  <2> QED
    BY <1>2, <2>1, <2>2, <2>3, <2>4, Zenon DEF Exits
<1>7. CASE WaitRank \/ WaitTimeout \/ LoadResults \/ Interrupt \/ UNCHANGED vars
  <2>1. Same(q) /\ SameTraining(q) /\ UNCHANGED tracks
    BY <1>7, Zenon DEF WaitRank, WaitTimeout, LoadResults, Interrupt, vars, Same, SameTraining
  <2> QED
    BY <1>2, <2>1, ExitFrame, Zenon
<1> QED
  BY <1>3, <1>4, <1>5, <1>6, <1>7, Zenon DEF Next, Launcher, RankStep

(***************************************************************************)
(* The launcher.                                                           *)
(***************************************************************************)
(* A rank's own steps neither start it nor bring it back, and what it       *)
(* exited with stays.                                                       *)
LEMMA RankStaysOut ==
  ASSUME TypeOK, NEW r \in Ranks, RankStep(r), NEW q \in Ranks
  PROVE  /\ rpc[q] \in {"none", "exited"} =>
              rpc'[q] = rpc[q] /\ status'[q] = status[q] /\ devs'[q] = devs[q]
         /\ UNCHANGED <<lpc, lrank, global>>
<1> USE DEF env, launch, life, train
<1>1. CASE q # r
  BY <1>1, RankFrame, Zenon DEF Same
<1>2. rpc[r] \notin {"none", "exited"}
  BY Zenon DEF RankStep, StartCollector, InitProcessGroup, InitTimeout, StartBackend, SpawnDevice,
     WaitForConnections, Training, Forward, Backward, FinishAsync, ReduceBlocking, ReducedBlocking,
     ReduceLoss, ReducedLoss, OptimizerStep, DispatchFails, Complete, Alive, CollectiveFails,
     WriteResult, BarrierDone, DestroyGroup, TerminateFleet, StopBackend, WorkerBoundary
<1>3. UNCHANGED <<lpc, lrank, global>>
  BY Zenon DEF RankStep, StartCollector, InitProcessGroup, InitTimeout, StartBackend, SpawnDevice,
     WaitForConnections, Training, Forward, Backward, FinishAsync, ReduceBlocking, ReducedBlocking,
     ReduceLoss, ReducedLoss, OptimizerStep, DispatchFails, Complete, CollectiveFails,
     WriteResult, BarrierDone, DestroyGroup, TerminateFleet, StopBackend, WorkerBoundary
<1> QED
  BY <1>1, <1>2, <1>3, Zenon

LEMMA LaunchNext ==
  ASSUME TypeOK, ExitInv, LaunchInv, [Next]_vars
  PROVE  LaunchInv'
<1> USE DEF env, launch, life, train
<1>1. /\ rpc \in [Ranks -> Places] /\ devs \in [Ranks -> 0..Fleet]
      /\ status \in [Ranks -> {-15, 0, 1}] /\ lrank \in Ranks
  BY Zenon DEF TypeOK
<1>2. ASSUME NEW r \in Ranks, RankStep(r) PROVE LaunchInv'
  <2>1. \A q \in Ranks : rpc[q] \in {"none", "exited"} =>
          rpc'[q] = rpc[q] /\ status'[q] = status[q] /\ devs'[q] = devs[q]
    BY <1>2, RankStaysOut, Zenon
  <2>2. UNCHANGED <<lpc, lrank, global>>
    BY <1>2, RankStaysOut, Zenon
  <2> QED
    BY <2>1, <2>2 DEF LaunchInv, Alive
<1>3. CASE PopenRank
  <2>1. CASE lpc' = "aborted" /\ UNCHANGED global
    BY <1>3, <2>1 DEF LaunchInv, PopenRank
  <2>2. CASE Goto(lrank, "start") /\ Loop("spawn", "wait") /\ UNCHANGED global
    <3>1. \A q \in Ranks : q # lrank => rpc'[q] = rpc[q]
      BY <1>1, <2>2, Zenon DEF Goto
    <3>2. \/ lpc' = "spawn" /\ lrank' = lrank + 1
          \/ lpc' = "wait" /\ lrank' = 0
      BY <1>1, <2>2, LoopRanks, Zenon
    <3>3. ~global' /\ \A q \in Ranks : q >= lrank => rpc[q] = "none"
      BY <1>3, <2>2 DEF PopenRank, LaunchInv
    <3> QED
      BY <1>1, <3>1, <3>2, <3>3, Numbers DEF LaunchInv
  <2> QED
    BY <1>3, <2>1, <2>2, Zenon DEF PopenRank
<1>4. CASE WaitRank
  <2>1. rpc[lrank] = "exited" /\ lpc = "wait" /\ UNCHANGED <<rpc, status, devs, global>>
    BY <1>4, Zenon DEF WaitRank
  <2>2. ~global /\ \A q \in Ranks : q < lrank => rpc[q] = "exited"
    BY <2>1, Zenon DEF LaunchInv
  <2>3. \/ lpc' = "wait" /\ lrank' = lrank + 1
        \/ /\ lrank' = 0 /\ \A q \in Ranks : q <= lrank
           /\ lpc' = IF \E q \in Ranks : status[q] # 0 THEN "term" ELSE "load"
    <3> DEFINE next == IF \E q \in Ranks : status[q] # 0 THEN "term" ELSE "load"
    <3>1. Loop("wait", next)
      BY <1>4, Zenon DEF WaitRank
    <3> HIDE DEF next
    <3>2. (lpc' = "wait" /\ lrank' = lrank + 1) \/ (lrank' = 0 /\ lpc' = next /\ \A q \in Ranks : q <= lrank)
      BY <1>1, <3>1, LoopRanks, Zenon
    <3> QED
      BY <3>2, Zenon DEF next
  <2>4. CASE lpc' = "wait" /\ lrank' = lrank + 1
    BY <1>1, <2>1, <2>2, <2>4, Numbers DEF LaunchInv
  <2>5. CASE /\ lrank' = 0 /\ \A q \in Ranks : q <= lrank
             /\ lpc' = IF \E q \in Ranks : status[q] # 0 THEN "term" ELSE "load"
    <3>1. \A q \in Ranks : rpc[q] = "exited"
      BY <1>1, <2>1, <2>2, <2>5, Numbers
    <3> QED
      BY <2>1, <2>2, <2>5, <3>1, Zenon DEF LaunchInv, Alive
  <2> QED
    BY <2>3, <2>4, <2>5, Zenon
<1>5. CASE WaitTimeout
  BY <1>5, Numbers DEF WaitTimeout, LaunchInv
<1>6. CASE TerminateGroup
  <2>1. \A q \in Ranks : q # lrank => rpc'[q] = rpc[q]
    BY <1>1, <1>6, Zenon DEF TerminateGroup, Goto, Alive
  <2>2. ~global /\ ~global' /\ \A q \in Ranks : q < lrank => ~Alive(q)
    BY <1>6, Zenon DEF TerminateGroup, LaunchInv
  <2>3. \/ lpc' = "term" /\ lrank' = lrank + 1
        \/ lrank' = 0 /\ lpc' = "kill" /\ \A q \in Ranks : q <= lrank
    BY <1>1, <1>6, LoopRanks, Zenon DEF TerminateGroup
  <2>4. rpc'[lrank] \in {"none", "exited"}
    BY <1>1, <1>6, Zenon DEF TerminateGroup, Goto, Alive
  <2>5. \A q \in Ranks : q <= lrank => rpc'[q] \in {"none", "exited"}
    BY <1>1, <2>1, <2>2, <2>4, Numbers DEF Alive
  <2> QED
    BY <1>1, <2>2, <2>3, <2>5, Numbers DEF LaunchInv, Alive
<1>7. CASE KillGroup
  <2>1. devs'[lrank] = 0 /\ \A q \in Ranks : q # lrank => devs'[q] = devs[q]
    BY <1>1, <1>7, Zenon DEF KillGroup
  <2>2. ~global' /\ UNCHANGED rpc /\ \A q \in Ranks : rpc[q] \in {"none", "exited"} /\ (q < lrank => devs[q] = 0)
    BY <1>7, Zenon DEF KillGroup, LaunchInv, Alive
  <2>3. \/ lpc' = "kill" /\ lrank' = lrank + 1
        \/ lrank' = 0 /\ lpc' = "raised" /\ \A q \in Ranks : q <= lrank
    BY <1>1, <1>7, LoopRanks, Zenon DEF KillGroup
  <2>4. \A q \in Ranks : q <= lrank => devs'[q] = 0
    BY <1>1, <2>1, <2>2, Numbers
  <2> QED
    BY <1>1, <2>2, <2>3, <2>4, Numbers DEF LaunchInv, Alive
<1>8. CASE LoadResults
  <2>1. \A q \in Ranks : rpc[q] = "exited" /\ status[q] = 0
    BY <1>8, Zenon DEF LoadResults, LaunchInv
  <2>2. \A q \in Ranks : devs[q] = 0
    BY <2>1, Zenon DEF ExitInv, Exits
  <2>3. UNCHANGED <<rpc, status, devs>>
    BY <1>8, Zenon DEF LoadResults
  <2>4. (lpc' = "returned" /\ global') \/ (lpc' = "raised" /\ ~global')
    BY <1>8, Zenon DEF LoadResults
  <2> QED
    BY <2>1, <2>2, <2>3, <2>4, Zenon DEF LaunchInv, Alive
<1>9. CASE Interrupt
  BY <1>9, Zenon DEF Interrupt, LaunchInv
<1>10. CASE UNCHANGED vars
  BY <1>10, Zenon DEF vars, LaunchInv, Alive
<1> QED
  BY <1>2, <1>3, <1>4, <1>5, <1>6, <1>7, <1>8, <1>9, <1>10, Zenon DEF Next, Launcher, RankStep

==============================================================================
