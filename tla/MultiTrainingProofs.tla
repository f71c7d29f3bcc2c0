------------------------- MODULE MultiTrainingProofs -------------------------
(***************************************************************************)
(* Proofs about the training of MultiCoordinator: which collectives a rank *)
(* issued, what they leave in its gradients and what its optimizer uses;   *)
(* and the theorems: the optimizer uses the mean of all ranks' gradients,  *)
(* global.json comes from ranks that passed, and a run that returns or     *)
(* raises leaves no process behind.                                        *)
(***************************************************************************)
EXTENDS MultiCoordinatorProofs

(***************************************************************************)
(* The collectives.                                                        *)
(***************************************************************************)
LEMMA Bases ==
  /\ Loss \in Nat \ {0} /\ Loss = Params + 1 /\ Base(0) = 0
  /\ \A s \in Nat : Base(s) \in Nat /\ Base(s + 1) = Base(s) + Loss
  /\ \A s, t \in Nat : s < t => Base(s) + Loss <= Base(t)
<1>1. Loss \in Nat \ {0} /\ Loss = Params + 1
  BY SizesAssumption DEF Loss
<1> HIDE DEF Loss
<1>2. ASSUME NEW s \in Nat PROVE Base(s) \in Nat /\ Base(s + 1) = Base(s) + Loss
  BY <1>1 DEF Base
<1>3. ASSUME NEW s \in Nat, NEW t \in Nat, s < t PROVE Base(s) + Loss <= Base(t)
  <2>1. PICK d \in Nat : t = s + 1 + d
    <3>1. t - s - 1 \in Nat /\ t = s + 1 + (t - s - 1)
      BY <1>3
    <3> QED
      BY <3>1, Zenon
  <2>2. Base(t) = Base(s) + Loss + d * Loss
    BY <1>1, <2>1 DEF Base
  <2>3. d * Loss \in Nat
    BY <1>1
  <2>4. Base(s) \in Nat
    BY <1>1 DEF Base
  <2> QED
    BY <1>1, <2>2, <2>3, <2>4
<1>4. Base(0) = 0
  BY <1>1 DEF Base
<1> QED
  BY <1>1, <1>2, <1>3, <1>4, Zenon

(* A collective is at one place of one step.                                *)
LEMMA OnePosition ==
  ASSUME NEW s \in Nat, NEW t \in Nat, NEW i \in 1..Loss, NEW j \in 1..Loss,
         Base(s) + i = Base(t) + j
  PROVE  s = t /\ i = j
<1>1. Base(s) \in Nat /\ Base(t) \in Nat /\ Loss \in Nat
  BY Bases, Zenon
<1>2. CASE s < t
  <2>1. Base(s) + Loss <= Base(t)
    BY <1>2, Bases, Zenon
  <2> QED
    BY <1>1, <2>1
<1>3. CASE t < s
  <2>1. Base(t) + Loss <= Base(s)
    BY <1>3, Bases, Zenon
  <2> QED
    BY <1>1, <2>1
<1>4. CASE s = t
  BY <1>1, <1>4
<1> QED
  BY <1>2, <1>3, <1>4

LEMMA Orders ==
  ASSUME NEW j \in 1..Loss
  PROVE  /\ Order(j) \in 1..Loss /\ Order(Order(j)) = j
         /\ j = Loss => Order(j) = Loss
         /\ j # Loss => Order(j) = IF overlap THEN Loss - j ELSE j
<1>1. Loss \in Nat \ {0}
  BY Bases, Zenon
<1> HIDE DEF Loss
<1>2. CASE j = Loss
  BY <1>2, Zenon DEF Order
<1>3. CASE j # Loss /\ overlap
  <2>1. Order(j) = Loss - j
    BY <1>3, Zenon DEF Order
  <2>2. Loss - j \in 1..Loss /\ Loss - j # Loss /\ Loss - (Loss - j) = j
    BY <1>1, <1>3
  <2>3. Order(Loss - j) = Loss - (Loss - j)
    BY <1>3, <2>2, Zenon DEF Order
  <2> QED
    BY <1>3, <2>1, <2>2, <2>3, Zenon
<1>4. CASE j # Loss /\ ~overlap
  <2>1. Order(j) = j
    BY <1>4, Zenon DEF Order
  <2> QED
    BY <1>4, <2>1, Zenon
<1> QED
  BY <1>2, <1>3, <1>4, Zenon

(* Issuing the next collective of the step keeps the order.                 *)
LEMMA IssuedAppend ==
  ASSUME TypeOK, NEW r \in Ranks, Issued(r), NEW j \in 1..Loss, step[r] < Steps,
         Len(issued[r]) + 1 = Base(step[r]) + j, UNCHANGED overlap,
         Issue(r, Order(j), {<<r, step[r] + 1>>})
  PROVE  Issued(r)'
<1>1. step[r] \in Nat /\ Steps \in Nat /\ step[r] + 1 \in 1..Steps
  <2>1. step[r] \in 0..Steps
    BY Zenon DEF TypeOK
  <2> QED
    BY <2>1, SizesAssumption
<1>2. Order(j) \in 1..Barrier
  <2>1. Order(j) \in 1..Loss /\ Params \in Nat
    BY Orders, SizesAssumption, Zenon
  <2> QED
    BY <2>1 DEF Loss, Barrier
<1>3. {<<r, step[r] + 1>>} \in SUBSET (Ranks \X (1..Steps))
  BY <1>1
<1>4. /\ Len(issued[r]) \in Nat /\ Len(issued'[r]) = Len(issued[r]) + 1
      /\ issued'[r][Len(issued[r]) + 1] = [what |-> Order(j), val |-> {<<r, step[r] + 1>>}]
      /\ \A k \in 1..Len(issued[r]) : issued'[r][k] = issued[r][k]
  <2> DEFINE w == Order(j)
  <2> DEFINE v == {<<r, step[r] + 1>>}
  <2>1. w \in 1..Barrier /\ v \in SUBSET (Ranks \X (1..Steps)) /\ Issue(r, w, v)
    BY <1>2, <1>3, Zenon
  <2> HIDE DEF w, v
  <2>2. /\ Len(issued[r]) \in Nat /\ Len(issued'[r]) = Len(issued[r]) + 1
        /\ issued'[r][Len(issued[r]) + 1] = [what |-> w, val |-> v]
        /\ \A k \in 1..Len(issued[r]) : issued'[r][k] = issued[r][k]
    BY <2>1, IssueFacts
  <2> QED
    BY <2>2, Zenon DEF w, v
<1>5. \A i \in 1..Loss : Order(i)' = Order(i)
  BY Zenon DEF Order, Loss
<1>6. ASSUME NEW s \in Nat, NEW i \in 1..Loss, s < Steps, Base(s) + i <= Len(issued'[r])
      PROVE  issued'[r][Base(s) + i] = [what |-> Order(i), val |-> {<<r, s + 1>>}]
  <2>0. Base(s) \in Nat /\ Loss \in Nat
    BY Bases, Zenon
  <2>1. Base(s) + i \in Nat \ {0}
    BY <2>0
  <2>2. CASE Base(s) + i <= Len(issued[r])
    <3>1. Base(s) + i \in 1..Len(issued[r])
      BY <1>4, <2>1, <2>2
    <3> QED
      BY <1>4, <1>6, <2>2, <3>1, Zenon DEF Issued
  <2>3. CASE Base(s) + i = Len(issued[r]) + 1
    <3>1. s = step[r] /\ i = j
      BY <1>1, <2>3, OnePosition
    <3> QED
      BY <1>4, <2>3, <3>1, Zenon
  <2> QED
    BY <1>4, <1>6, <2>1, <2>2, <2>3
<1>7. Len(issued'[r]) <= Base(Steps)
  <2>1. Base(step[r]) + Loss <= Base(Steps) /\ Base(step[r]) \in Nat /\ Base(Steps) \in Nat /\ Loss \in Nat
    BY <1>1, Bases, Zenon
  <2> QED
    BY <1>4, <2>1
<1>8. ~(Len(issued'[r]) > Base(Steps))
  <2>1. Base(Steps) \in Nat
    BY <1>1, Bases, Zenon
  <2> QED
    BY <1>4, <1>7, <2>1
<1>9. Base(Steps)' = Base(Steps) /\ Loss' = Loss /\ \A s \in Nat : Base(s)' = Base(s)
  BY Zenon DEF Base, Loss
<1> QED
  BY <1>5, <1>6, <1>8, <1>9, Zenon DEF Issued

LEMMA TrainFacts ==
  ASSUME TypeOK, NEW r \in Ranks
  PROVE  /\ step[r] \in Nat /\ Steps \in Nat /\ step[r] <= Steps /\ at[r] \in Int
         /\ done[r] \in Nat /\ Len(issued[r]) \in Nat /\ done[r] <= Len(issued[r])
         /\ Params \in Nat \ {0} /\ Loss = Params + 1 /\ Base(step[r]) \in Nat
<1>1. /\ step[r] \in 0..Steps /\ at[r] \in 0..Params + 1 /\ done[r] \in Nat
      /\ issued[r] \in Seq(Collectives) /\ done[r] \in 0..Len(issued[r])
  BY Zenon DEF TypeOK
<1>2. /\ step[r] \in Nat /\ Steps \in Nat /\ step[r] <= Steps /\ Params \in Nat \ {0}
      /\ at[r] \in Int /\ Len(issued[r]) \in Nat /\ done[r] <= Len(issued[r])
  BY <1>1, SizesAssumption
<1>3. Base(step[r]) \in Nat /\ Loss = Params + 1
  BY <1>2, Bases, Zenon
<1> QED
  BY <1>1, <1>2, <1>3, Zenon

LEMMA PlaceFrame ==
  ASSUME NEW q \in Ranks, SameTraining(q), rpc'[q] = rpc[q], UNCHANGED overlap, Place(q)
  PROVE  Place(q)'
<1>1. PICK b : b = Base(step[q])
  BY Zenon
<1>2. Base(step[q])' = b
  BY <1>1, Zenon DEF SameTraining, Base, Loss
<1>3. PlaceAt(q, b)
  BY <1>1, Zenon DEF Place
<1>4. PlaceAt(q, b)'
  BY <1>3 DEF SameTraining, PlaceAt
<1> QED
  BY <1>2, <1>4, Zenon DEF Place

(* A rank outside training is at no particular place.                       *)
LEMMA PlaceOutside ==
  ASSUME NEW q \in Ranks, rpc'[q] \in Leaving \cup {"exited"}
  PROVE  Place(q)'
  BY Zenon DEF Leaving, Starting, Stepping, Place, PlaceAt

LEMMA OneBack ==
  ASSUME NEW b \in Nat, NEW n \in Nat, NEW k \in 1..n, k > 1
  PROVE  k - 1 \in 1..n /\ b + n - k + 1 = b + n - (k - 1)
  OBVIOUS

LEMMA PlaceTraining ==
  ASSUME TypeOK, NEW r \in Ranks, Place(r), Training(r)
  PROVE  Place(r)'
<1> USE DEF env, launch, life, train
<1>0. PICK b : b = Base(step[r])
  BY Zenon
<1>1. /\ rpc \in [Ranks -> Places] /\ step \in [Ranks -> 0..Steps]
      /\ at \in [Ranks -> 0..Params + 1] /\ overlap \in BOOLEAN
  BY Zenon DEF TypeOK
<1>2. \A l : Goto(r, l) => rpc'[r] = l
  BY <1>1, Zenon DEF Goto
<1>3. /\ step[r] \in Nat /\ Steps \in Nat /\ step[r] <= Steps /\ at[r] \in Int
      /\ done[r] \in Nat /\ Len(issued[r]) \in Nat /\ done[r] <= Len(issued[r])
      /\ Params \in Nat \ {0} /\ Loss = Params + 1 /\ b \in Nat
  BY <1>0, TrainFacts, Zenon
<1>4. ASSUME NEW w, NEW v, Issue(r, w, v) PROVE Len(issued'[r]) = Len(issued[r]) + 1
  <2>1. issued \in [Ranks -> Seq(Collectives)] /\ issued[r] \in Seq(Collectives)
    BY Zenon DEF TypeOK
  <2>2. issued'[r] = Append(issued[r], [what |-> w, val |-> v])
    BY <1>4, <2>1, Zenon DEF Issue
  <2>3. \A e : Len(Append(issued[r], e)) = Len(issued[r]) + 1
    BY <2>1
  <2> QED
    BY <2>2, <2>3, Zenon
<1>5. PlaceAt(r, b) /\ UNCHANGED overlap
  BY <1>0, Zenon DEF Place, Training, Forward, Backward, FinishAsync, ReduceBlocking, ReducedBlocking,
     ReduceLoss, ReducedLoss, OptimizerStep
<1>6. step'[r] = step[r] /\ PlaceAt(r, b)' => Place(r)'
  BY <1>0, Zenon DEF Place, Base, Loss
<1>7. CASE Forward(r)
  <2>1. /\ rpc[r] = "forward" /\ rpc'[r] = "backward" /\ at'[r] = Params
        /\ UNCHANGED <<step, issued, done, overlap>>
    BY <1>1, <1>2, <1>7, Zenon DEF Forward
  <2>2. step[r] < Steps /\ Len(issued[r]) = b /\ done[r] = b
    BY <1>5, <2>1, Zenon DEF PlaceAt, Stepping
  <2>3. PlaceAt(r, b)'
    BY <1>3, <2>1, <2>2 DEF PlaceAt, Starting, Stepping
  <2> QED
    BY <1>6, <2>1, <2>3, Zenon
<1>8. CASE Backward(r)
  <2>1. /\ rpc[r] = "backward" /\ UNCHANGED <<step, done, overlap>>
        /\ at'[r] = IF at[r] > 1 THEN at[r] - 1 ELSE IF overlap THEN Params ELSE 1
        /\ rpc'[r] = IF at[r] > 1 THEN "backward" ELSE IF overlap THEN "finish" ELSE "reduce"
    BY <1>1, <1>2, <1>8, Zenon DEF Backward
  <2>2. /\ step[r] < Steps /\ at[r] \in 1..Params /\ done[r] >= b
        /\ Len(issued[r]) = IF overlap THEN b + Params - at[r] ELSE b
    BY <1>5, <2>1, Zenon DEF PlaceAt, Stepping
  <2>3. CASE overlap = TRUE
    <3>1. Len(issued'[r]) = Len(issued[r]) + 1
      BY <1>4, <1>8, <2>3, Zenon DEF Backward
    <3>2. /\ at'[r] = IF at[r] > 1 THEN at[r] - 1 ELSE Params
          /\ rpc'[r] = IF at[r] > 1 THEN "backward" ELSE "finish"
          /\ Len(issued[r]) = b + Params - at[r] /\ overlap' = TRUE
      BY <2>1, <2>2, <2>3, Zenon
    <3>3. PlaceAt(r, b)'
      <4>1. CASE at[r] > 1
        <5>1. /\ at'[r] = at[r] - 1 /\ rpc'[r] = "backward" /\ at'[r] \in 1..Params
              /\ Len(issued'[r]) = b + Params - at'[r]
          <6>0. at[r] \in 1..Params
            BY <2>2, Zenon
          <6>1. at[r] - 1 \in 1..Params /\ b + Params - at[r] + 1 = b + Params - (at[r] - 1)
            BY <1>3, <4>1, <6>0, OneBack, Zenon
          <6>2. at'[r] = at[r] - 1 /\ rpc'[r] = "backward"
            BY <3>2, <4>1, Zenon
          <6> QED
            BY <3>1, <3>2, <6>1, <6>2, Zenon
        <5> QED
          BY <2>1, <2>2, <3>2, <5>1, Zenon DEF PlaceAt, Starting, Stepping
      <4>2. CASE at[r] = 1
        <5>1. /\ at'[r] = Params /\ rpc'[r] = "finish" /\ Len(issued'[r]) = b + Params
              /\ done[r] >= b + Params - at'[r] /\ at'[r] \in 1..Params
          BY <1>3, <2>2, <3>1, <3>2, <4>2, SMTT(20)
        <5> QED
          BY <2>1, <2>2, <3>2, <5>1, Zenon DEF PlaceAt, Starting, Stepping
      <4> QED
        BY <2>2, <4>1, <4>2
    <3> QED
      BY <1>6, <2>1, <3>3, Zenon
  <2>4. CASE overlap = FALSE
    <3>1. /\ at'[r] = IF at[r] > 1 THEN at[r] - 1 ELSE 1
          /\ rpc'[r] = IF at[r] > 1 THEN "backward" ELSE "reduce"
          /\ Len(issued[r]) = b /\ overlap' = FALSE /\ UNCHANGED issued
      BY <1>8, <2>1, <2>2, <2>4, Zenon DEF Backward
    <3>2. PlaceAt(r, b)'
      BY <1>3, <2>1, <2>2, <3>1 DEF PlaceAt, Starting, Stepping
    <3> QED
      BY <1>6, <2>1, <3>2, Zenon
  <2> QED
    BY <1>1, <2>3, <2>4, Zenon
<1>9. CASE FinishAsync(r)
  <2>1. /\ rpc[r] = "finish" /\ UNCHANGED <<step, done, issued, overlap>>
        /\ done[r] > Len(issued[r]) - at[r] /\ at'[r] = at[r] - 1
        /\ rpc'[r] = IF at[r] = 1 THEN "loss" ELSE "finish"
    BY <1>1, <1>2, <1>9, Zenon DEF FinishAsync
  <2>2. /\ step[r] < Steps /\ overlap = TRUE /\ at[r] \in 1..Params
        /\ Len(issued[r]) = b + Params /\ done[r] >= b + Params - at[r]
    BY <1>5, <2>1, Zenon DEF PlaceAt, Stepping
  <2>3. PlaceAt(r, b)'
    <3>1. CASE at[r] = 1
      <4>1. rpc'[r] = "loss" /\ done[r] = b + Params
        BY <1>3, <2>1, <2>2, <3>1, SMTT(20)
      <4> QED
        BY <2>1, <2>2, <4>1, Zenon DEF PlaceAt, Starting, Stepping
    <3>2. CASE at[r] # 1
      <4>1. /\ rpc'[r] = "finish" /\ at'[r] \in 1..Params /\ done[r] >= b + Params - at'[r]
        <5>1. /\ at[r] - 1 \in 1..Params /\ Len(issued[r]) - at[r] = b + Params - at[r]
              /\ done[r] > b + Params - at[r]
          BY <1>3, <2>1, <2>2, <3>2, SMTT(20)
        <5>2. done[r] >= b + Params - (at[r] - 1)
          BY <1>3, <5>1, SMTT(20)
        <5>3. at'[r] = at[r] - 1 /\ rpc'[r] = "finish"
          BY <2>1, <3>2, Zenon
        <5> QED
          BY <5>1, <5>2, <5>3, Zenon
      <4> QED
        BY <2>1, <2>2, <4>1, Zenon DEF PlaceAt, Starting, Stepping
    <3> QED
      BY <3>1, <3>2, Zenon
  <2> QED
    BY <1>6, <2>1, <2>3, Zenon
<1>10. CASE ReduceBlocking(r)
  <2>1. /\ rpc[r] = "reduce" /\ rpc'[r] = "reducing" /\ UNCHANGED <<step, at, done, overlap>>
        /\ Len(issued'[r]) = Len(issued[r]) + 1
    BY <1>2, <1>4, <1>10, Zenon DEF ReduceBlocking
  <2>2. /\ step[r] < Steps /\ overlap = FALSE /\ at[r] \in 1..Params
        /\ Len(issued[r]) = b + at[r] - 1 /\ done[r] = Len(issued[r])
    BY <1>5, <2>1, Zenon DEF PlaceAt, Stepping
  <2>3. PlaceAt(r, b)'
    BY <1>3, <2>1, <2>2 DEF PlaceAt, Starting, Stepping
  <2> QED
    BY <1>6, <2>1, <2>3, Zenon
<1>11. CASE ReducedBlocking(r)
  <2>1. /\ rpc[r] = "reducing" /\ UNCHANGED <<step, done, issued, overlap>>
        /\ done[r] = Len(issued[r]) /\ at'[r] = at[r] + 1
        /\ rpc'[r] = IF at[r] = Params THEN "loss" ELSE "reduce"
    BY <1>1, <1>2, <1>11, Zenon DEF ReducedBlocking
  <2>2. /\ step[r] < Steps /\ overlap = FALSE /\ at[r] \in 1..Params
        /\ Len(issued[r]) = b + at[r]
    BY <1>5, <2>1, Zenon DEF PlaceAt, Stepping
  <2>3. PlaceAt(r, b)'
    <3>1. CASE at[r] = Params
      BY <2>1, <2>2, <3>1, Zenon DEF PlaceAt, Starting, Stepping
    <3>2. CASE at[r] # Params
      <4>1. /\ rpc'[r] = "reduce" /\ at'[r] \in 1..Params /\ Len(issued[r]) = b + at'[r] - 1
        <5>1. at[r] + 1 \in 1..Params /\ b + at[r] = b + (at[r] + 1) - 1
          BY <1>3, <2>2, <3>2, SMTT(20)
        <5>2. at'[r] = at[r] + 1 /\ rpc'[r] = "reduce"
          BY <2>1, <3>2, Zenon
        <5> QED
          BY <2>2, <5>1, <5>2, Zenon
      <4> QED
        BY <2>1, <2>2, <4>1, Zenon DEF PlaceAt, Starting, Stepping
    <3> QED
      BY <3>1, <3>2, Zenon
  <2> QED
    BY <1>6, <2>1, <2>3, Zenon
<1>12. CASE ReduceLoss(r)
  <2>1. /\ rpc[r] = "loss" /\ rpc'[r] = "lossing" /\ UNCHANGED <<step, done>>
        /\ Len(issued'[r]) = Len(issued[r]) + 1
    BY <1>2, <1>4, <1>12, Zenon DEF ReduceLoss
  <2>2. step[r] < Steps /\ Len(issued[r]) = b + Params /\ done[r] = b + Params
    BY <1>5, <2>1, Zenon DEF PlaceAt, Stepping
  <2>3. PlaceAt(r, b)'
    BY <1>3, <2>1, <2>2 DEF PlaceAt, Starting, Stepping
  <2> QED
    BY <1>6, <2>1, <2>3, Zenon
<1>13. CASE ReducedLoss(r)
  <2>1. /\ rpc[r] = "lossing" /\ rpc'[r] = "optimizer" /\ UNCHANGED <<step, done, issued>>
        /\ done[r] = Len(issued[r])
    BY <1>2, <1>13, Zenon DEF ReducedLoss
  <2>2. step[r] < Steps /\ Len(issued[r]) = b + Loss
    BY <1>5, <2>1, Zenon DEF PlaceAt, Stepping
  <2>3. PlaceAt(r, b)'
    BY <1>3, <2>1, <2>2, Zenon DEF PlaceAt, Starting, Stepping
  <2> QED
    BY <1>6, <2>1, <2>3, Zenon
<1>14. CASE OptimizerStep(r)
  <2>1. /\ rpc[r] = "optimizer" /\ UNCHANGED <<done, issued>> /\ step'[r] = step[r] + 1
        /\ rpc'[r] = IF step[r] + 1 = Steps THEN "write" ELSE "forward"
    BY <1>1, <1>2, <1>14, Zenon DEF OptimizerStep
  <2>2. step[r] < Steps /\ Len(issued[r]) = b + Loss /\ done[r] = b + Loss
    BY <1>5, <2>1, Zenon DEF PlaceAt, Stepping
  <2>3. Base(step[r])' = b + Loss
    <3>1. Base(step[r] + 1) = Base(step[r]) + Loss
      BY <1>3, Bases, Zenon
    <3>2. Base(step[r])' = Base(step[r] + 1)
      BY <2>1, Zenon DEF Base, Loss
    <3> QED
      BY <1>0, <3>1, <3>2, Zenon
  <2>4. PICK c : c = b + Loss
    BY Zenon
  <2>5. PlaceAt(r, c)'
    BY <1>3, <2>1, <2>2, <2>4 DEF PlaceAt, Starting, Stepping
  <2> QED
    BY <2>3, <2>4, <2>5, Zenon DEF Place
<1> QED
  BY <1>7, <1>8, <1>9, <1>10, <1>11, <1>12, <1>13, <1>14, Zenon DEF Training

LEMMA PlaceOwn ==
  ASSUME TypeOK, NEW r \in Ranks, Place(r), RankStep(r)
  PROVE  Place(r)'
<1> USE DEF env, launch, life, train
<1>0. PICK b : b = Base(step[r])
  BY Zenon
<1>1. rpc \in [Ranks -> Places] /\ done \in [Ranks -> Nat]
  BY Zenon DEF TypeOK
<1>2. \A l : Goto(r, l) => rpc'[r] = l
  BY <1>1, Zenon DEF Goto
<1>3. /\ step[r] \in Nat /\ Steps \in Nat /\ step[r] <= Steps /\ at[r] \in Int
      /\ done[r] \in Nat /\ Len(issued[r]) \in Nat /\ done[r] <= Len(issued[r])
      /\ Params \in Nat \ {0} /\ Loss = Params + 1 /\ b \in Nat
  BY <1>0, TrainFacts, Zenon
<1>4. PlaceAt(r, b)
  BY <1>0, Zenon DEF Place
<1>5. step'[r] = step[r] /\ PlaceAt(r, b)' => Place(r)'
  BY <1>0, Zenon DEF Place, Base, Loss
<1>6. CASE Raise(r)
  <2>1. rpc'[r] = "finally"
    BY <1>2, <1>6, Zenon DEF Raise
  <2> QED
    BY <2>1, PlaceOutside, Zenon DEF Leaving
<1>7. CASE ~Raise(r) /\ (StartCollector(r) \/ InitProcessGroup(r) \/ StartBackend(r) \/ SpawnDevice(r))
  <2>1. /\ rpc[r] \in Starting /\ rpc'[r] \in Starting \cup {"connect"} /\ UNCHANGED <<step, issued, done>>
    BY <1>2, <1>7, Zenon DEF StartCollector, InitProcessGroup, StartBackend, SpawnDevice, Starting
  <2>2. PlaceAt(r, b)'
    BY <1>4, <2>1, Zenon DEF PlaceAt, Starting, Stepping
  <2> QED
    BY <1>5, <2>1, <2>2, Zenon
<1>8. CASE WaitForConnections(r)
  <2>1. /\ rpc[r] = "connect" /\ UNCHANGED <<step, issued, done>>
        /\ rpc'[r] = IF Steps = 0 THEN "write" ELSE "forward"
    BY <1>2, <1>8, Zenon DEF WaitForConnections
  <2>2. step[r] = 0 /\ Len(issued[r]) = 0 /\ done[r] = 0
    BY <1>4, <2>1, Zenon DEF PlaceAt
  <2>3. b = 0
    BY <1>0, <2>2, Bases, Zenon
  <2>4. PlaceAt(r, b)'
    BY <1>3, <2>1, <2>2, <2>3 DEF PlaceAt, Starting, Stepping
  <2> QED
    BY <1>5, <2>1, <2>4, Zenon
<1>9. CASE Training(r)
  BY <1>9, PlaceTraining, Zenon
<1>10. CASE Complete(r)
  <2>1. /\ UNCHANGED <<rpc, step, at, issued, overlap>> /\ done'[r] = done[r] + 1
        /\ done[r] + 1 <= Len(issued[r])
    BY <1>1, <1>10, Zenon DEF Complete
  <2>2. PlaceAt(r, b)'
    BY <1>3, <1>4, <2>1, SMTT(20) DEF PlaceAt, Starting
  <2> QED
    BY <1>5, <2>1, <2>2, Zenon
<1>11. CASE WriteResult(r) /\ ~Raise(r)
  <2>1. rpc[r] = "write" /\ rpc'[r] = "barrier" /\ UNCHANGED step /\ Issue(r, Barrier, {})
    BY <1>2, <1>11, Zenon DEF WriteResult
  <2>2. Barrier \in 1..Barrier /\ {} \in SUBSET (Ranks \X (1..Steps))
    BY <1>3 DEF Barrier
  <2>3. Len(issued'[r]) = Len(issued[r]) + 1
    BY <2>1, <2>2, IssueFacts, Zenon
  <2>4. step[r] = Steps /\ Len(issued[r]) = b
    BY <1>4, <2>1, SMTT(20) DEF PlaceAt
  <2>5. PlaceAt(r, b)'
    BY <2>1, <2>3, <2>4, Zenon DEF PlaceAt, Starting, Stepping
  <2> QED
    BY <1>5, <2>1, <2>5, Zenon
<1>12. CASE BarrierDone(r) \/ DestroyGroup(r) \/ TerminateFleet(r) \/ StopBackend(r) \/ WorkerBoundary(r)
  <2>1. rpc'[r] \in Leaving \cup {"exited"}
    BY <1>2, <1>12, Zenon DEF BarrierDone, DestroyGroup, TerminateFleet, StopBackend, WorkerBoundary, Leaving
  <2> QED
    BY <2>1, PlaceOutside, Zenon
<1> QED
  BY <1>6, <1>7, <1>8, <1>9, <1>10, <1>11, <1>12, Zenon
     DEF RankStep, InitTimeout, DispatchFails, CollectiveFails

(* The launcher starts a rank from nothing and stops it for good.           *)
LEMMA LaunchFrame ==
  ASSUME TypeOK, LaunchInv, NEW q \in Ranks, Launcher \/ Interrupt \/ UNCHANGED vars
  PROVE  /\ SameTraining(q) /\ UNCHANGED env
         /\ \/ rpc'[q] = rpc[q]
            \/ rpc[q] = "none" /\ rpc'[q] = "start"
            \/ rpc'[q] = "exited"
<1> USE DEF env, launch, life, train, SameTraining
<1>1. rpc \in [Ranks -> Places] /\ lrank \in Ranks
  BY Zenon DEF TypeOK
<1>2. CASE PopenRank
  <2>1. lpc = "spawn" /\ SameTraining(q) /\ UNCHANGED env
    BY <1>2, Zenon DEF PopenRank
  <2>2. rpc[lrank] = "none"
    BY <1>1, <2>1, Numbers DEF LaunchInv
  <2>3. rpc'[q] = rpc[q] \/ (q = lrank /\ rpc'[q] = "start")
    BY <1>1, <1>2, Zenon DEF PopenRank, Goto
  <2> QED
    BY <2>1, <2>2, <2>3, Zenon
<1>3. CASE TerminateGroup
  BY <1>1, <1>3, Zenon DEF TerminateGroup, Goto
<1>4. CASE WaitRank \/ WaitTimeout \/ KillGroup \/ LoadResults \/ Interrupt \/ UNCHANGED vars
  BY <1>4, Zenon DEF WaitRank, WaitTimeout, KillGroup, LoadResults, Interrupt, vars
<1> QED
  BY <1>2, <1>3, <1>4, Zenon DEF Launcher

LEMMA PlaceNext ==
  ASSUME TypeOK, PlaceInv, LaunchInv, [Next]_vars
  PROVE  PlaceInv'
<1> SUFFICES ASSUME NEW q \in Ranks PROVE Place(q)'
  BY Zenon DEF PlaceInv
<1>1. Place(q)
  BY Zenon DEF PlaceInv
<1>2. ASSUME NEW r \in Ranks, RankStep(r) PROVE Place(q)'
  <2>1. CASE q = r
    BY <1>1, <1>2, <2>1, PlaceOwn, Zenon
  <2>2. CASE q # r
    BY <1>1, <1>2, <2>2, RankFrame, PlaceFrame, Zenon DEF Same, env
  <2> QED
    BY <2>1, <2>2, Zenon
<1>3. CASE Launcher \/ Interrupt \/ UNCHANGED vars
  <2>1. /\ SameTraining(q) /\ UNCHANGED overlap
        /\ rpc'[q] = rpc[q] \/ (rpc[q] = "none" /\ rpc'[q] = "start") \/ rpc'[q] = "exited"
    BY <1>3, LaunchFrame, Zenon DEF env
  <2>2. CASE rpc'[q] = rpc[q]
    BY <1>1, <2>1, <2>2, PlaceFrame, Zenon
  <2>3. CASE rpc[q] = "none" /\ rpc'[q] = "start"
    <3>1. step'[q] = 0 /\ Len(issued'[q]) = 0 /\ done'[q] = 0
      BY <1>1, <2>1, <2>3, Zenon DEF SameTraining, Place, PlaceAt
    <3> QED
      BY <2>3, <3>1, Zenon DEF Place, PlaceAt, Stepping, Starting
  <2>4. CASE rpc'[q] = "exited"
    BY <2>4, PlaceOutside, Zenon
  <2> QED
    BY <2>1, <2>2, <2>3, <2>4, Zenon
<1> QED
  BY <1>2, <1>3, Zenon DEF Next, RankStep

(***************************************************************************)
(* What is summed, and what is applied.                                    *)
(***************************************************************************)
(* A gradient whose reduction is not complete is the rank's own.            *)
LEMMA OwnGradient ==
  ASSUME TypeOK, NEW r \in Ranks, Grad(r), NEW p \in 1..Loss, NEW j \in 1..Loss,
         rpc[r] \in Stepping \ {"forward", "backward"},
         Order(p) = j, done[r] < Base(step[r]) + j
  PROVE  grad[r][p].from = {<<r, step[r] + 1>>}
<1>1. done[r] \in Nat /\ Base(step[r]) \in Nat /\ Loss \in Nat
  BY TrainFacts, Bases, Zenon
<1>2. ~(done[r] >= Base(step[r]) + Order(p))
  BY <1>1
<1>3. Produced(r, p) /\ rpc[r] \in Stepping \ {"forward"}
  BY Zenon DEF Produced
<1>4. grad[r][p].from = Local(r).from
  BY <1>2, <1>3, Zenon DEF Grad
<1> QED
  BY <1>4, Zenon DEF Local

LEMMA IssuedFrame ==
  ASSUME NEW q \in Ranks, issued'[q] = issued[q], UNCHANGED overlap, Issued(q)
  PROVE  Issued(q)'
<1>1. /\ Loss' = Loss /\ Base(Steps)' = Base(Steps) /\ Barrier' = Barrier
      /\ \A s \in Nat : Base(s)' = Base(s)
      /\ \A j \in 1..Loss : Order(j)' = Order(j)
  BY Zenon DEF Base, Loss, Order, Barrier
<1> QED
  BY <1>1, Zenon DEF Issued

LEMMA IssuedOwn ==
  ASSUME TypeOK, NEW r \in Ranks, Place(r), Grad(r), Issued(r), RankStep(r)
  PROVE  Issued(r)'
<1> USE DEF env, launch, life, train
<1>0. PICK b : b = Base(step[r])
  BY Zenon
<1>1. /\ step[r] \in Nat /\ Steps \in Nat /\ step[r] <= Steps /\ at[r] \in Int
      /\ done[r] \in Nat /\ Len(issued[r]) \in Nat /\ done[r] <= Len(issued[r])
      /\ Params \in Nat \ {0} /\ Loss = Params + 1 /\ b \in Nat
  BY <1>0, TrainFacts, Zenon
<1>2. PlaceAt(r, b)
  BY <1>0, Zenon DEF Place
<1>3. CASE UNCHANGED <<issued, overlap>>
  BY <1>3, IssuedFrame, Zenon
<1>4. CASE Backward(r) /\ overlap
  <2>1. rpc[r] = "backward" /\ Issue(r, at[r], Local(r).from) /\ UNCHANGED overlap
    BY <1>4, Zenon DEF Backward
  <2>2. step[r] < Steps /\ at[r] \in 1..Params /\ Len(issued[r]) = b + Params - at[r]
    BY <1>2, <1>4, <2>1, Zenon DEF PlaceAt, Stepping
  <2>3. PICK j \in 1..Loss : j = Loss - at[r]
    BY <1>1, <2>2
  <2>4. Len(issued[r]) + 1 = b + j /\ j # Loss /\ Loss - j = at[r]
    <3>1. /\ b + Params - at[r] + 1 = b + ((Params + 1) - at[r]) /\ (Params + 1) - at[r] # Params + 1
          /\ (Params + 1) - ((Params + 1) - at[r]) = at[r]
      <4>1. Params \in Nat /\ b \in Nat
        BY <1>1, Zenon
      <4>2. PICK a \in 1..Params : a = at[r]
        BY <2>2, Zenon
      <4>3. b + Params - a + 1 = b + ((Params + 1) - a)
        BY <4>1, <4>2
      <4>4. (Params + 1) - a # Params + 1 /\ (Params + 1) - ((Params + 1) - a) = a
        BY <4>1, <4>2
      <4> QED
        BY <4>2, <4>3, <4>4, Zenon
    <3>2. Loss = Params + 1 /\ Len(issued[r]) = b + Params - at[r] /\ j = (Params + 1) - at[r]
      BY <1>1, <2>2, <2>3, Zenon
    <3> QED
      BY <3>1, <3>2, Zenon
  <2>5. Order(j) = at[r]
    BY <1>4, <2>4, Zenon DEF Order
  <2>6. Local(r).from = {<<r, step[r] + 1>>}
    BY Zenon DEF Local
  <2> QED
    BY <1>0, <2>1, <2>2, <2>4, <2>5, <2>6, IssuedAppend, Zenon
<1>5. CASE ReduceBlocking(r)
  <2>1. rpc[r] = "reduce" /\ Issue(r, at[r], grad[r][at[r]].from) /\ UNCHANGED overlap
    BY <1>5, Zenon DEF ReduceBlocking
  <2>2. /\ step[r] < Steps /\ overlap = FALSE /\ at[r] \in 1..Params
        /\ Len(issued[r]) = b + at[r] - 1 /\ done[r] = Len(issued[r])
    BY <1>2, <2>1, Zenon DEF PlaceAt, Stepping
  <2>3. PICK j \in 1..Loss : j = at[r]
    BY <1>1, <2>2
  <2>4. Len(issued[r]) + 1 = b + j /\ j # Loss /\ done[r] < b + j
    BY <1>1, <2>2, <2>3
  <2>5. Order(j) = j
    BY <2>2, <2>4, Zenon DEF Order
  <2>6. grad[r][j].from = {<<r, step[r] + 1>>}
    BY <1>0, <2>1, <2>4, <2>5, OwnGradient, Zenon DEF Stepping
  <2> QED
    BY <1>0, <2>1, <2>2, <2>3, <2>4, <2>5, <2>6, IssuedAppend, Zenon
<1>6. CASE ReduceLoss(r)
  <2>1. rpc[r] = "loss" /\ Issue(r, Loss, grad[r][Loss].from) /\ UNCHANGED overlap
    BY <1>6, Zenon DEF ReduceLoss
  <2>2. step[r] < Steps /\ Len(issued[r]) = b + Params /\ done[r] = b + Params
    BY <1>2, <2>1, Zenon DEF PlaceAt, Stepping
  <2>3. PICK j \in 1..Loss : j = Loss
    BY <1>1
  <2>4. Len(issued[r]) + 1 = b + j /\ done[r] < b + j
    BY <1>1, <2>2, <2>3
  <2>5. Order(j) = j
    BY <2>3, Zenon DEF Order
  <2>6. grad[r][j].from = {<<r, step[r] + 1>>}
    BY <1>0, <2>1, <2>4, <2>5, OwnGradient, Zenon DEF Stepping
  <2> QED
    BY <1>0, <2>1, <2>2, <2>3, <2>4, <2>5, <2>6, IssuedAppend, Zenon
<1>7. CASE WriteResult(r) /\ Issue(r, Barrier, {})
  <2>1. rpc[r] = "write" /\ UNCHANGED overlap
    BY <1>7, Zenon DEF WriteResult
  <2>2. step[r] = Steps /\ Len(issued[r]) = Base(Steps)
    BY <1>0, <1>2, <2>1, Zenon DEF PlaceAt
  <2>3. Barrier \in 1..Barrier /\ {} \in SUBSET (Ranks \X (1..Steps))
    BY <1>1 DEF Barrier
  <2>4. /\ Len(issued'[r]) = Len(issued[r]) + 1
        /\ issued'[r][Len(issued[r]) + 1] = [what |-> Barrier, val |-> {}]
        /\ \A k \in 1..Len(issued[r]) : issued'[r][k] = issued[r][k]
    BY <1>7, <2>3, IssueFacts, ZenonT(30)
  <2>5. ASSUME NEW s \in Nat, NEW i \in 1..Loss, s < Steps
        PROVE  issued'[r][Base(s) + i] = [what |-> Order(i), val |-> {<<r, s + 1>>}]
    <3>1. Base(s) \in Nat /\ Base(Steps) \in Nat /\ Base(s) + Loss <= Base(Steps)
      BY <1>1, <2>5, Bases, Zenon
    <3>2. Base(s) + i \in 1..Len(issued[r]) /\ Base(s) + i <= Len(issued[r])
      BY <1>1, <2>2, <3>1
    <3> QED
      BY <2>4, <2>5, <3>2, Zenon DEF Issued
  <2>6. issued'[r][Base(Steps) + 1].what = Barrier
    BY <2>2, <2>4
  <2>7. /\ Loss' = Loss /\ Base(Steps)' = Base(Steps) /\ Barrier' = Barrier
        /\ \A s \in Nat : Base(s)' = Base(s)
        /\ \A j \in 1..Loss : Order(j)' = Order(j)
    BY <2>1, Zenon DEF Base, Loss, Order, Barrier
  <2> QED
    BY <2>5, <2>6, <2>7, Zenon DEF Issued
<1>8. \/ UNCHANGED <<issued, overlap>> \/ (Backward(r) /\ overlap) \/ ReduceBlocking(r) \/ ReduceLoss(r)
      \/ (WriteResult(r) /\ Issue(r, Barrier, {}))
  BY ZenonT(30) DEF RankStep, StartCollector, InitProcessGroup, InitTimeout, StartBackend, SpawnDevice,
     WaitForConnections, Training, Forward, Backward, FinishAsync, ReducedBlocking,
     ReducedLoss, OptimizerStep, DispatchFails, Complete, CollectiveFails,
     WriteResult, BarrierDone, DestroyGroup, TerminateFleet, StopBackend, WorkerBoundary
<1> QED
  BY <1>3, <1>4, <1>5, <1>6, <1>7, <1>8, Zenon

LEMMA IssuedNext ==
  ASSUME TypeOK, PlaceInv, LaunchInv, GradInv, IssuedInv, [Next]_vars
  PROVE  IssuedInv'
<1> SUFFICES ASSUME NEW q \in Ranks PROVE Issued(q)'
  BY Zenon DEF IssuedInv
<1>1. Issued(q) /\ Place(q) /\ Grad(q)
  BY Zenon DEF PlaceInv, IssuedInv, GradInv
<1>2. ASSUME NEW r \in Ranks, RankStep(r) PROVE Issued(q)'
  <2>1. CASE q = r
    BY <1>1, <1>2, <2>1, IssuedOwn, Zenon
  <2>2. CASE q # r
    BY <1>1, <1>2, <2>2, RankFrame, IssuedFrame, Zenon DEF SameTraining, env
  <2> QED
    BY <2>1, <2>2, Zenon
<1>3. CASE Launcher \/ Interrupt \/ UNCHANGED vars
  BY <1>1, <1>3, LaunchFrame, IssuedFrame, Zenon DEF SameTraining, env
<1> QED
  BY <1>2, <1>3, Zenon DEF Next, RankStep

(* A gradient that was divided had been reduced.                            *)
LEMMA DividedDone ==
  ASSUME TypeOK, NEW r \in Ranks, Place(r), NEW p \in 1..Loss, Divided(r, p)
  PROVE  done[r] >= Base(step[r]) + Order(p)
<1>0. PICK b : b = Base(step[r])
  BY Zenon
<1>1. /\ at[r] \in Int /\ done[r] \in Nat /\ Params \in Nat \ {0} /\ Loss = Params + 1 /\ b \in Nat
  BY <1>0, TrainFacts, Zenon
<1>2. PlaceAt(r, b)
  BY <1>0, Zenon DEF Place
<1>3. PICK o : o = Order(p)
  BY Zenon
<1>9. o \in 1..Loss
  BY <1>3, Orders, Zenon
<1>4. /\ p # Loss /\ overlap = TRUE => o = Loss - p
      /\ p # Loss /\ overlap = FALSE => o = p
  BY <1>3, Orders, Zenon
<1>5. CASE rpc[r] = "finish" /\ p > at[r] /\ p # Loss
  <2>1. overlap = TRUE /\ at[r] \in 1..Params /\ done[r] >= b + Params - at[r]
    BY <1>2, <1>5, Zenon DEF PlaceAt
  <2>2. o = Loss - p
    BY <1>4, <1>5, <2>1, Zenon
  <2>3. done[r] >= b + o
    BY <1>1, <1>5, <2>1, <2>2, SMTT(20)
  <2> QED
    BY <1>0, <1>3, <2>3, Zenon
<1>6. CASE rpc[r] \in {"reduce", "reducing"} /\ p < at[r]
  <2>1. overlap = FALSE /\ at[r] \in 1..Params /\ done[r] >= b + at[r] - 1
    BY <1>1, <1>2, <1>6 DEF PlaceAt
  <2>2. p # Loss
    BY <1>1, <1>6, <2>1
  <2>3. o = p
    BY <1>4, <2>1, <2>2, Zenon
  <2>4. done[r] >= b + o
    BY <1>1, <1>6, <2>1, <2>3
  <2> QED
    BY <1>0, <1>3, <2>4, Zenon
<1>7. CASE rpc[r] \in {"loss", "lossing"} /\ p # Loss
  <2>1. done[r] >= b + Params
    BY <1>1, <1>2, <1>7 DEF PlaceAt
  <2>2. overlap \in BOOLEAN
    BY Zenon DEF TypeOK
  <2>3. o = Loss - p \/ o = p
    BY <1>4, <1>7, <2>2, Zenon
  <2>4. o <= Params
    BY <1>1, <1>7, <2>3
  <2>5. done[r] >= b + o
    BY <1>1, <1>9, <2>1, <2>4, SMTT(20)
  <2> QED
    BY <1>0, <1>3, <2>5, Zenon
<1>8. CASE rpc[r] = "optimizer"
  <2>1. done[r] = b + Loss
    BY <1>2, <1>8, Zenon DEF PlaceAt
  <2>2. done[r] >= b + o
    BY <1>1, <1>9, <2>1
  <2> QED
    BY <1>0, <1>3, <2>2, Zenon
<1> QED
  BY <1>5, <1>6, <1>7, <1>8, Zenon DEF Divided

(* Every rank issues the same collective at the same place: the sum is over *)
(* the ranks' gradients of one parameter in one step.                       *)
LEMMA CompletesMean ==
  ASSUME TypeOK, IssuedInv, NEW r \in Ranks, Place(r), Complete(r), step[r] < Steps,
         NEW j \in 1..Loss, done[r] + 1 = Base(step[r]) + j
  PROVE  /\ grad'[r][Order(j)] = [from |-> Mean(step[r] + 1).from, div |-> 0]
         /\ \A p \in 1..Loss : p # Order(j) => grad'[r][p] = grad[r][p]
<1> DEFINE k == done[r] + 1
<1> DEFINE sum == UNION {issued[q][k].val : q \in Ranks}
<1>1. step[r] \in Nat /\ Params \in Nat /\ Loss = Params + 1 /\ done[r] \in Nat
  BY TrainFacts, Zenon
<1>2. ASSUME NEW q \in Ranks PROVE issued[q][k] = [what |-> Order(j), val |-> {<<q, step[r] + 1>>}]
  <2>1. Base(step[r]) + j <= Len(issued[q])
    BY Zenon DEF Complete
  <2>2. Issued(q)
    BY Zenon DEF IssuedInv
  <2> QED
    BY <1>1, <2>1, <2>2, Zenon DEF Issued
<1>3. issued[r][k].what = Order(j) /\ \A q \in Ranks : issued[q][k].val = {<<q, step[r] + 1>>}
  <2>1. ASSUME NEW q \in Ranks
        PROVE  issued[q][k].what = Order(j) /\ issued[q][k].val = {<<q, step[r] + 1>>}
    <3>1. PICK e : e = issued[q][k]
      BY Zenon
    <3>2. PICK w, v : w = Order(j) /\ v = {<<q, step[r] + 1>>}
      BY Zenon
    <3>3. e = [what |-> w, val |-> v]
      BY <1>2, <3>1, <3>2, Zenon
    <3>4. e.what = w /\ e.val = v
      BY <3>3, Zenon
    <3> QED
      BY <3>1, <3>2, <3>4, Zenon
  <2> QED
    BY <2>1, Zenon
<1>4. Order(j) \in 1..Loss /\ Order(j) # Barrier
  <2>1. Order(j) \in 1..Loss
    BY Orders, Zenon
  <2> QED
    BY <1>1, <2>1 DEF Barrier
<1>5. grad' = IF issued[r][k].what = Barrier THEN grad
              ELSE [grad EXCEPT ![r] = [grad[r] EXCEPT ![issued[r][k].what] = [from |-> sum, div |-> 0]]]
  BY Zenon DEF Complete
<1> HIDE DEF k
<1>6. sum = {<<q, step[r] + 1>> : q \in Ranks}
  BY <1>3
<1>7. sum = Mean(step[r] + 1).from
  BY <1>6, Zenon DEF Mean
<1> HIDE DEF sum
<1>8. grad' = [grad EXCEPT ![r] = [grad[r] EXCEPT ![Order(j)] = [from |-> sum, div |-> 0]]]
  BY <1>3, <1>4, <1>5, Zenon
<1>9. grad \in [Ranks -> [1..Loss -> Gradients]] /\ grad[r] \in [1..Loss -> Gradients]
  BY Zenon DEF TypeOK
<1>10. grad'[r] = [grad[r] EXCEPT ![Order(j)] = [from |-> sum, div |-> 0]]
  BY <1>8, <1>9, Zenon
<1>11. /\ grad'[r][Order(j)] = [from |-> sum, div |-> 0]
       /\ \A p \in 1..Loss : p # Order(j) => grad'[r][p] = grad[r][p]
  BY <1>4, <1>9, <1>10, Zenon
<1> QED
  BY <1>7, <1>11, Zenon

(* Where the reductions stand and whose gradients there are does not change; *)
(* some may be divided.                                                     *)
LEMMA GradKeep ==
  ASSUME NEW r \in Ranks, Grad(r), rpc[r] \in Stepping \ {"forward"},
         UNCHANGED overlap, step'[r] = step[r], done'[r] = done[r],
         \A p \in 1..Loss :
           /\ grad'[r][p].from = grad[r][p].from
           /\ Produced(r, p)' <=> Produced(r, p)
           /\ grad'[r][p].div = IF Divided(r, p)' THEN Cardinality(Ranks) ELSE 0
  PROVE  Grad(r)'
<1>1. \A p \in 1..Loss : Order(p)' = Order(p)
  BY Zenon DEF Order, Loss
<1>2. /\ Base(step[r])' = Base(step[r]) /\ Mean(step[r] + 1)' = Mean(step[r] + 1)
      /\ Local(r)' = Local(r) /\ Loss' = Loss /\ done'[r] = done[r]
  BY Zenon DEF Base, Mean, Local, Loss
<1> QED
  BY <1>1, <1>2, Zenon DEF Grad

LEMMA GradFrame ==
  ASSUME NEW q \in Ranks, SameTraining(q), rpc'[q] = rpc[q], UNCHANGED overlap, Grad(q)
  PROVE  Grad(q)'
<1>1. CASE rpc[q] \in Stepping \ {"forward"}
  <2>1. \A p \in 1..Loss : /\ Produced(q, p)' <=> Produced(q, p)
                           /\ Divided(q, p)' <=> Divided(q, p)
    BY Zenon DEF Produced, Divided, Loss, SameTraining
  <2>2. \A p \in 1..Loss : /\ grad'[q][p] = grad[q][p]
                           /\ grad[q][p].div = IF Divided(q, p) THEN Cardinality(Ranks) ELSE 0
    BY <1>1, Zenon DEF Grad, SameTraining
  <2>3. \A p \in 1..Loss : /\ grad'[q][p].from = grad[q][p].from
                           /\ grad'[q][p].div = IF Divided(q, p)' THEN Cardinality(Ranks) ELSE 0
    BY <2>1, <2>2, Zenon
  <2> QED
    BY <1>1, <2>1, <2>3, GradKeep, Zenon DEF SameTraining
<1>2. CASE rpc[q] \notin Stepping \ {"forward"}
  BY <1>2, ZenonT(30) DEF Grad
<1> QED
  BY <1>1, <1>2, SMTT(20)

LEMMA GradReduced ==
  ASSUME TypeOK, NEW r \in Ranks, Place(r), Grad(r),
         \/ FinishAsync(r) \/ ReduceBlocking(r) \/ ReducedBlocking(r) \/ ReduceLoss(r) \/ ReducedLoss(r)
  PROVE  Grad(r)'
<1> USE DEF env, launch, life, train
<1>0. PICK b : b = Base(step[r])
  BY Zenon
<1>1. /\ rpc \in [Ranks -> Places] /\ at \in [Ranks -> 0..Params + 1]
      /\ grad \in [Ranks -> [1..Loss -> Gradients]] /\ grad[r] \in [1..Loss -> Gradients]
  BY Zenon DEF TypeOK
<1>2. \A l : Goto(r, l) => rpc'[r] = l
  BY <1>1, Zenon DEF Goto
<1>3. at[r] \in Int /\ Params \in Nat \ {0} /\ Loss = Params + 1
  BY TrainFacts, Zenon
<1>4. PlaceAt(r, b)
  BY <1>0, Zenon DEF Place
<1>5. Cardinality(Ranks) \in Nat
  BY Numbers, Zenon
<1>6. /\ rpc[r] \in Stepping \ {"forward", "backward"} /\ UNCHANGED <<step, overlap, done>>
      /\ rpc'[r] # "backward" /\ rpc[r] # "backward" /\ rpc[r] \in Stepping \ {"forward"}
  BY <1>2, Zenon DEF FinishAsync, ReduceBlocking, ReducedBlocking, ReduceLoss, ReducedLoss, Stepping
<1>7. \A p \in 1..Loss : /\ Produced(r, p)' <=> Produced(r, p)
                         /\ grad[r][p].div = IF Divided(r, p) THEN Cardinality(Ranks) ELSE 0
  BY <1>6, Zenon DEF Produced, Grad
<1>8. SUFFICES \A p \in 1..Loss :
                 /\ grad'[r][p].from = grad[r][p].from
                 /\ grad'[r][p].div = IF Divided(r, p)' THEN Cardinality(Ranks) ELSE 0
  BY <1>6, <1>7, GradKeep, Zenon
<1>9. ASSUME NEW w \in 1..Loss, Divide(r, w), ~Divided(r, w),
             \A p \in 1..Loss : Divided(r, p)' <=> p = w \/ Divided(r, p)
      PROVE  \A p \in 1..Loss :
               /\ grad'[r][p].from = grad[r][p].from
               /\ grad'[r][p].div = IF Divided(r, p)' THEN Cardinality(Ranks) ELSE 0
  <2>1. /\ grad'[r][w].from = grad[r][w].from
        /\ grad'[r][w].div = grad[r][w].div + Cardinality(Ranks)
        /\ \A p \in 1..Loss : p # w => grad'[r][p] = grad[r][p]
    BY <1>9, DivideFacts, Zenon
  <2>2. grad[r][w].div = 0
    BY <1>7, <1>9, Zenon
  <2>3. grad'[r][w].div = Cardinality(Ranks)
    BY <1>5, <2>1, <2>2
  <2> QED
    BY <1>7, <1>9, <2>1, <2>3, Zenon
<1>10. CASE FinishAsync(r)
  <2>1. /\ rpc[r] = "finish" /\ at'[r] = at[r] - 1 /\ Divide(r, at[r])
        /\ rpc'[r] = IF at[r] = 1 THEN "loss" ELSE "finish"
    BY <1>1, <1>2, <1>10, Zenon DEF FinishAsync
  <2>2. at[r] \in 1..Params /\ at[r] \in 1..Loss
    <3>1. at[r] \in 1..Params
      BY <1>4, <2>1, Zenon DEF PlaceAt
    <3> QED
      BY <1>3, <3>1
  <2>3. ~Divided(r, at[r])
    <3>1. ~(at[r] > at[r]) /\ ~(at[r] < at[r])
      BY <1>3, SMTT(20)
    <3> QED
      BY <2>1, <3>1, Zenon DEF Divided
  <2>4. ASSUME NEW p \in 1..Loss PROVE Divided(r, p)' <=> p = at[r] \/ Divided(r, p)
    <3>1. Divided(r, p) <=> p > at[r] /\ p # Loss
      BY <2>1, Zenon DEF Divided
    <3>2. at[r] = 1 => (Divided(r, p)' <=> p # Loss)
      BY <2>1, Zenon DEF Divided, Loss
    <3>3. at[r] # 1 => (Divided(r, p)' <=> p > at[r] - 1 /\ p # Loss)
      BY <2>1, Zenon DEF Divided, Loss
    <3> QED
      BY <1>3, <2>2, <3>1, <3>2, <3>3
  <2> QED
    BY <1>9, <2>1, <2>2, <2>3, <2>4, Zenon
<1>11. CASE ReduceBlocking(r)
  <2>1. rpc[r] = "reduce" /\ rpc'[r] = "reducing" /\ UNCHANGED <<at, grad>>
    BY <1>2, <1>11, ZenonT(30) DEF ReduceBlocking
  <2>2. \A p \in 1..Loss : Divided(r, p)' <=> Divided(r, p)
    BY <2>1, Zenon DEF Divided
  <2> QED
    BY <1>7, <2>1, <2>2, Zenon
<1>12. CASE ReducedBlocking(r)
  <2>1. /\ rpc[r] = "reducing" /\ at'[r] = at[r] + 1 /\ Divide(r, at[r])
        /\ rpc'[r] = IF at[r] = Params THEN "loss" ELSE "reduce"
    BY <1>1, <1>2, <1>12, ZenonT(30) DEF ReducedBlocking
  <2>2. at[r] \in 1..Params /\ at[r] \in 1..Loss
    <3>1. at[r] \in 1..Params
      BY <1>4, <2>1, Zenon DEF PlaceAt
    <3> QED
      BY <1>3, <3>1
  <2>3. ~Divided(r, at[r])
    <3>1. ~(at[r] > at[r]) /\ ~(at[r] < at[r])
      BY <1>3
    <3> QED
      BY <2>1, <3>1, Zenon DEF Divided
  <2>4. ASSUME NEW p \in 1..Loss PROVE Divided(r, p)' <=> p = at[r] \/ Divided(r, p)
    <3>1. Divided(r, p) <=> p < at[r]
      BY <2>1, Zenon DEF Divided
    <3>2. at[r] = Params => (Divided(r, p)' <=> p # Loss)
      BY <2>1, Zenon DEF Divided, Loss
    <3>3. at[r] # Params => (Divided(r, p)' <=> p < at[r] + 1)
      BY <2>1, Zenon DEF Divided
    <3> QED
      BY <1>3, <2>2, <3>1, <3>2, <3>3
  <2> QED
    BY <1>9, <2>1, <2>2, <2>3, <2>4, Zenon
<1>13. CASE ReduceLoss(r)
  <2>1. rpc[r] = "loss" /\ rpc'[r] = "lossing" /\ UNCHANGED grad
    BY <1>2, <1>13, ZenonT(30) DEF ReduceLoss
  <2>2. \A p \in 1..Loss : Divided(r, p)' <=> Divided(r, p)
    BY <2>1, SMTT(20) DEF Divided, Loss
  <2> QED
    BY <1>7, <2>1, <2>2, Zenon
<1>14. CASE ReducedLoss(r)
  <2>1. rpc[r] = "lossing" /\ rpc'[r] = "optimizer" /\ Divide(r, Loss)
    BY <1>2, <1>14, Zenon DEF ReducedLoss
  <2>2. Loss \in 1..Loss
    BY <1>3, SMTT(20)
  <2>3. ~Divided(r, Loss) /\ \A p \in 1..Loss : Divided(r, p)' <=> p = Loss \/ Divided(r, p)
    BY <2>1, Zenon DEF Divided
  <2> QED
    BY <1>9, <2>1, <2>2, <2>3, Zenon
<1> QED
  BY <1>10, <1>11, <1>12, <1>13, <1>14, Zenon

(* What Grad is to be shown for after a step that stays in the training     *)
(* step, with the training step's own quantities unprimed.                  *)
LEMMA GradSuffices ==
  ASSUME NEW r \in Ranks, UNCHANGED overlap, step'[r] = step[r],
         \A p \in 1..Loss :
           /\ grad'[r][p].from = IF done'[r] >= Base(step[r]) + Order(p) THEN Mean(step[r] + 1).from
                                 ELSE IF Produced(r, p)' THEN Local(r).from ELSE {}
           /\ grad'[r][p].div = IF Divided(r, p)' THEN Cardinality(Ranks) ELSE 0
  PROVE  Grad(r)'
<1>1. \A p \in 1..Loss : Order(p)' = Order(p)
  BY Zenon DEF Order, Loss
<1>2. /\ Base(step[r])' = Base(step[r]) /\ Mean(step[r] + 1)' = Mean(step[r] + 1)
      /\ Local(r)' = Local(r) /\ Loss' = Loss
  BY Zenon DEF Base, Mean, Local, Loss
<1>3. ASSUME NEW p \in 1..Loss
      PROVE  /\ grad'[r][p].from = IF done'[r] >= Base(step[r])' + Order(p)'
                                   THEN (Mean(step[r] + 1).from)'
                                   ELSE IF Produced(r, p)' THEN (Local(r).from)' ELSE {}
             /\ grad'[r][p].div = IF Divided(r, p)' THEN Cardinality(Ranks) ELSE 0
  <2>1. Base(step[r])' + Order(p)' = Base(step[r]) + Order(p)
    BY <1>1, <1>2, Zenon
  <2>2. (Mean(step[r] + 1).from)' = Mean(step[r] + 1).from /\ (Local(r).from)' = Local(r).from
    BY <1>2, Zenon
  <2>3. grad'[r][p].from = IF done'[r] >= Base(step[r]) + Order(p) THEN Mean(step[r] + 1).from
                           ELSE IF Produced(r, p)' THEN Local(r).from ELSE {}
    BY Zenon
  <2>4. grad'[r][p].from = IF done'[r] >= Base(step[r])' + Order(p)'
                           THEN (Mean(step[r] + 1).from)'
                           ELSE IF Produced(r, p)' THEN (Local(r).from)' ELSE {}
    BY <2>1, <2>2, <2>3, Zenon
  <2> QED
    BY <2>4, Zenon
<1> QED
  BY <1>2, <1>3, Zenon DEF Grad

LEMMA GradForward ==
  ASSUME TypeOK, NEW r \in Ranks, Place(r), Forward(r)
  PROVE  Grad(r)'
<1>1. /\ rpc \in [Ranks -> Places] /\ at \in [Ranks -> 0..Params + 1]
      /\ grad \in [Ranks -> [1..Loss -> Gradients]]
  BY Zenon DEF TypeOK
<1>2. /\ rpc[r] = "forward" /\ rpc'[r] = "backward" /\ at'[r] = Params /\ UNCHANGED <<step, done, overlap>>
      /\ grad'[r] = [p \in 1..Loss |-> IF p = Loss THEN Local(r) ELSE None]
  BY <1>1, Zenon DEF Forward, Goto, env
<1>3. Params \in Nat \ {0} /\ Loss = Params + 1 /\ Base(step[r]) \in Nat
  BY TrainFacts, SMTT(20)
<1>4. done[r] = Base(step[r])
  BY <1>2, Zenon DEF Place, PlaceAt
<1>5. ASSUME NEW p \in 1..Loss
      PROVE  /\ grad'[r][p].from = IF done'[r] >= Base(step[r]) + Order(p) THEN Mean(step[r] + 1).from
                                   ELSE IF Produced(r, p)' THEN Local(r).from ELSE {}
             /\ grad'[r][p].div = IF Divided(r, p)' THEN Cardinality(Ranks) ELSE 0
  <2>1. Order(p) \in 1..Loss
    BY Orders, Zenon
  <2>2. ~(done'[r] >= Base(step[r]) + Order(p))
    BY <1>2, <1>3, <1>4, <2>1
  <2>3. (Produced(r, p)' <=> p = Loss) /\ ~Divided(r, p)'
    BY <1>2, <1>3 DEF Produced, Divided
  <2>4. grad'[r][p] = IF p = Loss THEN Local(r) ELSE None
    BY <1>2, Zenon
  <2>5. None.from = {} /\ None.div = 0 /\ Local(r).div = 0
    BY Zenon DEF None, Local
  <2> QED
    BY <2>2, <2>3, <2>4, <2>5, Zenon
<1> QED
  BY <1>2, <1>5, GradSuffices, Zenon

LEMMA GradBackward ==
  ASSUME TypeOK, NEW r \in Ranks, Place(r), Grad(r), Backward(r)
  PROVE  Grad(r)'
<1>1. /\ rpc \in [Ranks -> Places] /\ at \in [Ranks -> 0..Params + 1] /\ overlap \in BOOLEAN
      /\ grad \in [Ranks -> [1..Loss -> Gradients]] /\ grad[r] \in [1..Loss -> Gradients]
  BY Zenon DEF TypeOK
<1>2. /\ rpc[r] = "backward" /\ UNCHANGED <<step, done, overlap>>
      /\ at'[r] = IF at[r] > 1 THEN at[r] - 1 ELSE IF overlap THEN Params ELSE 1
      /\ rpc'[r] = IF at[r] > 1 THEN "backward" ELSE IF overlap THEN "finish" ELSE "reduce"
      /\ grad' = [grad EXCEPT ![r] = [grad[r] EXCEPT ![at[r]] = Local(r)]]
  BY <1>1, Zenon DEF Backward, Goto, env
<1>3. /\ Params \in Nat \ {0} /\ Loss = Params + 1 /\ Base(step[r]) \in Nat
      /\ done[r] \in Nat /\ Len(issued[r]) \in Nat /\ done[r] <= Len(issued[r])
  BY TrainFacts, Zenon
<1>4. /\ at[r] \in 1..Params
      /\ Len(issued[r]) = IF overlap THEN Base(step[r]) + Params - at[r] ELSE Base(step[r])
  BY <1>2, Zenon DEF Place, PlaceAt
<1>5. at[r] \in 1..Loss /\ at[r] # Loss
  BY <1>3, <1>4, SMTT(20)
<1>6. ~(done[r] >= Base(step[r]) + Order(at[r]))
  <2>1. CASE overlap = TRUE
    <3>1. Order(at[r]) = Loss - at[r] /\ Len(issued[r]) = Base(step[r]) + Params - at[r]
      BY <1>4, <1>5, <2>1, Orders, Zenon
    <3> QED
      BY <1>3, <1>4, <3>1
  <2>2. CASE overlap = FALSE
    <3>1. Order(at[r]) = at[r] /\ Len(issued[r]) = Base(step[r])
      BY <1>4, <1>5, <2>2, Orders, Zenon
    <3> QED
      BY <1>3, <1>4, <3>1
  <2> QED
    BY <1>1, <2>1, <2>2, Zenon
<1>7. grad'[r] = [grad[r] EXCEPT ![at[r]] = Local(r)]
  BY <1>1, <1>2, Zenon
<1>8. ASSUME NEW p \in 1..Loss PROVE (Produced(r, p)' <=> p = at[r] \/ Produced(r, p)) /\ ~Divided(r, p)'
  <2>1. CASE at[r] > 1
    <3>1. at'[r] = at[r] - 1 /\ rpc'[r] = "backward"
      BY <1>2, <2>1, Zenon
    <3> QED
      BY <1>2, <1>3, <1>4, <3>1 DEF Produced, Divided
  <2>2. CASE ~(at[r] > 1)
    <3>1. at[r] = 1
      BY <1>4, <2>2
    <3>2. \/ rpc'[r] = "finish" /\ at'[r] = Params
          \/ rpc'[r] = "reduce" /\ at'[r] = 1
      BY <1>2, <2>2, Zenon
    <3> QED
      BY <1>2, <1>3, <3>1, <3>2 DEF Produced, Divided
  <2> QED
    BY <2>1, <2>2, Zenon
<1>9. \A p \in 1..Loss : ~Divided(r, p)
  BY <1>2, Zenon DEF Divided
<1>10. rpc[r] \in Stepping \ {"forward"}
  BY <1>2, Zenon DEF Stepping
<1>11. ASSUME NEW p \in 1..Loss
       PROVE  /\ grad'[r][p].from = IF done'[r] >= Base(step[r]) + Order(p) THEN Mean(step[r] + 1).from
                                    ELSE IF Produced(r, p)' THEN Local(r).from ELSE {}
              /\ grad'[r][p].div = IF Divided(r, p)' THEN Cardinality(Ranks) ELSE 0
  <2>1. CASE p = at[r]
    <3>1. grad'[r][p] = Local(r)
      BY <1>1, <1>7, <2>1, Zenon
    <3>2. Local(r).div = 0
      BY Zenon DEF Local
    <3>3. ~(done'[r] >= Base(step[r]) + Order(p)) /\ Produced(r, p)' /\ ~Divided(r, p)'
      BY <1>2, <1>6, <1>8, <2>1, Zenon
    <3> QED
      BY <3>1, <3>2, <3>3, Zenon
  <2>2. CASE p # at[r]
    <3>1. grad'[r][p] = grad[r][p]
      BY <1>1, <1>7, <2>2, Zenon
    <3>2. /\ grad[r][p].from = IF done[r] >= Base(step[r]) + Order(p) THEN Mean(step[r] + 1).from
                               ELSE IF Produced(r, p) THEN Local(r).from ELSE {}
          /\ grad[r][p].div = IF Divided(r, p) THEN Cardinality(Ranks) ELSE 0
      BY <1>10, Zenon DEF Grad
    <3> QED
      BY <1>2, <1>8, <1>9, <2>2, <3>1, <3>2, Zenon
  <2> QED
    BY <2>1, <2>2, Zenon
<1> QED
  BY <1>2, <1>11, GradSuffices, Zenon

LEMMA GradComplete ==
  ASSUME TypeOK, IssuedInv, NEW r \in Ranks, Place(r), Grad(r), Complete(r)
  PROVE  Grad(r)'
<1>1. done \in [Ranks -> Nat]
  BY Zenon DEF TypeOK
<1>2. /\ UNCHANGED <<rpc, step, at, overlap>> /\ done'[r] = done[r] + 1
      /\ done[r] + 1 <= Len(issued[r])
  BY <1>1, Zenon DEF Complete, env
<1>3. /\ Params \in Nat \ {0} /\ Loss = Params + 1 /\ Base(step[r]) \in Nat
      /\ done[r] \in Nat /\ Len(issued[r]) \in Nat /\ at[r] \in Int
  BY TrainFacts, Zenon
<1> SUFFICES ASSUME rpc[r] \in Stepping \ {"forward"} PROVE Grad(r)'
  BY <1>2, Zenon DEF Grad
<1>4. step[r] < Steps /\ done[r] >= Base(step[r]) /\ Len(issued[r]) <= Base(step[r]) + Loss
  <2>1. PICK b : b = Base(step[r])
    BY Zenon
  <2>2. PlaceAt(r, b) /\ b \in Nat
    BY <1>3, <2>1, SMTT(20) DEF Place
  <2>3. step[r] < Steps
    BY <2>2, SMTT(20) DEF PlaceAt
  <2>4. done[r] >= b /\ Len(issued[r]) <= b + Loss
    <3>1. CASE rpc[r] = "backward"
      <4>1. at[r] \in 1..Params /\ done[r] >= b /\ Len(issued[r]) = IF overlap THEN b + Params - at[r] ELSE b
        BY <2>2, <3>1, Zenon DEF PlaceAt
      <4>2. Len(issued[r]) = b + Params - at[r] \/ Len(issued[r]) = b
        BY <4>1, Zenon
      <4> QED
        BY <1>3, <2>2, <4>1, <4>2
    <3>2. CASE rpc[r] # "backward"
      BY <1>3, <2>2, <3>2, SMTT(20) DEF PlaceAt, Stepping
    <3> QED
      BY <3>1, <3>2, Zenon
  <2> QED
    BY <2>1, <2>3, <2>4, Zenon
<1>5. PICK j \in 1..Loss : done[r] + 1 = Base(step[r]) + j
  <2>1. /\ done[r] + 1 - Base(step[r]) \in 1..Loss
        /\ done[r] + 1 = Base(step[r]) + (done[r] + 1 - Base(step[r]))
    BY <1>2, <1>3, <1>4
  <2> QED
    BY <2>1, Zenon
<1>6. /\ grad'[r][Order(j)] = [from |-> Mean(step[r] + 1).from, div |-> 0]
      /\ \A p \in 1..Loss : p # Order(j) => grad'[r][p] = grad[r][p]
  BY <1>4, <1>5, CompletesMean, Zenon
<1>7. ASSUME NEW p \in 1..Loss
      PROVE  /\ grad'[r][p].from = IF done'[r] >= Base(step[r]) + Order(p) THEN Mean(step[r] + 1).from
                                   ELSE IF Produced(r, p)' THEN Local(r).from ELSE {}
             /\ grad'[r][p].div = IF Divided(r, p)' THEN Cardinality(Ranks) ELSE 0
  <2>1. (Produced(r, p)' <=> Produced(r, p)) /\ (Divided(r, p)' <=> Divided(r, p))
    BY <1>2, Zenon DEF Produced, Divided, Loss
  <2>2. PICK o \in 1..Loss : o = Order(p)
    BY Orders, Zenon
  <2>3. CASE p = Order(j)
    <3>1. o = j
      BY <2>2, <2>3, Orders, Zenon
    <3>2. done'[r] >= Base(step[r]) + Order(p)
      <4>1. done'[r] >= Base(step[r]) + o
        BY <1>2, <1>3, <1>5, <3>1
      <4> QED
        BY <2>2, <4>1, SMTT(20)
    <3>3. ~(done[r] >= Base(step[r]) + Order(p))
      <4>1. ~(done[r] >= Base(step[r]) + o)
        BY <1>3, <1>5, <3>1
      <4> QED
        BY <2>2, <4>1, Zenon
    <3>4. ~Divided(r, p)
      BY <3>3, DividedDone, Zenon
    <3>5. PICK m : m = Mean(step[r] + 1).from
      BY Zenon
    <3>6. grad'[r][p] = [from |-> m, div |-> 0]
      BY <1>6, <2>3, <3>5, Zenon
    <3>7. grad'[r][p].from = m /\ grad'[r][p].div = 0
      BY <3>6
    <3> QED
      BY <2>1, <3>2, <3>4, <3>5, <3>7, Zenon
  <2>4. CASE p # Order(j)
    <3>1. o # j
      BY <2>2, <2>4, Orders, Zenon
    <3>2. done'[r] >= Base(step[r]) + Order(p) <=> done[r] >= Base(step[r]) + Order(p)
      <4>1. done'[r] >= Base(step[r]) + o <=> done[r] >= Base(step[r]) + o
        BY <1>2, <1>3, <1>5, <3>1
      <4> QED
        BY <2>2, <4>1, Zenon
    <3>3. /\ grad[r][p].from = IF done[r] >= Base(step[r]) + Order(p) THEN Mean(step[r] + 1).from
                               ELSE IF Produced(r, p) THEN Local(r).from ELSE {}
          /\ grad[r][p].div = IF Divided(r, p) THEN Cardinality(Ranks) ELSE 0
      BY Zenon DEF Grad
    <3>4. grad'[r][p] = grad[r][p]
      BY <1>6, <2>4, Zenon
    <3> QED
      BY <2>1, <3>2, <3>3, <3>4, Zenon
  <2> QED
    BY <2>3, <2>4, Zenon
<1> QED
  BY <1>2, <1>7, GradSuffices, Zenon

LEMMA GradNext ==
  ASSUME TypeOK, PlaceInv, LaunchInv, GradInv, IssuedInv, [Next]_vars
  PROVE  GradInv'
<1> SUFFICES ASSUME NEW q \in Ranks PROVE Grad(q)'
  BY Zenon DEF GradInv
<1>1. Place(q) /\ Grad(q) /\ rpc \in [Ranks -> Places]
  BY Zenon DEF PlaceInv, GradInv, TypeOK
<1>2. ASSUME RankStep(q) PROVE Grad(q)'
  <2>1. CASE Training(q) /\ ~OptimizerStep(q)
    BY <1>1, <2>1, GradForward, GradBackward, GradReduced, Zenon DEF Training
  <2>2. CASE Complete(q)
    BY <1>1, <2>2, GradComplete, Zenon
  <2>3. CASE ~(Training(q) /\ ~OptimizerStep(q)) /\ ~Complete(q)
    <3>1. rpc'[q] \notin Stepping \ {"forward"}
      BY <1>1, <1>2, <2>3, Zenon DEF RankStep, StartCollector, InitProcessGroup, InitTimeout, StartBackend,
         SpawnDevice, WaitForConnections, OptimizerStep, DispatchFails, CollectiveFails, WriteResult,
         BarrierDone, DestroyGroup, TerminateFleet, StopBackend, WorkerBoundary, Raise, Goto, Stepping
    <3> QED
      BY <3>1, Zenon DEF Grad
  <2> QED
    BY <2>1, <2>2, <2>3, Zenon
<1>3. ASSUME NEW r \in Ranks, RankStep(r), q # r PROVE Grad(q)'
  BY <1>1, <1>3, RankFrame, GradFrame, Zenon DEF Same, env
<1>4. CASE Launcher \/ Interrupt \/ UNCHANGED vars
  <2>1. /\ SameTraining(q) /\ UNCHANGED overlap
        /\ rpc'[q] = rpc[q] \/ (rpc[q] = "none" /\ rpc'[q] = "start") \/ rpc'[q] = "exited"
    BY <1>4, LaunchFrame, Zenon DEF env
  <2>2. CASE rpc'[q] = rpc[q]
    BY <1>1, <2>1, <2>2, GradFrame, SMTT(20)
  <2>3. CASE rpc'[q] \in {"start", "exited"}
    BY <2>3, Zenon DEF Grad, Stepping
  <2> QED
    BY <2>1, <2>2, <2>3, Zenon
<1> QED
  BY <1>2, <1>3, <1>4, Zenon DEF Next, RankStep

LEMMA AppliedNext ==
  ASSUME TypeOK, PlaceInv, LaunchInv, GradInv, GradientIsGlobalMean, [Next]_vars
  PROVE  GradientIsGlobalMean'
<1> USE DEF env, launch, life, train
<1> SUFFICES ASSUME NEW q \in Ranks PROVE Applied(q)'
  BY Zenon DEF GradientIsGlobalMean, Applied, Mean
<1>1. Applied(q) /\ Place(q) /\ Grad(q)
  BY Zenon DEF PlaceInv, GradInv, GradientIsGlobalMean, Applied
<1>2. applied'[q] = applied[q] => Applied(q)'
  BY <1>1, Zenon DEF Applied, Mean
<1>3. CASE OptimizerStep(q)
  <2> DEFINE g == [p \in 1..Params |-> grad[q][p]]
  <2>1. /\ applied \in [Ranks -> Seq([1..Params -> Gradients])] /\ Len(applied[q]) = step[q]
        /\ grad[q] \in [1..Loss -> Gradients] /\ applied[q] \in Seq([1..Params -> Gradients])
    BY Zenon DEF TypeOK
  <2>2. rpc[q] = "optimizer" /\ applied'[q] = Append(applied[q], g)
    BY <1>3, <2>1, Zenon DEF OptimizerStep
  <2>3. step[q] \in Nat /\ Params \in Nat /\ Loss = Params + 1
    BY TrainFacts, Zenon
  <2>4. ASSUME NEW p \in 1..Params PROVE grad[q][p] = Mean(step[q] + 1)
    <3>1. p \in 1..Loss
      BY <2>3
    <3>2. Divided(q, p)
      BY <2>2, Zenon DEF Divided
    <3>3. done[q] >= Base(step[q]) + Order(p)
      BY <1>1, <3>1, <3>2, DividedDone, Zenon
    <3>4. rpc[q] \in Stepping \ {"forward"}
      BY <2>2, Zenon DEF Stepping
    <3>5. grad[q][p].from = Mean(step[q] + 1).from /\ grad[q][p].div = Cardinality(Ranks)
      BY <1>1, <3>1, <3>2, <3>3, <3>4, Zenon DEF Grad
    <3>6. grad[q][p] \in Gradients
      BY <2>1, <3>1, Zenon
    <3> QED
      BY <3>5, <3>6, Zenon DEF Gradients, Mean
  <2>5. g = [p \in 1..Params |-> Mean(step[q] + 1)]
    BY <2>4, Zenon
  <2>6. g \in [1..Params -> Gradients]
    BY <2>1, <2>3
  <2> HIDE DEF g
  <2>7. /\ Len(applied'[q]) = Len(applied[q]) + 1 /\ applied'[q][Len(applied[q]) + 1] = g
        /\ \A s \in 1..Len(applied[q]) : applied'[q][s] = applied[q][s]
        /\ DOMAIN applied[q] = 1..Len(applied[q])
    BY <2>1, <2>2, <2>6
  <2>8. DOMAIN applied'[q] = 1..(Len(applied[q]) + 1)
    <3>1. applied'[q] \in Seq([1..Params -> Gradients])
      BY <2>1, <2>2, <2>6
    <3> QED
      BY <2>7, <3>1
  <2>9. ASSUME NEW s \in DOMAIN applied'[q] PROVE applied'[q][s] = [p \in 1..Params |-> Mean(s)]
    <3>1. CASE s \in 1..Len(applied[q])
      BY <1>1, <2>7, <3>1, Zenon DEF Applied
    <3>2. CASE s \notin 1..Len(applied[q])
      <4>1. s = Len(applied[q]) + 1 /\ s = step[q] + 1
        BY <2>1, <2>3, <2>8, <3>2
      <4> QED
        BY <2>5, <2>7, <4>1, Zenon
    <3> QED
      BY <3>1, <3>2, Zenon
  <2> QED
    BY <2>9, Zenon DEF Applied, Mean
<1>4. CASE RankStep(q) /\ ~OptimizerStep(q)
  <2>1. UNCHANGED applied
    BY <1>4, Zenon DEF RankStep, StartCollector, InitProcessGroup, InitTimeout, StartBackend, SpawnDevice,
       WaitForConnections, Training, Forward, Backward, FinishAsync, ReduceBlocking, ReducedBlocking,
       ReduceLoss, ReducedLoss, DispatchFails, Complete, CollectiveFails,
       WriteResult, BarrierDone, DestroyGroup, TerminateFleet, StopBackend, WorkerBoundary
  <2> QED
    BY <1>2, <2>1, Zenon
<1>5. ASSUME NEW r \in Ranks, RankStep(r), q # r PROVE Applied(q)'
  BY <1>2, <1>5, RankFrame, Zenon DEF SameTraining
<1>6. CASE Launcher \/ Interrupt \/ UNCHANGED vars
  BY <1>2, <1>6, LaunchFrame, Zenon DEF SameTraining
<1> QED
  BY <1>3, <1>4, <1>5, <1>6, Zenon DEF Next, RankStep

(***************************************************************************)
(* The theorems.                                                           *)
(***************************************************************************)
RunInv ==
  /\ TypeOK /\ MemberInv /\ ExitInv /\ LaunchInv
  /\ PlaceInv /\ IssuedInv /\ GradInv /\ GradientIsGlobalMean

LEMMA RunInit == Init => RunInv
<1> SUFFICES ASSUME Init PROVE RunInv
  BY Zenon
<1>1. TypeOK
  BY InitType, Zenon
<1>2. /\ \A r \in Ranks : /\ rpc[r] = "none" /\ raised[r] = FALSE /\ status[r] = 0
                          /\ step[r] = 0 /\ done[r] = 0 /\ issued[r] = <<>> /\ applied[r] = <<>>
      /\ lpc = "spawn" /\ global = FALSE
  BY Zenon DEF Init
<1>3. ASSUME NEW r \in Ranks PROVE Member(r) /\ Exits(r) /\ Grad(r)
  <2>1. /\ rpc[r] \notin Leaving \cup {"exited"} /\ rpc[r] \notin Stepping \cup {"connect", "write"}
        /\ rpc[r] \notin {"init", "backend", "spawn", "barrier", "stop", "boundary"} /\ rpc[r] # "write"
    BY <1>2, Zenon DEF Leaving, Stepping
  <2>2. Member(r) /\ Grad(r)
    BY <2>1, Zenon DEF Member, Grad
  <2>3. Exits(r)
    BY <1>2, <2>1, Zenon DEF Exits
  <2> QED
    BY <2>2, <2>3, Zenon
<1>4. ASSUME NEW r \in Ranks PROVE Place(r) /\ Issued(r)
  <2>1. Len(issued[r]) = 0
    BY <1>2, SMTT(20)
  <2>2. Place(r)
    BY <1>2, <2>1, Zenon DEF Place, PlaceAt, Starting, Stepping
  <2>3. \A s \in Nat : Base(s) \in Nat /\ Loss \in Nat /\ Steps \in Nat
    BY Bases, SizesAssumption, Zenon
  <2>4. Issued(r)
    BY <2>1, <2>3 DEF Issued
  <2> QED
    BY <2>2, <2>4, Zenon
<1>5. LaunchInv
  BY <1>2, Zenon DEF LaunchInv
<1>6. GradientIsGlobalMean
  BY <1>2 DEF GradientIsGlobalMean
<1> QED
  BY <1>1, <1>3, <1>4, <1>5, <1>6, Zenon DEF RunInv, MemberInv, ExitInv, PlaceInv, IssuedInv, GradInv

LEMMA RunInvariant == Spec => []RunInv
<1>1. RunInv /\ [Next]_vars => RunInv'
  BY TypeNext, MemberNext, ExitNext, LaunchNext, PlaceNext, IssuedNext, GradNext, AppliedNext, Zenon
     DEF RunInv
<1> QED
  BY RunInit, <1>1, PTL DEF Spec

(* The launcher, the rank processes and their training keep their types,    *)
(* whatever raises, times out or is interrupted.                            *)
THEOREM TypeCorrect == Spec => []TypeOK
  BY RunInvariant, PTL DEF RunInv

(* With any number of ranks and parameters, blocking or overlapped          *)
(* (_reduce_gradients_blocking, _finish_async_gradient_reduction), every    *)
(* optimizer step uses the gradients of that step summed over all ranks and *)
(* divided once, also while other ranks are ahead, behind or dying.         *)
THEOREM ReplicasStayEqual == Spec => []GradientIsGlobalMean
  BY RunInvariant, PTL DEF RunInv

(* global.json is written (_execute_run, build_global_result) only when     *)
(* every rank trained to the end, passed and exited with status 0 in this   *)
(* run: a stale rank-<r>.json of an earlier run is never what was loaded.   *)
THEOREM GlobalIsEarned == Spec => []GlobalFromPassedRanks
<1>1. RunInv => GlobalFromPassedRanks
  <2> SUFFICES ASSUME RunInv, global, NEW r \in Ranks
               PROVE  /\ file[r] = [kind |-> "result", passed |-> TRUE]
                      /\ status[r] = 0 /\ step[r] = Steps
    BY Zenon DEF GlobalFromPassedRanks
  <2>1. rpc[r] = "exited" /\ status[r] = 0
    BY Zenon DEF RunInv, LaunchInv
  <2>2. Trained(r) /\ Passed(r)
    BY <2>1, Zenon DEF RunInv, ExitInv, Exits
  <2> QED
    BY <2>1, <2>2, Zenon DEF Trained
<1> QED
  BY <1>1, RunInvariant, PTL

(* When _execute_run returns or raises (wait_for_rank_processes,            *)
(* cleanup_rank_processes), no rank and no device process of the run is     *)
(* alive, however many ranks there are and wherever they were.              *)
THEOREM RunLeavesNothing == Spec => []NothingLeft
<1>1. RunInv => NothingLeft
  <2> SUFFICES ASSUME RunInv, lpc \in {"returned", "raised"}, NEW r \in Ranks
               PROVE  ~Alive(r) /\ devs[r] = 0
    BY Zenon DEF NothingLeft
  <2>1. CASE lpc = "raised"
    BY <2>1, Zenon DEF RunInv, LaunchInv
  <2>2. CASE lpc = "returned"
    <3>1. rpc[r] = "exited" /\ status[r] = 0
      BY <2>2, Zenon DEF RunInv, LaunchInv
    <3>2. devs[r] = 0
      BY <3>1, Zenon DEF RunInv, ExitInv, Exits
    <3> QED
      BY <3>1, <3>2, Zenon DEF Alive
  <2> QED
    BY <2>1, <2>2, Zenon
<1> QED
  BY <1>1, RunInvariant, PTL
==============================================================================
