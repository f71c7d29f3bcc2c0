----------------------------- MODULE DeviceClient -----------------------------
(* The device's side of a product: a block arrives with its row and column   *)
(* tensors or without one it should have, the tensors are kept in a cache of *)
(* bounded bytes, blocks that lack one wait, the others go to a worker pool  *)
(* as pointers into the cache, and the results are sent back.  The loop's    *)
(* thread handles messages; pool threads multiply meanwhile.                 *)
EXTENDS Integers, FiniteSets, SequencesExt

CONSTANTS
  Tensors,         \* keys of the cache
  Size,            \* [Tensors -> Nat], what an entry counts for
  MaxBytes,        \* max_bytes_
  BlockKeys,       \* [row, col] of the blocks that can be sent
  MaxBlocks,       \* bound on the messages
  MaxFailures      \* bound on the allocations that fail

VARIABLES
  lru,                \* lru_: the cached keys, least recently used first
  puts,               \* how often a key was put: names its allocation
  parts,              \* the blocks received, by arrival
  cached_partitions,  \* cached_partitions_
  conn_open,
  failures

clientVars == <<lru, puts, parts, cached_partitions, conn_open, failures>>

Sides == {"row", "col"}

(* A pointer of a block: to an allocation of the cache, to the bytes of the   *)
(* message (drained once it is handled), or none.  `since' has the tensors   *)
(* used since its own was last.                                               *)
NoData == [g |-> -1, since |-> {}]
IntoMessage(since) == [g |-> 0, since |-> since]
IntoCache(g) == [g |-> g, since |-> {}]

ClientInit ==
  /\ lru = <<>> /\ puts = [k \in Tensors |-> 0]
  /\ parts = <<>> /\ cached_partitions = <<>>
  /\ conn_open = TRUE /\ failures = 0

Bytes(S) == MapThenSumSet(LAMBDA k : Size[k], S)

(* The tensors used after k, which is in l.                                   *)
UsedAfter(l, k) ==
  IF ~Contains(l, k) THEN {}
  ELSE {l[i] : i \in {j \in DOMAIN l : \E h \in 1..(j - 1) : l[h] = k}}

(* Every pointer is now one use of k older.                                   *)
Aged(ps, k) ==
  [i \in DOMAIN ps |->
     [ps[i] EXCEPT !.mat = [s \in Sides |-> [ps[i].mat[s] EXCEPT !.since = @ \cup {k}]]]]

(* FixSizeLRUCache::Put of a key that is not there: drops the oldest until    *)
(* the new one fits or nothing is left.                                       *)
Put(l, k) ==
  LET fits(n) == Bytes(ToSet(SubSeq(l, n + 1, Len(l)))) + Size[k] <= MaxBytes
      n == CHOOSE m \in 0..Len(l) : /\ fits(m) \/ m = Len(l)
                                    /\ \A j \in 0..(m - 1) : ~fits(j)
  IN Append(SubSeq(l, n + 1, Len(l)), k)

(* c is [lru, puts, parts] in the middle of a handler.                        *)
CacheTensor(c, k, allocated) ==
  IF Contains(c.lru, k) \/ ~allocated THEN c
  ELSE [lru |-> Put(c.lru, k), puts |-> [c.puts EXCEPT ![k] = @ + 1], parts |-> Aged(c.parts, k)]

(* Mutant: Get leaves the order of the list alone.                            *)
FillSideUnmoved(c, i, s) ==
  LET k == c.parts[i].key[s]
  IN IF ~Contains(c.lru, k) THEN c
     ELSE [c EXCEPT !.parts = [Aged(c.parts, k) EXCEPT ![i].mat[s] = IntoCache(c.puts[k])]]

(* One side of FillPartition: Get moves the key to the back.                  *)
FillSide(c, i, s) ==
  LET k == c.parts[i].key[s]
  IN IF ~Contains(c.lru, k) THEN c
     ELSE [c EXCEPT !.lru = Append(Remove(@, k), k),
                    !.parts = [Aged(c.parts, k) EXCEPT ![i].mat[s] = IntoCache(c.puts[k])]]

FillPartition(c, i) == FillSide(FillSide(c, i, "row"), i, "col")

(* The saved blocks that have both tensors now.                               *)
Ready(ps) == {i \in ToSet(cached_partitions) : \A s \in Sides : ps[i].mat[s].g >= 0}

(* Mutant: the handled blocks stay in the list.                               *)
EraseNone(ps, ready) == cached_partitions

(* The end of CheckCachedPartition: erased by key.                            *)
EraseHandled(ps, ready) ==
  SelectSeq(cached_partitions, LAMBDA i : \A j \in ready : ps[i].key # ps[j].key)

(* A message with the tensors of `sent'; the copies of `failed' cannot be     *)
(* allocated, nor the results of the blocks `dropped', which are lost.        *)
HandleMatMul(key, sent, failed, dropped) ==
  LET n == Len(parts) + 1
      arrived == [key |-> key, st |-> "queued", oom |-> failed # {},
                  mat |-> [s \in Sides |-> IF s \in sent THEN IntoMessage(UsedAfter(lru, key[s])) ELSE NoData]]
      c0 == [lru |-> lru, puts |-> puts, parts |-> Append(parts, arrived)]
      c1 == IF "row" \in sent THEN CacheTensor(c0, key.row, "row" \notin failed) ELSE c0
      c2 == IF "col" \in sent THEN CacheTensor(c1, key.col, "col" \notin failed) ELSE c1
      c3 == FoldLeft(FillPartition, FillPartition(c2, n), cached_partitions)
      ready == Ready(c3.parts)
      missing == \E s \in Sides \ sent : ~Contains(c2.lru, key[s])
      submitted == IF missing THEN ready ELSE ready \cup {n}
      kept == EraseHandled(c3.parts, ready)
  IN /\ conn_open /\ n <= MaxBlocks
     /\ failed \subseteq sent /\ dropped \subseteq submitted
     /\ failures + Cardinality(failed) + Cardinality(dropped) <= MaxFailures
     /\ failures' = failures + Cardinality(failed) + Cardinality(dropped)
     /\ lru' = c3.lru /\ puts' = c3.puts
     /\ cached_partitions' = IF missing THEN Append(kept, n) ELSE kept
     /\ parts' = [i \in 1..n |->
          IF i = n /\ missing
          THEN [c3.parts[i] EXCEPT !.st = "saved", !.mat = [s \in Sides |-> NoData]]
          ELSE IF i \in submitted THEN [c3.parts[i] EXCEPT !.st = IF i \in dropped THEN "dropped" ELSE "queued"]
          ELSE c3.parts[i]]
     /\ UNCHANGED conn_open

(* A pool thread has multiplied; until then it reads through the pointers.    *)
ComputeDone(i) ==
  /\ parts[i].st = "queued"
  /\ parts' = [parts EXCEPT ![i].st = "done", ![i].mat = [s \in Sides |-> NoData]]
  /\ UNCHANGED <<lru, puts, cached_partitions, conn_open, failures>>

(* The callback runs in the loop and answers, unless the connection is gone.  *)
OnComputeComplete(i) ==
  /\ parts[i].st = "done"
  /\ parts' = [parts EXCEPT ![i].st = IF conn_open THEN "answered" ELSE "unsent"]
  /\ UNCHANGED <<lru, puts, cached_partitions, conn_open, failures>>

ConnectionClosedCb ==
  /\ conn_open /\ conn_open' = FALSE
  /\ UNCHANGED <<lru, puts, parts, cached_partitions, failures>>

(* A block comes once on a connection.                                        *)
ClientNext ==
  \/ \E key \in BlockKeys \ {parts[i].key : i \in DOMAIN parts}, sent \in SUBSET Sides :
       \E failed \in SUBSET sent, dropped \in SUBSET (DOMAIN parts \cup {Len(parts) + 1}) :
         HandleMatMul(key, sent, failed, dropped)
  \/ \E i \in DOMAIN parts : ComputeDone(i) \/ OnComputeComplete(i)
  \/ ConnectionClosedCb

-------------------------------------------------------------------------------
Alive(p, k) == p.g > 0 /\ Contains(lru, k) /\ puts[k] = p.g

(* The pool multiplies with memory that is still the tensor's, as long as the *)
(* tensors used since the block's own fit into the cache with it: a pointer   *)
(* is taken in FillPartition, kept over any number of messages in a saved or  *)
(* queued block, and freed by the deleter without a look at who holds it.     *)
(* The exception is a copy that could not be allocated (CacheTensor).         *)
ReadsAliveWithinBudget ==
  \A i \in DOMAIN parts : parts[i].st = "queued" =>
    \A s \in Sides :
      LET k == parts[i].key[s]
          p == parts[i].mat[s]
      IN Alive(p, k) \/ parts[i].oom \/ Bytes(p.since \cup {k}) > MaxBytes

(* A block that waits, waits for a tensor that is not there; it is in the     *)
(* list once, the list has nothing else, and no block is lost while           *)
(* allocations succeed and the connection is open (CheckCachedPartition,      *)
(* SavePartition, OnComputeComplete).                                         *)
SavedForAReason ==
  /\ \A i \in DOMAIN parts :
       /\ parts[i].st = "saved" <=> Contains(cached_partitions, i)
       /\ parts[i].st = "saved" => \E s \in Sides : parts[i].mat[s].g = -1 /\ ~Contains(lru, parts[i].key[s])
       /\ parts[i].st = "dropped" => failures > 0
       /\ parts[i].st = "unsent" => ~conn_open
  /\ Cardinality(ToSet(cached_partitions)) = Len(cached_partitions)
===============================================================================
