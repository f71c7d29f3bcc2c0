------------------------- MODULE DispatchSaveProofs --------------------------
(***************************************************************************)
(* Proofs about two parts that share no state:                             *)
(* - OperationId, DispatchGate and the two together in DispatchEntry, for  *)
(*   any number of callers and devices, any barrier, any bound of the      *)
(*   queue and any capacity;                                               *)
(* - CheckpointSave, for any checkpoints: a map on disk has its ids in the *)
(*   index, and what was saved into a directory without a usable index     *)
(*   reads back.                                                           *)
(***************************************************************************)
EXTENDS DispatchEntry, CheckpointSave, TLAPS

(***************************************************************************)
(* The save command.                                                       *)
(***************************************************************************)
(* e is the first entry of checkpoint c that has this name.                    *)
First(c, e, name) ==
  /\ c \in DOMAIN Checkpoints /\ e \in DOMAIN Checkpoints[c] /\ Checkpoints[c][e].name = name
  /\ \A d \in 1..(e - 1) : Checkpoints[c][d].name # name

(* Blocks lo..n of the tensor of entry e are in the file, from the offset on.  *)
Written(offset, e, lo, n) ==
  \A b \in lo..n : /\ offset + b - 1 \in DOMAIN param_file
                   /\ param_file[offset + b - 1] = <<ckpt, e, b>>

(* Tensor i of the index is the one of entry e, and is in the file.            *)
Reads(idx, i, e) ==
  /\ i \in DOMAIN idx /\ idx[i].offset \in Nat /\ idx[i].size = Checkpoints[ckpt][e].bytes
  /\ Written(idx[i].offset, e, 1, Blocks(idx[i].size))

(* Every name of the map reads as the first tensor that has it.                *)
Saved(map, idx) ==
  \A n \in DOMAIN map : \E e \in DOMAIN Checkpoints[ckpt] : First(ckpt, e, n) /\ Reads(idx, map[n], e)

(* The tensor being stored.                                                    *)
Storing == saving \in {"write", "index"}
Free == IF Storing THEN tensor_index[param_id].offset ELSE file_offset

(* The names passed so far are those of the map, and the map's ids are below   *)
(* the next one and in the index; the index on disk is the handle's whenever   *)
(* the loop is between two tensors that follow a first one.                    *)
LoopInv ==
  /\ ckpt \in DOMAIN Checkpoints /\ entry \in 1..(Len(Checkpoints[ckpt]) + 1)
  /\ param_id \in Nat
  /\ \A n \in DOMAIN param_meta_map :
       /\ param_meta_map[n] \in 0..(param_id - 1)
       /\ param_meta_map[n] \in DOMAIN tensor_index
       /\ saving \in {"loop", "map"} => index_file = Whole(tensor_index)
  /\ \A d \in 1..(entry - 1) : Checkpoints[ckpt][d].name \in DOMAIN param_meta_map
  /\ Storing => /\ entry <= Len(Checkpoints[ckpt]) /\ Param.name \notin DOMAIN param_meta_map
                /\ param_id \in DOMAIN tensor_index
  /\ map_file.state = "whole" => DOMAIN map_file.of = {}

(* The same run, when it found no tensor in the index: the tensors lie one     *)
(* after the other, the last one as far as it is written.                      *)
FreshInv ==
  /\ file_offset \in Nat /\ Free \in Nat
  /\ DOMAIN tensor_index \subseteq 0..(IF Storing THEN param_id ELSE param_id - 1)
  /\ Saved(param_meta_map, tensor_index)
  /\ \A n \in DOMAIN param_meta_map :
       tensor_index[param_meta_map[n]].offset + Blocks(tensor_index[param_meta_map[n]].size) <= Free
  /\ Storing => LET t == tensor_index[param_id] IN
       /\ t.size = Param.bytes /\ t.offset + Blocks(t.size) = file_offset
       /\ left \in 0..Blocks(t.size) /\ Written(t.offset, entry, left + 1, Blocks(t.size))
  /\ saving = "index" => left = 0

(* What a whole map on disk says.                                              *)
MapInv ==
  /\ IndexCoversMap
  /\ map_file.state = "whole" /\ opened = {} => Saved(map_file.of, index_file.of)

(* The inductive invariant.                                                    *)
SaveInv ==
  /\ saving \in {"down", "loop", "write", "index", "map"}
  /\ saving # "down" => LoopInv /\ (opened = {} => FreshInv)
  /\ MapInv

-------------------------------------------------------------------------------
(* A tensor takes a natural number of blocks.                                  *)
LEMMA BlocksNat ==
  ASSUME NEW n \in Nat PROVE Blocks(n) \in Nat
  BY SaveAssumption DEF Blocks

(* A checkpoint is a sequence of names and sizes.                              *)
LEMMA EntryType ==
  ASSUME NEW c \in DOMAIN Checkpoints
  PROVE  /\ DOMAIN Checkpoints[c] = 1..Len(Checkpoints[c]) /\ Len(Checkpoints[c]) \in Nat
         /\ \A e \in DOMAIN Checkpoints[c] : Checkpoints[c][e].bytes \in Nat
<1>1. PICK R : R = [name : STRING, bytes : Nat]
  BY Zenon
<1>2. Checkpoints \in Seq(Seq(R))
  BY <1>1, SaveAssumption, Zenon
<1>3. Checkpoints[c] \in Seq(R)
  BY <1>2
<1>4. ASSUME NEW s \in Seq(R)
      PROVE  DOMAIN s = 1..Len(s) /\ Len(s) \in Nat /\ \A e \in DOMAIN s : s[e] \in R
  OBVIOUS
<1>5. ASSUME NEW q \in R PROVE q.bytes \in Nat
  BY <1>1, <1>5, Zenon
<1> QED
  BY <1>3, <1>4, <1>5, Zenon

(* A name has one first entry.                                                 *)
LEMMA FirstUnique ==
  ASSUME NEW c, NEW e, NEW d, NEW n, First(c, e, n), First(c, d, n)
  PROVE  e = d
<1>1. e \in Nat \ {0} /\ d \in Nat \ {0}
  BY EntryType DEF First
<1>2. ~(e < d) /\ ~(d < e)
  BY <1>1 DEF First
<1> QED
  BY <1>1, <1>2

(* What With gives.                                                            *)
LEMMA WithIs ==
  ASSUME NEW f, NEW x, NEW y
  PROVE  /\ DOMAIN With(f, x, y) = DOMAIN f \cup {x}
         /\ With(f, x, y)[x] = y
         /\ \A z \in DOMAIN f : z # x => With(f, x, y)[z] = f[z]
  BY Zenon DEF With

(* A whole file is not another one.                                            *)
LEMMA WholeIs ==
  ASSUME NEW f
  PROVE  Whole(f).state = "whole" /\ Whole(f).of = f
  BY Zenon DEF Whole

(* Nothing is on disk at first.                                                *)
LEMMA SaveStarts == SaveInit => SaveInv
  BY DEF SaveInit, SaveInv, MapInv, IndexCoversMap, Absent

(* What can be read stays so while the file and the checkpoint do.             *)
LEMMA SavedSame ==
  ASSUME NEW m, NEW i, Saved(m, i), UNCHANGED <<param_file, ckpt>>
  PROVE  Saved(m, i)'
  BY Zenon DEF Saved, Reads, Written

(* A tensor that can be read has a place and a size.                           *)
LEMMA ReadsType ==
  ASSUME ckpt \in DOMAIN Checkpoints, NEW e \in DOMAIN Checkpoints[ckpt], NEW idx, NEW i, Reads(idx, i, e)
  PROVE  idx[i].offset \in Nat /\ Blocks(idx[i].size) \in Nat
<1>1. Checkpoints[ckpt][e].bytes \in Nat
  BY EntryType, Zenon
<1> QED
  BY <1>1, BlocksNat, Zenon DEF Reads

(* What a step leaves of a whole map: nothing of it, or all that it says.      *)
LEMMA MapKept ==
  ASSUME MapInv, map_file' = map_file,
         (map_file.state = "whole" => DOMAIN map_file.of = {})
         \/ UNCHANGED <<index_file, param_file, ckpt, opened>>
  PROVE  MapInv'
<1>1. CASE map_file.state = "whole" => DOMAIN map_file.of = {}
  BY <1>1, Zenon DEF MapInv, IndexCoversMap, Saved
<1>2. CASE UNCHANGED <<index_file, param_file, ckpt, opened>>
  <2>1. PICK m, i : m = map_file.of /\ i = index_file.of
    BY Zenon
  <2>2. Saved(m, i) => Saved(m, i)'
    BY <1>2, SavedSame, Zenon
  <2>3. Saved(map_file.of, index_file.of) => Saved(map_file.of, index_file.of)'
    BY <1>2, <2>1, <2>2, Zenon
  <2> QED
    BY <1>2, <2>3, Zenon DEF MapInv, IndexCoversMap
<1> QED
  BY <1>1, <1>2, Zenon

(* save_model starts a run: the map is empty, or gone.                         *)
LEMMA StartNext ==
  ASSUME SaveInv, NEW c \in DOMAIN Checkpoints, NEW force \in BOOLEAN, save_model(c, force)
  PROVE  SaveInv'
<1>1. map_file'.state = "whole" => map_file' = map_file /\ DOMAIN map_file.of = {}
  <2>1. CASE force
    BY <2>1 DEF save_model, RemoveOutput, Absent
  <2>2. CASE ~force
    BY <2>2, Zenon DEF save_model, RemoveOutput, SaveInv, MapInv, IndexCoversMap
  <2> QED
    BY <2>1, <2>2, Zenon
<1>2. MapInv'
  BY <1>1, Zenon DEF MapInv, IndexCoversMap, Saved
<1>3. DOMAIN param_meta_map' = {} /\ param_id' = 0
  BY Zenon DEF save_model, Empty
<1>4. saving' = "loop" /\ ckpt' = c /\ entry' = 1 /\ file_offset' = 0 /\ opened' = DOMAIN tensor_index'
  BY Zenon DEF save_model
<1>5. LoopInv'
  <2>1. Len(Checkpoints[c]) \in Nat
    BY EntryType, Zenon
  <2> QED
    BY <1>1, <1>3, <1>4, <2>1 DEF LoopInv, Storing
<1>6. opened' = {} => FreshInv'
  BY <1>3, <1>4, Zenon DEF FreshInv, Storing, Free, Saved
<1> QED
  BY <1>2, <1>4, <1>5, <1>6, Zenon DEF SaveInv

(* A run that ends, or dies, leaves the files.                                 *)
LEMMA EndNext ==
  ASSUME SaveInv, SavedModelExists \/ SizeMismatch \/ Die
  PROVE  SaveInv'
<1>1. /\ UNCHANGED <<param_file, index_file, map_file, ckpt, entry, tensor_index, file_offset,
                     param_meta_map, param_id, left, opened>>
      /\ saving' = "down"
  BY Zenon DEF SavedModelExists, SizeMismatch, Die, InLoop
<1>2. MapInv'
  BY <1>1, MapKept, Zenon DEF SaveInv
<1> QED
  BY <1>1, <1>2, Zenon DEF SaveInv

(* What is saved stays while its blocks and its part of the index do.          *)
LEMMA SavedKept ==
  ASSUME Saved(param_meta_map, tensor_index), UNCHANGED <<ckpt, param_file, param_meta_map>>,
         \A i \in DOMAIN tensor_index : i \in DOMAIN tensor_index' /\ tensor_index'[i] = tensor_index[i]
  PROVE  Saved(param_meta_map, tensor_index)'
<1> SUFFICES ASSUME NEW n \in DOMAIN param_meta_map
             PROVE  \E e \in DOMAIN Checkpoints[ckpt] : First(ckpt, e, n) /\ Reads(tensor_index, param_meta_map[n], e)'
  BY Zenon DEF Saved, First
<1>1. PICK e \in DOMAIN Checkpoints[ckpt] : First(ckpt, e, n) /\ Reads(tensor_index, param_meta_map[n], e)
  BY Zenon DEF Saved
<1>2. Reads(tensor_index, param_meta_map[n], e)'
  BY <1>1, Zenon DEF Reads, Written
<1> QED
  BY <1>1, <1>2, Zenon

(* A name that is known is passed over.                                        *)
LEMMA SkipNext ==
  ASSUME SaveInv, SkipKnown
  PROVE  SaveInv'
<1> USE DEF SkipKnown, InLoop
<1>1. LoopInv /\ saving = "loop" /\ saving' = "loop" /\ entry' = entry + 1
  BY Zenon DEF SaveInv
<1>2. MapInv'
  BY MapKept, Zenon DEF SaveInv
<1>3. Len(Checkpoints[ckpt]) \in Nat /\ entry \in Nat
  BY <1>1, EntryType DEF LoopInv
<1>4. LoopInv'
  BY <1>1, <1>3 DEF LoopInv, Storing, Param
<1>5. ASSUME opened = {} PROVE FreshInv'
  <2>1. FreshInv /\ ~Storing /\ ~Storing'
    BY <1>1, <1>5, Zenon DEF SaveInv, Storing
  <2>2. Saved(param_meta_map, tensor_index)'
    BY <2>1, SavedKept, Zenon DEF FreshInv
  <2> QED
    BY <1>1, <2>1, <2>2, Zenon DEF FreshInv, Free
<1> QED
  BY <1>1, <1>2, <1>4, <1>5, Zenon DEF SaveInv

(* StoreTensor takes the free blocks after the last tensor.                    *)
LEMMA StoreStep ==
  ASSUME SaveInv, StoreTensor
  PROVE  SaveInv'
<1>0. /\ LoopInv /\ saving = "loop" /\ saving' = "write" /\ ~Storing /\ Storing'
      /\ entry <= Len(Checkpoints[ckpt]) /\ Param.name \notin DOMAIN param_meta_map
      /\ UNCHANGED <<param_file, index_file, map_file, ckpt, entry, param_meta_map, param_id, opened>>
  BY Zenon DEF StoreTensor, InLoop, SaveInv, Storing
<1>1. MapInv'
  BY <1>0, MapKept, Zenon DEF SaveInv
<1>2. param_id \in Nat /\ Param' = Param /\ Param.bytes \in Nat /\ entry \in DOMAIN Checkpoints[ckpt]
  BY <1>0, EntryType DEF LoopInv, Param
<1>3. /\ DOMAIN tensor_index' = DOMAIN tensor_index \cup {param_id}
      /\ \A i \in DOMAIN tensor_index : tensor_index'[i] = tensor_index[i]
  <2>1. CASE param_id \in DOMAIN tensor_index
    BY <2>1, Zenon DEF StoreTensor
  <2>2. CASE param_id \notin DOMAIN tensor_index
    <3>1. PICK t : tensor_index' = With(tensor_index, param_id, t)
      BY <2>2, Zenon DEF StoreTensor
    <3> QED
      BY <2>2, <3>1, Zenon DEF With
  <2> QED
    BY <2>1, <2>2, Zenon
<1>4. LoopInv'
  BY <1>0, <1>2, <1>3, Zenon DEF LoopInv, Storing
<1>5. ASSUME opened = {} PROVE FreshInv'
  <2>1. FreshInv /\ Free = file_offset /\ param_id \notin DOMAIN tensor_index
    BY <1>0, <1>2, <1>5 DEF SaveInv, FreshInv, Free
  <2>2. /\ tensor_index'[param_id] = [offset |-> file_offset, size |-> Param.bytes]
        /\ file_offset' = file_offset + Blocks(Param.bytes) /\ left' = Blocks(Param.bytes)
    <3>1. tensor_index' = With(tensor_index, param_id, [offset |-> file_offset, size |-> Param.bytes])
      BY <2>1, Zenon DEF StoreTensor
    <3>2. tensor_index'[param_id] = [offset |-> file_offset, size |-> Param.bytes]
      BY <3>1, Zenon DEF With
    <3> QED
      BY <2>1, <3>2, Zenon DEF StoreTensor, NextOffset
  <2>3. Blocks(Param.bytes) \in Nat /\ file_offset \in Nat
    BY <1>2, <2>1, BlocksNat, Zenon DEF FreshInv
  <2>4. Free' = file_offset
    BY <1>0, <1>2, <2>2 DEF Free
  <2>5. Saved(param_meta_map, tensor_index)'
    BY <1>0, <1>3, <2>1, SavedKept, Zenon DEF FreshInv
  <2>6. \A n \in DOMAIN param_meta_map :
          tensor_index'[param_meta_map[n]].offset + Blocks(tensor_index'[param_meta_map[n]].size) <= file_offset
    BY <1>0, <1>3, <2>1, Zenon DEF FreshInv, LoopInv
  <2>7. DOMAIN tensor_index' \subseteq 0..param_id
    BY <1>0, <1>2, <1>3, <2>1 DEF FreshInv
  <2>8. Written(tensor_index[param_id].offset, entry, left + 1, Blocks(tensor_index[param_id].size))'
    <3>1. Blocks(tensor_index'[param_id].size) = left' /\ left' \in Nat
      BY <2>2, <2>3
    <3>2. ASSUME NEW k \in Nat, NEW b \in (k + 1)..k PROVE FALSE
      OBVIOUS
    <3> QED
      BY <1>0, <3>1, <3>2, Zenon DEF Written
  <2> QED
    BY <1>0, <1>2, <2>2, <2>3, <2>4, <2>5, <2>6, <2>7, <2>8 DEF FreshInv
<1> QED
  BY <1>0, <1>1, <1>4, <1>5, Zenon DEF SaveInv

(* WriteBlock fills the free blocks from the back, and no other.               *)
LEMMA WriteNext ==
  ASSUME SaveInv, WriteBlock
  PROVE  SaveInv'
<1>0. /\ LoopInv /\ saving = "write" /\ saving' = "write" /\ Storing /\ Storing' /\ left > 0 /\ left' = left - 1
      /\ UNCHANGED <<index_file, map_file, ckpt, entry, tensor_index, file_offset, param_meta_map, param_id, opened>>
  BY Zenon DEF WriteBlock, SaveInv, Storing
<1>1. MapInv'
  BY <1>0, MapKept, Zenon DEF SaveInv, LoopInv
<1>2. Param' = Param /\ Free' = Free
  BY <1>0, Zenon DEF Param, Free
<1>3. LoopInv'
  BY <1>0, <1>2, Zenon DEF LoopInv
<1>4. ASSUME opened = {} PROVE FreshInv'
  <2>1. FreshInv
    BY <1>0, <1>4, Zenon DEF SaveInv
  <2>2. PICK o, m : o = tensor_index[param_id].offset /\ m = Blocks(tensor_index[param_id].size)
    BY Zenon
  <2>3. o \in Nat /\ m \in Nat /\ left \in 1..m /\ Written(o, entry, left + 1, m) /\ Free = o
    <3>1. Blocks(tensor_index[param_id].size) \in Nat
      <4>1. ckpt \in DOMAIN Checkpoints /\ entry \in 1..Len(Checkpoints[ckpt])
        BY <1>0 DEF LoopInv
      <4>2. Param.bytes \in Nat
        BY <4>1, EntryType, Zenon DEF Param
      <4> QED
        BY <1>0, <2>1, <4>2, BlocksNat, Zenon DEF FreshInv
    <3> QED
      BY <1>0, <2>1, <2>2, <3>1 DEF FreshInv, Free
  <2>4. /\ DOMAIN param_file' = DOMAIN param_file \cup {o + left - 1}
        /\ param_file'[o + left - 1] = <<ckpt, entry, left>>
        /\ \A z \in DOMAIN param_file : z # o + left - 1 => param_file'[z] = param_file[z]
    BY <2>2, Zenon DEF WriteBlock, With
  <2>5. ASSUME NEW b \in left..m
        PROVE  o + b - 1 \in DOMAIN param_file' /\ param_file'[o + b - 1] = <<ckpt, entry, b>>
    <3>1. CASE b = left
      BY <2>4, <3>1, Zenon
    <3>2. CASE b # left
      <4>1. b \in (left + 1)..m /\ o + b - 1 # o + left - 1
        BY <2>3, <3>2
      <4> QED
        BY <2>3, <2>4, <4>1, Zenon DEF Written
    <3> QED
      BY <3>1, <3>2, Zenon
  <2>6. ASSUME NEW n \in DOMAIN param_meta_map
        PROVE  \E e \in DOMAIN Checkpoints[ckpt] : First(ckpt, e, n) /\ Reads(tensor_index, param_meta_map[n], e)'
    <3>1. PICK e \in DOMAIN Checkpoints[ckpt] : First(ckpt, e, n) /\ Reads(tensor_index, param_meta_map[n], e)
      BY <2>1, Zenon DEF FreshInv, Saved
    <3>2. PICK t : t = tensor_index[param_meta_map[n]]
      BY Zenon
    <3>3. /\ t.offset \in Nat /\ Blocks(t.size) \in Nat /\ t.offset + Blocks(t.size) <= o
          /\ Written(t.offset, e, 1, Blocks(t.size))
      <4>1. Blocks(t.size) \in Nat
        BY <1>0, <3>1, <3>2, ReadsType, Zenon DEF LoopInv
      <4> QED
        BY <2>1, <2>3, <3>1, <3>2, <4>1, Zenon DEF Reads, FreshInv
    <3>4. ASSUME NEW b \in 1..Blocks(t.size)
          PROVE  t.offset + b - 1 \in DOMAIN param_file' /\ param_file'[t.offset + b - 1] = <<ckpt, e, b>>
      <4>1. t.offset + b - 1 # o + left - 1
        BY <2>3, <3>3
      <4> QED
        BY <2>4, <3>3, <4>1, Zenon DEF Written
    <3>5. Reads(tensor_index, param_meta_map[n], e)'
      BY <1>0, <3>1, <3>2, <3>4, Zenon DEF Reads, Written
    <3> QED
      BY <3>1, <3>5, Zenon
  <2>7. Saved(param_meta_map, tensor_index)'
    BY <1>0, <2>6, Zenon DEF Saved, First
  <2>8. Written(tensor_index[param_id].offset, entry, left + 1, Blocks(tensor_index[param_id].size))'
    <3>1. left' + 1 = left
      BY <1>0, <2>3
    <3> QED
      BY <1>0, <1>2, <2>2, <2>5, <3>1, Zenon DEF Written
  <2>9. left' \in 0..m
    BY <1>0, <2>3
  <2> QED
    BY <1>0, <1>2, <2>1, <2>2, <2>7, <2>8, <2>9, Zenon DEF FreshInv
<1> QED
  BY <1>0, <1>1, <1>3, <1>4, Zenon DEF SaveInv

(* TruncateIndex: the tensor is in the file, the index is being rewritten.     *)
LEMMA TruncateNext ==
  ASSUME SaveInv, TruncateIndex
  PROVE  SaveInv'
<1>0. /\ LoopInv /\ saving = "write" /\ saving' = "index" /\ Storing /\ Storing' /\ left = 0
      /\ UNCHANGED <<param_file, map_file, ckpt, entry, tensor_index, file_offset, param_meta_map, param_id, left, opened>>
  BY Zenon DEF TruncateIndex, SaveInv, Storing
<1>1. MapInv'
  BY <1>0, MapKept, Zenon DEF SaveInv, LoopInv
<1>2. Param' = Param /\ Free' = Free
  BY <1>0, Zenon DEF Param, Free
<1>3. LoopInv'
  BY <1>0, <1>2, Zenon DEF LoopInv
<1>4. ASSUME opened = {} PROVE FreshInv'
  <2>1. FreshInv /\ Saved(param_meta_map, tensor_index)'
    BY <1>0, <1>4, SavedKept, Zenon DEF SaveInv, FreshInv
  <2> QED
    BY <1>0, <1>2, <2>1, Zenon DEF FreshInv, Written
<1> QED
  BY <1>0, <1>1, <1>3, <1>4, Zenon DEF SaveInv

(* SerializeIndex: the index on disk has the tensor, and its name the id.      *)
LEMMA SerializeNext ==
  ASSUME SaveInv, SerializeIndex
  PROVE  SaveInv'
<1>0. /\ LoopInv /\ saving = "index" /\ saving' = "loop" /\ Storing /\ ~Storing' /\ entry' = entry + 1
      /\ index_file' = Whole(tensor_index) /\ param_meta_map' = With(param_meta_map, Param.name, param_id)
      /\ UNCHANGED <<param_file, map_file, ckpt, tensor_index, file_offset, opened>>
  BY Zenon DEF SerializeIndex, SaveInv, Storing
<1>1. MapInv'
  BY <1>0, MapKept, Zenon DEF SaveInv, LoopInv
<1>2. /\ DOMAIN param_meta_map' = DOMAIN param_meta_map \cup {Param.name}
      /\ param_meta_map'[Param.name] = param_id
      /\ \A n \in DOMAIN param_meta_map : param_meta_map'[n] = param_meta_map[n]
  BY <1>0, Zenon DEF With, LoopInv
<1>3. param_id \in Nat /\ param_id' = param_id + 1
  BY <1>0, Zenon DEF SerializeIndex, LoopInv
<1>4. ckpt \in DOMAIN Checkpoints /\ entry \in 1..Len(Checkpoints[ckpt]) /\ entry \in DOMAIN Checkpoints[ckpt]
  BY <1>0, EntryType DEF LoopInv
<1>5. LoopInv'
  <2>1. entry' \in 1..(Len(Checkpoints[ckpt]) + 1)
    BY <1>0, <1>4
  <2>2. \A n \in DOMAIN param_meta_map' :
          param_meta_map'[n] \in 0..(param_id' - 1) /\ param_meta_map'[n] \in DOMAIN tensor_index
    BY <1>0, <1>2, <1>3 DEF LoopInv
  <2>3. \A d \in 1..(entry' - 1) : Checkpoints[ckpt][d].name \in DOMAIN param_meta_map'
    BY <1>0, <1>2, <1>4 DEF LoopInv, Param
  <2> QED
    BY <1>0, <1>3, <2>1, <2>2, <2>3 DEF LoopInv
<1>6. ASSUME opened = {} PROVE FreshInv'
  <2>1. FreshInv /\ left = 0
    BY <1>0, <1>6, Zenon DEF SaveInv, FreshInv
  <2>2. First(ckpt, entry, Param.name) /\ Reads(tensor_index, param_id, entry)
    <3>1. First(ckpt, entry, Param.name)
      BY <1>0, <1>4, Zenon DEF LoopInv, First, Param
    <3>2. Reads(tensor_index, param_id, entry)
      BY <1>0, <2>1 DEF FreshInv, LoopInv, Reads, Param, Free
    <3> QED
      BY <3>1, <3>2, Zenon
  <2>3. ASSUME NEW n \in DOMAIN param_meta_map'
        PROVE  \E e \in DOMAIN Checkpoints[ckpt] : First(ckpt, e, n) /\ Reads(tensor_index, param_meta_map[n], e)'
    <3>1. PICK e \in DOMAIN Checkpoints[ckpt] : First(ckpt, e, n) /\ Reads(tensor_index, param_meta_map'[n], e)
      BY <1>2, <1>4, <2>1, <2>2, Zenon DEF FreshInv, Saved
    <3>2. Reads(tensor_index, param_meta_map[n], e)'
      BY <1>0, <3>1, Zenon DEF Reads, Written
    <3> QED
      BY <3>1, <3>2, Zenon
  <2>4. Saved(param_meta_map, tensor_index)'
    BY <1>0, <2>3, Zenon DEF Saved, First
  <2>5. DOMAIN tensor_index' \subseteq 0..(param_id' - 1)
    BY <1>0, <1>3, <2>1 DEF FreshInv
  <2>6. tensor_index[param_id].offset + Blocks(tensor_index[param_id].size) = file_offset
    BY <1>0, <2>1, Zenon DEF FreshInv
  <2>7. Blocks(tensor_index[param_id].size) \in Nat
    <3>1. Param.bytes \in Nat
      BY <1>4, EntryType, Zenon DEF Param
    <3> QED
      BY <1>0, <2>1, <3>1, BlocksNat, Zenon DEF FreshInv
  <2>8. \A n \in DOMAIN param_meta_map' :
          tensor_index[param_meta_map'[n]].offset + Blocks(tensor_index[param_meta_map'[n]].size) <= file_offset
    <3>1. tensor_index[param_id].offset \in Nat
      BY <1>0, <2>1, Zenon DEF FreshInv, Free
    <3>2. ASSUME NEW n \in DOMAIN param_meta_map
          PROVE  tensor_index[param_meta_map[n]].offset + Blocks(tensor_index[param_meta_map[n]].size) <= file_offset
      <4>1. PICK t : t = tensor_index[param_meta_map[n]]
        BY Zenon
      <4>2. t.offset \in Nat /\ Blocks(t.size) \in Nat
        <5>1. PICK e \in DOMAIN Checkpoints[ckpt] : Reads(tensor_index, param_meta_map[n], e)
          BY <2>1, Zenon DEF FreshInv, Saved
        <5> QED
          BY <1>4, <4>1, <5>1, ReadsType, Zenon
      <4>3. t.offset + Blocks(t.size) <= tensor_index[param_id].offset
        BY <1>0, <2>1, <4>1, Zenon DEF FreshInv, Free
      <4>4. t.offset + Blocks(t.size) <= file_offset
        <5>1. ASSUME NEW p \in Nat, NEW q \in Nat, NEW r \in Nat, NEW s \in Nat, p + q <= r
              PROVE  p + q <= r + s
          BY <5>1
        <5> QED
          BY <2>6, <2>7, <3>1, <4>2, <4>3, <5>1, Zenon
      <4> QED
        BY <4>1, <4>4, Zenon
    <3>3. file_offset \in Nat
      BY <2>1, Zenon DEF FreshInv
    <3> QED
      BY <1>2, <2>6, <3>2, <3>3
  <2> QED
    BY <1>0, <2>1, <2>4, <2>5, <2>8, Zenon DEF FreshInv, Free
<1> QED
  BY <1>0, <1>1, <1>5, <1>6, Zenon DEF SaveInv

(* OpenMap truncates the map, DumpMap writes what the index on disk covers.    *)
LEMMA MapNext ==
  ASSUME SaveInv, OpenMap \/ DumpMap
  PROVE  SaveInv'
<1>0. /\ LoopInv /\ saving \in {"loop", "map"} /\ ~Storing /\ ~Storing' /\ saving' \in {"map", "down"}
      /\ UNCHANGED <<param_file, index_file, ckpt, entry, tensor_index, file_offset, param_meta_map, param_id, left, opened>>
  BY Zenon DEF OpenMap, DumpMap, SaveInv, Storing
<1>1. CASE OpenMap
  <2>1. map_file' = Truncated /\ map_file'.state # "whole"
    BY <1>1, Zenon DEF OpenMap, Truncated
  <2>2. MapInv'
    BY <2>1, Zenon DEF MapInv, IndexCoversMap
  <2>3. Free' = Free
    BY <1>0, Zenon DEF Free
  <2>4. LoopInv'
    BY <1>0, <2>1, <2>3, Zenon DEF LoopInv
  <2>5. ASSUME opened = {} PROVE FreshInv'
    <3>1. FreshInv /\ Saved(param_meta_map, tensor_index)'
      BY <1>0, <2>5, SavedKept, Zenon DEF SaveInv, FreshInv
    <3> QED
      BY <1>0, <2>3, <3>1, Zenon DEF FreshInv
  <2> QED
    BY <1>0, <2>2, <2>4, <2>5, Zenon DEF SaveInv
<1>2. CASE DumpMap
  <2>1. map_file' = Whole(param_meta_map) /\ map_file'.of = param_meta_map /\ saving' = "down"
    BY <1>2, WholeIs, Zenon DEF DumpMap
  <2>2. IndexCoversMap'
    BY <1>0, <2>1, WholeIs, Zenon DEF IndexCoversMap, LoopInv
  <2>3. ASSUME opened = {} PROVE Saved(map_file.of, index_file.of)'
    <3>1. Saved(param_meta_map, tensor_index)'
      BY <1>0, <2>3, SavedKept, Zenon DEF SaveInv, FreshInv
    <3>2. \A n \in DOMAIN param_meta_map : index_file'.of = tensor_index'
      BY <1>0, WholeIs, Zenon DEF LoopInv
    <3>3. ASSUME NEW n \in DOMAIN param_meta_map'
          PROVE  \E e \in DOMAIN Checkpoints[ckpt] : First(ckpt, e, n) /\ Reads(index_file.of, param_meta_map[n], e)'
      <4>1. PICK e \in DOMAIN Checkpoints[ckpt] : First(ckpt, e, n)' /\ Reads(tensor_index, param_meta_map[n], e)'
        BY <1>0, <3>1, Zenon DEF Saved
      <4>2. Reads(index_file.of, param_meta_map[n], e)'
        BY <1>0, <3>2, <4>1, Zenon DEF Reads
      <4> QED
        BY <1>0, <4>1, <4>2, Zenon DEF First
    <3> QED
      BY <1>0, <2>1, <3>3, Zenon DEF Saved, First
  <2> QED
    BY <1>0, <2>1, <2>2, <2>3, Zenon DEF SaveInv, MapInv
<1> QED
  BY <1>1, <1>2, Zenon

(* SaveInv is an invariant of the command.                                     *)
LEMMA SaveKept ==
  ASSUME SaveInv, [SaveNext]_saveVars
  PROVE  SaveInv'
<1>1. ASSUME SaveInv, SaveNext PROVE SaveInv'
  BY <1>1, StartNext, EndNext, SkipNext, StoreStep, WriteNext, TruncateNext, SerializeNext, MapNext, Zenon DEF SaveNext
<1>2. ASSUME SaveInv, UNCHANGED saveVars PROVE SaveInv'
  <2>1. MapInv'
    BY <1>2, MapKept, Zenon DEF SaveInv, saveVars
  <2>2. ASSUME saving # "down" PROVE LoopInv'
    BY <1>2, <2>2, Zenon DEF SaveInv, saveVars, LoopInv, Storing, Param
  <2>3. ASSUME saving # "down", opened = {} PROVE FreshInv'
    <3>1. FreshInv /\ Saved(param_meta_map, tensor_index)'
      BY <1>2, <2>3, SavedKept, Zenon DEF SaveInv, saveVars, FreshInv
    <3> QED
      BY <1>2, <3>1, Zenon DEF saveVars, FreshInv, Storing, Param, Free, Written
  <2> QED
    BY <1>2, <2>1, <2>2, <2>3, Zenon DEF SaveInv, saveVars
<1> QED
  BY <1>1, <1>2, Zenon

(* What a whole map on disk names can be read back: ReadCheckpoint.            *)
LEMMA SaveReads ==
  ASSUME SaveInv
  PROVE  SavedIsReadable
<1>1. IndexCoversMap
  BY Zenon DEF SaveInv, MapInv
<1>2. ASSUME map_file.state = "whole", opened = {}, NEW n \in DOMAIN map_file.of
      PROVE  ReadCheckpoint(n) = [b \in 1..Blocks(Checkpoints[ckpt][FirstOf(n)].bytes) |-> <<ckpt, FirstOf(n), b>>]
  <2>1. PICK e \in DOMAIN Checkpoints[ckpt] : First(ckpt, e, n) /\ Reads(index_file.of, map_file.of[n], e)
    BY <1>2, Zenon DEF SaveInv, MapInv, Saved
  <2>2. First(ckpt, FirstOf(n), n)
    BY <2>1, Zenon DEF First, FirstOf
  <2>3. FirstOf(n) = e
    BY <2>1, <2>2, FirstUnique, Zenon
  <2>4. PICK t : t = index_file.of[map_file.of[n]]
    BY Zenon
  <2>5. t.size = Checkpoints[ckpt][e].bytes /\ \A b \in 1..Blocks(t.size) : param_file[t.offset + b - 1] = <<ckpt, e, b>>
    BY <2>1, <2>4, Zenon DEF Reads, Written
  <2>6. ReadCheckpoint(n) = [b \in 1..Blocks(t.size) |-> param_file[t.offset + b - 1]]
    BY <2>4, Zenon DEF ReadCheckpoint
  <2> QED
    BY <2>3, <2>5, <2>6, Zenon
<1> QED
  BY <1>1, <1>2, Zenon DEF SavedIsReadable, SavedReadsBack

(* What save_model has saved can be read, for every checkpoint and every       *)
(* alignment, and wherever earlier runs were killed: the ids of a map on disk  *)
(* are in the index on disk, and a run that found no tensor in the index has   *)
(* left under each name the blocks of the first tensor that has it.            *)
THEOREM SavedCanBeRead == SaveSpec => []SavedIsReadable
<1> QED
  BY SaveStarts, SaveKept, SaveReads, PTL DEF SaveSpec

(***************************************************************************)
(* The operation ids.                                                      *)
(***************************************************************************)
(* A thread about to exchange passed the loop's condition on the value it   *)
(* holds. The exchange that succeeds compares that value with the counter,  *)
(* so this is what bounds the counter.                                      *)
InIdLoop == \A t \in Threads : taking[t] = "cas" => oid[t] < Capacity

LEMMA LoopInvariant == IdSpec => [](IdTypeOK /\ InIdLoop)
<1> USE CapacityAssumption
<1>1. IdInit => IdTypeOK /\ InIdLoop
  BY DEF IdInit, IdTypeOK, InIdLoop
<1>2. IdTypeOK /\ InIdLoop /\ [IdNext]_idVars => IdTypeOK' /\ InIdLoop'
  <2> SUFFICES ASSUME IdTypeOK, InIdLoop, [IdNext]_idVars
               PROVE  IdTypeOK' /\ InIdLoop'
    BY Zenon
  <2>1. ASSUME NEW t \in Threads, Load(t) \/ ExchangeFails(t)
        PROVE  IdTypeOK' /\ InIdLoop'
    BY <2>1 DEF IdTypeOK, InIdLoop, Load, ExchangeFails, Loaded
  <2>2. ASSUME NEW t \in Threads, Exchange(t)
        PROVE  IdTypeOK' /\ InIdLoop'
    BY <2>2 DEF IdTypeOK, InIdLoop, Exchange
  <2>3. CASE UNCHANGED idVars
    BY <2>3, Zenon DEF IdTypeOK, InIdLoop, idVars
  <2> QED
    BY <2>1, <2>2, <2>3, Zenon DEF IdNext
<1> QED
  BY <1>1, <1>2, PTL DEF IdSpec

(* The type invariant: the counter never passes the capacity, so no id is  *)
(* out of the range ValidateOperationId accepts.                           *)
THEOREM IdTypeCorrect == IdSpec => []IdTypeOK
  BY LoopInvariant, PTL

(* Ids are unique and dense, however the exchanges of the threads          *)
(* interleave and fail.                                                    *)
THEOREM UniqueIds == IdSpec => []IdsUnique
<1>1. IdInit => IdsUnique
  BY DEF IdInit, IdsUnique
<1>2. IdTypeOK /\ IdsUnique /\ [IdNext]_idVars => IdsUnique'
  <2> SUFFICES ASSUME IdTypeOK, IdsUnique, [IdNext]_idVars
               PROVE  IdsUnique'
    BY Zenon
  <2>1. ASSUME UNCHANGED <<next, ids>>
        PROVE  IdsUnique'
    BY <2>1, Zenon DEF IdsUnique
  <2>2. ASSUME NEW t \in Threads, Exchange(t)
        PROVE  IdsUnique'
    <3>1. /\ next' = next + 1 /\ next \in Nat
          /\ ids' = [ids EXCEPT ![t] = @ \cup {next}]
      BY <2>2, CapacityAssumption DEF IdTypeOK, Exchange
    <3>2. \A s \in Threads : ids'[s] = IF s = t THEN ids[s] \cup {next} ELSE ids[s]
      BY <3>1, Zenon DEF IdTypeOK
    <3>3. \A s \in Threads : next \notin ids[s]
      BY <3>1 DEF IdsUnique
    <3> QED
      BY <3>1, <3>2, <3>3 DEF IdsUnique
  <2> QED
    BY <2>1, <2>2, Zenon DEF IdNext, Load, ExchangeFails, idVars
<1> QED
  BY <1>1, <1>2, IdTypeCorrect, PTL DEF IdSpec

(* A dispatch is refused only when the capacity is used up.                 *)
THEOREM RefusalMeansFull == IdSpec => []RefusedWhenFull
<1> USE CapacityAssumption
<1>1. IdInit => RefusedWhenFull
  BY Zenon DEF IdInit, RefusedWhenFull
<1>2. IdTypeOK /\ InIdLoop /\ RefusedWhenFull /\ [IdNext]_idVars => RefusedWhenFull'
  <2> SUFFICES ASSUME IdTypeOK, InIdLoop, RefusedWhenFull, [IdNext]_idVars
               PROVE  RefusedWhenFull'
    BY Zenon
  <2>1. ASSUME NEW t \in Threads, Load(t) \/ ExchangeFails(t)
        PROVE  RefusedWhenFull'
    BY <2>1 DEF IdTypeOK, RefusedWhenFull, Load, ExchangeFails, Loaded
  <2>2. ASSUME NEW t \in Threads, Exchange(t)
        PROVE  RefusedWhenFull'
    BY <2>2 DEF IdTypeOK, InIdLoop, RefusedWhenFull, Exchange
  <2>3. CASE UNCHANGED idVars
    BY <2>3, Zenon DEF RefusedWhenFull, idVars
  <2> QED
    BY <2>1, <2>2, <2>3, Zenon DEF IdNext
<1> QED
  BY <1>1, <1>2, LoopInvariant, PTL DEF IdSpec

(***************************************************************************)
(* The gate.                                                               *)
(***************************************************************************)
(* A barrier is met by registrations alone, and BARRIER calls pass it met.  *)
BarrierInv ==
  /\ met => joined >= BarrierCount
  /\ mode = "BARRIER" => \A c \in Calls : call[c] = "dispatched" => met

InWork(i, c) == i \in 1..Len(work) /\ work[i] = c
InFlush(d, i, c) == i \in 1..Len(flush[d]) /\ flush[d][i] = c

(* Where the work of a queued call is, place by place; the thread of a      *)
(* device that holds some is not about to take more.                        *)
HoldInv ==
  /\ \A d \in Devices : dev[d] \notin {"flush", "stuck"} => flush[d] = <<>>
  /\ \A c \in Calls : call[c] = "queued" => \/ \E i \in Nat : InWork(i, c)
                                            \/ \E d \in Devices, i \in Nat : InFlush(d, i, c)
  /\ \A c \in Calls, i \in Nat :
       /\ InWork(i, c) => /\ call[c] = "queued"
                          /\ \A j \in Nat : InWork(j, c) => j = i
                          /\ \A d \in Devices, j \in Nat : ~InFlush(d, j, c)
       /\ \A d \in Devices : InFlush(d, i, c) =>
            /\ call[c] = "queued"
            /\ \A e \in Devices, j \in Nat : InFlush(e, j, c) => e = d /\ j = i
  /\ Len(work) <= MaxQueue

GateInv == TypeOK /\ BarrierInv /\ NoLostWakeup /\ HoldInv

LEMMA GateInit == Init => GateInv
<1> SUFFICES ASSUME Init PROVE GateInv
  BY Zenon
<1>1. TypeOK
  <2>1. met \in BOOLEAN
    BY Zenon DEF Init
  <2>2. /\ mode \in {"BARRIER", "DYNAMIC"} /\ joined \in Nat /\ work \in Seq(Calls)
        /\ lock \in Devices \cup {None} /\ devs \subseteq Devices
        /\ flush \in [Devices -> Seq(Calls)]
    BY ModesAssumption DEF Init
  <2>3. /\ call \in [Calls -> {"new", "waiting", "woken", "enqueue", "full", "queued",
                                "dispatched", "failed"}]
        /\ dev \in [Devices -> {"away", "notify", "flush", "stuck", "up"}]
    BY Zenon DEF Init
  <2> QED
    BY <2>1, <2>2, <2>3, Zenon DEF TypeOK
<1>2. BarrierInv /\ NoLostWakeup
  BY Zenon DEF Init, BarrierInv, NoLostWakeup
<1>3. Len(work) = 0 /\ \A d \in Devices : flush[d] = <<>> /\ Len(flush[d]) = 0
  BY Zenon DEF Init
<1>4. \A c \in Calls : call[c] # "queued"
  BY Zenon DEF Init
<1>5. HoldInv
  BY <1>3, <1>4, BoundsAssumption DEF HoldInv, InWork, InFlush
<1> QED
  BY <1>1, <1>2, <1>5, Zenon DEF GateInv

LEMMA GateTypeNext ==
  ASSUME TypeOK, [Next]_vars
  PROVE  TypeOK'
<1> USE DEF gate
<1>1. ASSUME NEW c \in Calls, WaitForReady(c) \/ WaitTimeout(c) \/ GetConnectedDeviceCount(c)
      PROVE  TypeOK'
  BY <1>1, Zenon DEF WaitForReady, WaitTimeout, GetConnectedDeviceCount, TypeOK
<1>2. ASSUME NEW c \in Calls, EnqueueWork(c) PROVE TypeOK'
  <2>1. Append(work, c) \in Seq(Calls)
    BY DEF TypeOK
  <2> QED
    BY <1>2, <2>1, Zenon DEF EnqueueWork, TypeOK
<1>3. ASSUME NEW d \in Devices, RegisterDevice(d) \/ DisconnectDevice(d) \/ RunQueued(d)
      PROVE  TypeOK'
  BY <1>3, Zenon DEF RegisterDevice, DisconnectDevice, RunQueued, TypeOK
<1>4. ASSUME NEW d \in Devices, NotifyDeviceJoined(d) PROVE TypeOK'
  <2>1. met' \in BOOLEAN
    BY <1>4, Zenon DEF NotifyDeviceJoined
  <2>2. joined' \in Nat /\ work' \in Seq(Calls) /\ flush' \in [Devices -> Seq(Calls)]
    BY <1>4 DEF NotifyDeviceJoined, TypeOK
  <2>3. call' \in [Calls -> {"new", "waiting", "woken", "enqueue", "full", "queued",
                             "dispatched", "failed"}]
    BY <1>4, Zenon DEF NotifyDeviceJoined, Wake, TypeOK
  <2>4. /\ mode' = mode /\ devs' = devs /\ lock' \in Devices \cup {None}
        /\ dev' \in [Devices -> {"away", "notify", "flush", "stuck", "up"}]
    BY <1>4, Zenon DEF NotifyDeviceJoined, TypeOK
  <2> QED
    BY <2>1, <2>2, <2>3, <2>4, Zenon DEF TypeOK
<1>5. CASE UNCHANGED vars
  BY <1>5, Zenon DEF vars, TypeOK
<1> QED
  BY <1>1, <1>2, <1>3, <1>4, <1>5, Zenon DEF Next, Caller, Handler

LEMMA GateTypeCorrect == Spec => []TypeOK
  BY GateInit, GateTypeNext, PTL DEF Spec, GateInv

LEMMA BarrierNext ==
  ASSUME TypeOK, BarrierInv, NoLostWakeup, [Next]_vars
  PROVE  BarrierInv' /\ NoLostWakeup'
<1> USE BoundsAssumption DEF gate, BarrierInv, NoLostWakeup
<1>0. joined \in Nat /\ Len(work) \in Nat
      /\ call \in [Calls -> {"new", "waiting", "woken", "enqueue", "full", "queued",
                              "dispatched", "failed"}]
  BY DEF TypeOK
<1>1. ASSUME NEW c \in Calls, WaitForReady(c) \/ WaitTimeout(c) \/ GetConnectedDeviceCount(c)
      PROVE  BarrierInv' /\ NoLostWakeup'
  BY <1>0, <1>1 DEF WaitForReady, WaitTimeout, GetConnectedDeviceCount
<1>2. ASSUME NEW c \in Calls, EnqueueWork(c) PROVE BarrierInv' /\ NoLostWakeup'
  <2>1. CASE Len(work) < MaxQueue
    <3>1. Len(work') = Len(work) + 1 /\ call' = [call EXCEPT ![c] = "queued"]
      BY <1>2, <2>1 DEF EnqueueWork, TypeOK
    <3> QED
      BY <1>0, <1>2, <2>1, <3>1 DEF EnqueueWork
  <2>2. CASE ~(Len(work) < MaxQueue)
    BY <1>0, <1>2, <2>2 DEF EnqueueWork
  <2> QED
    BY <2>1, <2>2, Zenon
<1>3. ASSUME NEW d \in Devices, RegisterDevice(d) \/ DisconnectDevice(d) \/ RunQueued(d)
      PROVE  BarrierInv' /\ NoLostWakeup'
  BY <1>3 DEF RegisterDevice, DisconnectDevice, RunQueued
<1>4. ASSUME NEW d \in Devices, NotifyDeviceJoined(d) PROVE BarrierInv' /\ NoLostWakeup'
  <2> DEFINE meets == mode = "BARRIER" /\ ~met /\ joined + 1 >= BarrierCount
             taken == IF mode = "DYNAMIC" THEN work ELSE <<>>
  <2>1. /\ met' <=> met \/ meets
        /\ joined' = joined + 1 /\ mode' = mode
        /\ work' = IF taken # <<>> THEN <<>> ELSE work
    BY <1>4, Zenon DEF NotifyDeviceJoined
  <2>2. \A c \in Calls :
          call'[c] = IF meets /\ call[c] = "waiting" THEN "woken"
                     ELSE IF taken # <<>> /\ call[c] = "full" THEN "enqueue" ELSE call[c]
    BY <1>0, <1>4, Zenon DEF NotifyDeviceJoined, Wake
  <2> QED
    BY <1>0, <2>1, <2>2
<1>5. CASE UNCHANGED vars
  BY <1>5, Zenon DEF vars
<1> QED
  BY <1>1, <1>2, <1>3, <1>4, <1>5, Zenon DEF Next, Caller, Handler

(* A step that queues nothing and takes nothing from the queue.             *)
LEMMA HoldFrame ==
  ASSUME HoldInv, UNCHANGED <<work, flush>>,
         \A c \in Calls : call'[c] = "queued" <=> call[c] = "queued",
         \A d \in Devices : dev'[d] \notin {"flush", "stuck"} => dev[d] \notin {"flush", "stuck"}
  PROVE  HoldInv'
<1>1. /\ \A c \in Calls, i \in Nat : InWork(i, c)' <=> InWork(i, c)
      /\ \A c \in Calls, d \in Devices, i \in Nat : InFlush(d, i, c)' <=> InFlush(d, i, c)
  BY Zenon DEF InWork, InFlush
<1> QED
  BY <1>1, Zenon DEF HoldInv

LEMMA HoldEnqueue ==
  ASSUME TypeOK, HoldInv, NEW c \in Calls, EnqueueWork(c)
  PROVE  HoldInv'
<1>0. /\ work \in Seq(Calls) /\ Len(work) \in Nat /\ UNCHANGED <<dev, flush>> /\ call[c] = "enqueue"
      /\ call \in [Calls -> {"new", "waiting", "woken", "enqueue", "full", "queued",
                              "dispatched", "failed"}]
  BY DEF TypeOK, EnqueueWork
<1>1. CASE ~(Len(work) < MaxQueue)
  <2>1. UNCHANGED work /\ \A b \in Calls : call'[b] = "queued" <=> call[b] = "queued"
    BY <1>0, <1>1, Zenon DEF EnqueueWork
  <2> QED
    BY <1>0, <2>1, HoldFrame, Zenon
<1>2. CASE Len(work) < MaxQueue
  <2>1. /\ Len(work') = Len(work) + 1 /\ work'[Len(work) + 1] = c
        /\ \A i \in 1..Len(work) : work'[i] = work[i]
        /\ \A b \in Calls : call'[b] = IF b = c THEN "queued" ELSE call[b]
    BY <1>0, <1>2 DEF EnqueueWork
  <2>2. \A b \in Calls, i \in Nat : InWork(i, b)' <=> InWork(i, b) \/ (b = c /\ i = Len(work) + 1)
    BY <1>0, <2>1 DEF InWork
  <2>3. \A b \in Calls, d \in Devices, i \in Nat : InFlush(d, i, b)' <=> InFlush(d, i, b)
    BY <1>0, Zenon DEF InFlush
  <2>4. \A i \in Nat : ~InWork(i, c) /\ \A d \in Devices : ~InFlush(d, i, c)
    BY <1>0, Zenon DEF HoldInv
  <2>5. Len(work') <= MaxQueue /\ Len(work) + 1 \in Nat
    BY <1>0, <1>2, <2>1, BoundsAssumption
  <2> QED
    BY <1>0, <2>1, <2>2, <2>3, <2>4, <2>5 DEF HoldInv
<1> QED
  BY <1>1, <1>2, Zenon

LEMMA HoldNotify ==
  ASSUME TypeOK, HoldInv, NEW d \in Devices, NotifyDeviceJoined(d)
  PROVE  HoldInv'
<1> DEFINE taken == IF mode = "DYNAMIC" THEN work ELSE <<>>
<1>0. /\ work \in Seq(Calls) /\ Len(work) \in Nat /\ flush \in [Devices -> Seq(Calls)]
      /\ dev \in [Devices -> {"away", "notify", "flush", "stuck", "up"}]
  BY DEF TypeOK
<1>1. dev[d] = "notify" /\ flush[d] = <<>> /\ Len(flush[d]) = 0
  BY DEF NotifyDeviceJoined, HoldInv
<1>2. \A c \in Calls : call'[c] = "queued" <=> call[c] = "queued"
  BY Zenon DEF NotifyDeviceJoined, Wake, TypeOK
<1>3. /\ work' = IF taken # <<>> THEN <<>> ELSE work
      /\ \A e \in Devices : /\ flush'[e] = IF e = d THEN taken ELSE flush[e]
                            /\ dev'[e] = IF e # d THEN dev[e]
                                         ELSE IF taken = <<>> THEN "up" ELSE "flush"
      /\ flush' = [flush EXCEPT ![d] = taken]
  BY <1>0, Zenon DEF NotifyDeviceJoined
<1>4. CASE taken = <<>>
  <2>1. flush' = flush
    BY <1>0, <1>1, <1>3, <1>4, Zenon
  <2> QED
    BY <1>0, <1>1, <1>2, <1>3, <1>4, <2>1, HoldFrame, Zenon
<1>5. CASE taken # <<>>
  <2>1. taken = work /\ Len(work') = 0
    BY <1>3, <1>5, Zenon
  <2> HIDE DEF taken
  <2>2. \A c \in Calls, i \in Nat : ~InWork(i, c)'
    BY <2>1 DEF InWork
  <2>3. \A c \in Calls, e \in Devices, i \in Nat :
          InFlush(e, i, c)' <=> IF e = d THEN InWork(i, c) ELSE InFlush(e, i, c)
    BY <1>3, <2>1, Zenon DEF InWork, InFlush
  <2>4. \A c \in Calls, i \in Nat : ~InFlush(d, i, c)
    BY <1>1 DEF InFlush
  <2>5. \A e \in Devices : dev'[e] \notin {"flush", "stuck"} => flush'[e] = <<>>
    BY <1>3, <1>5, Zenon DEF HoldInv
  <2>6. \A c \in Calls : call'[c] = "queued" => \E e \in Devices, i \in Nat : InFlush(e, i, c)'
    BY <1>2, <2>3, <2>4 DEF HoldInv
  <2>7. \A c \in Calls, i \in Nat, e \in Devices : InFlush(e, i, c)' =>
          /\ call'[c] = "queued"
          /\ \A g \in Devices, j \in Nat : InFlush(g, j, c)' => g = e /\ j = i
    BY <1>2, <2>3 DEF HoldInv
  <2>8. Len(work') <= MaxQueue
    BY <2>1, BoundsAssumption
  <2> QED
    BY <2>2, <2>5, <2>6, <2>7, <2>8, Zenon DEF HoldInv
<1> QED
  BY <1>4, <1>5, Zenon

LEMMA HoldNext ==
  ASSUME TypeOK, HoldInv, [Next]_vars
  PROVE  HoldInv'
<1> USE DEF gate
<1>0. /\ dev \in [Devices -> {"away", "notify", "flush", "stuck", "up"}]
      /\ call \in [Calls -> {"new", "waiting", "woken", "enqueue", "full", "queued",
                              "dispatched", "failed"}]
  BY Zenon DEF TypeOK
<1>1. ASSUME NEW c \in Calls, WaitForReady(c) \/ WaitTimeout(c) \/ GetConnectedDeviceCount(c)
      PROVE  HoldInv'
  <2>1. UNCHANGED <<work, flush, dev>>
    BY <1>1, Zenon DEF WaitForReady, WaitTimeout, GetConnectedDeviceCount
  <2>2. \A b \in Calls : call'[b] = "queued" <=> call[b] = "queued"
    BY <1>0, <1>1, Zenon DEF WaitForReady, WaitTimeout, GetConnectedDeviceCount
  <2> QED
    BY <2>1, <2>2, HoldFrame, Zenon
<1>2. ASSUME NEW d \in Devices, RegisterDevice(d) \/ DisconnectDevice(d) \/ RunQueued(d)
      PROVE  HoldInv'
  <2>1. UNCHANGED <<work, flush, call>>
    BY <1>2, Zenon DEF RegisterDevice, DisconnectDevice, RunQueued
  <2>2. \A e \in Devices : dev'[e] \notin {"flush", "stuck"} => dev[e] \notin {"flush", "stuck"}
    BY <1>0, <1>2, Zenon DEF RegisterDevice, DisconnectDevice, RunQueued
  <2> QED
    BY <2>1, <2>2, HoldFrame, Zenon
<1>3. CASE UNCHANGED vars
  BY <1>3, HoldFrame, Zenon DEF vars
<1> QED
  BY <1>1, <1>2, <1>3, HoldEnqueue, HoldNotify, Zenon DEF Next, Caller, Handler

(* The places of HoldInv are those of QueuedOnce.                           *)
LEMMA HeldOnce ==
  ASSUME TypeOK, HoldInv
  PROVE  QueuedOnce
<1>0. /\ DOMAIN work = 1..Len(work) /\ Len(work) \in Nat
      /\ \A d \in Devices : DOMAIN flush[d] = 1..Len(flush[d]) /\ Len(flush[d]) \in Nat
  BY DEF TypeOK
<1>1. ASSUME NEW c \in Calls
      PROVE  \A x : x \in Held(c) <=>
                     \/ \E i \in Nat : x = <<"work", i>> /\ InWork(i, c)
                     \/ \E d \in Devices, i \in Nat : x = <<"flush", d, i>> /\ InFlush(d, i, c)
  <2> DEFINE Works == {<<"work", i>> : i \in {i \in DOMAIN work : work[i] = c}}
             Here(d) == {<<"flush", d, i>> : i \in {i \in DOMAIN flush[d] : flush[d][i] = c}}
             Flushes == UNION {Here(d) : d \in Devices}
  <2>1. Held(c) = Works \cup Flushes
    BY Zenon DEF Held
  <2>2. \A x : x \in Works <=> \E i \in Nat : x = <<"work", i>> /\ InWork(i, c)
    BY <1>0 DEF InWork
  <2>3. \A d \in Devices : \A x : x \in Here(d) <=> \E i \in Nat : x = <<"flush", d, i>> /\ InFlush(d, i, c)
    BY <1>0 DEF InFlush
  <2>4. \A x : x \in Flushes <=> \E d \in Devices : x \in Here(d)
    BY Zenon
  <2> HIDE DEF Works, Here, Flushes
  <2> QED
    BY <2>1, <2>2, <2>3, <2>4, Zenon
<1>2. ASSUME NEW c \in Calls, call[c] # "queued" PROVE Held(c) = {}
  BY <1>1, <1>2, Zenon DEF HoldInv
<1>3. ASSUME NEW c \in Calls, call[c] = "queued" PROVE \E x \in Held(c) : Held(c) = {x}
  <2>1. CASE \E i \in Nat : InWork(i, c)
    <3>1. PICK i \in Nat : InWork(i, c)
      BY <2>1, Zenon
    <3>2. \A x : x \in Held(c) <=> x = <<"work", i>>
      BY <1>1, <3>1 DEF HoldInv
    <3>3. Held(c) = {<<"work", i>>} /\ <<"work", i>> \in Held(c)
      BY <3>2, Zenon
    <3> QED
      BY <3>3, Zenon
  <2>2. CASE \E d \in Devices, i \in Nat : InFlush(d, i, c)
    <3>1. PICK d \in Devices, i \in Nat : InFlush(d, i, c)
      BY <2>2, Zenon
    <3>2. \A x : x \in Held(c) <=> x = <<"flush", d, i>>
      BY <1>1, <3>1 DEF HoldInv
    <3>3. Held(c) = {<<"flush", d, i>>} /\ <<"flush", d, i>> \in Held(c)
      BY <3>2, Zenon
    <3> QED
      BY <3>3, Zenon
  <2> QED
    BY <1>3, <2>1, <2>2, Zenon DEF HoldInv
<1> QED
  BY <1>2, <1>3, Zenon DEF QueuedOnce, HoldInv

(* Whatever devices and callers do: in BARRIER mode nothing is dispatched   *)
(* before BarrierCount devices registered; nobody waits for a barrier that  *)
(* is met or for room the queue has; and queued work is held once, in the   *)
(* queue or by the one device whose NotifyDeviceJoined took it.             *)
THEOREM GateIsSound == Spec => [](DispatchAfterJoins /\ NoLostWakeup /\ QueuedOnce)
<1>1. GateInv /\ [Next]_vars => GateInv'
  BY GateTypeNext, BarrierNext, HoldNext, Zenon DEF GateInv
<1>2. GateInv => DispatchAfterJoins /\ NoLostWakeup /\ QueuedOnce
  BY HeldOnce, Zenon DEF GateInv, BarrierInv, DispatchAfterJoins
<1> QED
  BY GateInit, <1>1, <1>2, PTL DEF Spec

(***************************************************************************)
(* The two together.                                                       *)
(***************************************************************************)
(* A call draws one id, once it has passed the gate.                        *)
EntryInv ==
  /\ \A c \in Calls : taking[c] # "idle" \/ ids[c] # {} => call[c] = "dispatched"
  /\ \A c \in Calls : taking[c] # "idle" => ids[c] = {}
  /\ \A c \in Calls : \A m, n \in ids[c] : m = n

LEMMA EntrySafety == EntrySpec => EntryInit /\ [][EntryNext]_entryVars
  BY PTL DEF EntrySpec

(* The gate and the counter, each as it is alone: a step of DispatchEntry   *)
(* is a step of one of them.                                                *)
THEOREM EntryComposes == EntrySpec => Spec /\ IdSpec
<1>1. EntryInit => Init /\ IdInit
  BY Zenon DEF EntryInit
<1>2. [EntryNext]_entryVars => [Next]_vars
  BY Zenon DEF EntryNext, ReserveOperationId, entryVars
<1>3. [EntryNext]_entryVars => [IdNext]_idVars
  BY ThreadsAssumption, Zenon DEF EntryNext, ReserveOperationId, entryVars, IdNext
<1> QED
  BY EntrySafety, <1>1, <1>2, <1>3, PTL DEF Spec, IdSpec

(* No two calls that pass the gate share an id, and none is skipped, while  *)
(* devices join and leave and other calls wait, time out or are queued.     *)
THEOREM EntryIdsUnique == EntrySpec => []IdsUnique
  BY EntryComposes, UniqueIds, PTL

(* A call that passed the gate stays passed.                                *)
LEMMA PassedStays ==
  ASSUME TypeOK, [Next]_vars, NEW c \in Calls, call[c] = "dispatched"
  PROVE  call'[c] = "dispatched"
<1>0. call \in [Calls -> {"new", "waiting", "woken", "enqueue", "full", "queued", "dispatched",
                          "failed"}]
  BY Zenon DEF TypeOK
<1>1. ASSUME NEW b \in Calls, Caller(b) PROVE call'[c] = "dispatched"
  BY <1>0, <1>1, Zenon DEF Caller, WaitForReady, WaitTimeout, GetConnectedDeviceCount, EnqueueWork
<1>2. ASSUME NEW d \in Devices, RegisterDevice(d) \/ Handler(d) \/ DisconnectDevice(d)
      PROVE  call'[c] = "dispatched"
  BY <1>0, <1>2, Zenon DEF RegisterDevice, Handler, NotifyDeviceJoined, RunQueued, DisconnectDevice, Wake
<1> QED
  BY <1>1, <1>2, Zenon DEF Next, vars

LEMMA EntryNextInv ==
  ASSUME TypeOK, IdTypeOK, EntryInv, [EntryNext]_entryVars
  PROVE  EntryInv'
<1> USE ThreadsAssumption
<1>0. /\ taking \in [Calls -> {"idle", "cas", "refused"}] /\ ids \in [Calls -> SUBSET Nat]
  BY Zenon DEF IdTypeOK
<1>1. CASE [Next]_vars /\ UNCHANGED idVars
  BY <1>1, PassedStays, Zenon DEF EntryInv, idVars
<1>2. ASSUME NEW c \in Calls, ReserveOperationId(c) PROVE EntryInv'
  <2>1. call[c] = "dispatched" /\ UNCHANGED call
    BY <1>2, Zenon DEF ReserveOperationId, Passed, vars
  <2>2. CASE (taking[c] = "idle" /\ ids[c] = {} /\ Load(c)) \/ ExchangeFails(c)
    BY <1>0, <2>1, <2>2, Zenon DEF Load, ExchangeFails, Loaded, EntryInv
  <2>3. CASE Exchange(c)
    <3>1. ids[c] = {} /\ \A b \in Calls : ids'[b] = IF b = c THEN {oid[c]} ELSE ids[b]
      BY <1>0, <2>3, Zenon DEF Exchange, EntryInv
    <3>2. \A b \in Calls : taking'[b] = IF b = c THEN "idle" ELSE taking[b]
      BY <1>0, <2>3, Zenon DEF Exchange
    <3> QED
      BY <2>1, <3>1, <3>2, Zenon DEF EntryInv
  <2> QED
    BY <1>2, <2>2, <2>3, Zenon DEF ReserveOperationId
<1> QED
  BY <1>1, <1>2, Zenon DEF EntryNext, entryVars

LEMMA IdsHeldByPassed ==
  ASSUME EntryInv, IdsUnique, RefusedWhenFull
  PROVE  IdsForThePassed
<1> USE ThreadsAssumption, CapacityAssumption
<1>1. \A c \in Calls : Answered(c) => call[c] = "dispatched"
  BY Zenon DEF EntryInv, Answered
<1>2. ASSUME NEW c \in Calls, taking[c] = "refused"
      PROVE  \E S \in SUBSET {b \in Calls : call[b] = "dispatched"} :
               \E f \in [0..(Capacity - 1) -> S] :
                 \A i, j \in 0..(Capacity - 1) : f[i] = f[j] => i = j
  <2> DEFINE S == {b \in Calls : call[b] = "dispatched"}
             f == [i \in 0..(Capacity - 1) |-> CHOOSE b \in S : i \in ids[b]]
  <2>1. \A i \in 0..(Capacity - 1) : \E b \in S : i \in ids[b]
    BY <1>2, Zenon DEF RefusedWhenFull, IdsUnique, EntryInv
  <2>2. \A i \in 0..(Capacity - 1) : f[i] \in S /\ i \in ids[f[i]]
    BY <2>1, Zenon
  <2>3. f \in [0..(Capacity - 1) -> S]
    BY <2>2, Zenon
  <2> HIDE DEF f
  <2>4. \A i, j \in 0..(Capacity - 1) : f[i] = f[j] => i = j
    BY <2>2 DEF EntryInv
  <2> QED
    BY <2>3, <2>4, Zenon
<1> QED
  BY <1>1, <1>2, Zenon DEF IdsForThePassed

(* The gate as the callers of DispatchMatMulAsync see it, for any number of *)
(* them: dispatch after the joins, no lost wakeup, queued work held once,   *)
(* and ids for the calls that passed and no other, none of which is refused *)
(* while fewer than Capacity passed.                                        *)
THEOREM AdmitsInTurn == EntrySpec => []GateAdmitsInTurn
<1>1. EntryInit => EntryInv
  BY ThreadsAssumption, Zenon DEF EntryInit, IdInit, EntryInv
<1>2. TypeOK /\ IdTypeOK /\ EntryInv /\ [EntryNext]_entryVars => EntryInv'
  BY EntryNextInv, Zenon
<1>3. EntryInv /\ IdsUnique /\ RefusedWhenFull => IdsForThePassed
  BY IdsHeldByPassed, Zenon
<1>4. EntrySpec => []TypeOK /\ []IdTypeOK
  BY EntryComposes, GateTypeCorrect, IdTypeCorrect, PTL
<1>5. EntrySpec => []EntryInv
  BY EntrySafety, <1>1, <1>2, <1>4, PTL
<1>6. EntrySpec => []IdsForThePassed
  BY <1>3, <1>5, EntryComposes, UniqueIds, RefusalMeansFull, PTL
<1> QED
  BY <1>6, EntryComposes, GateIsSound, PTL DEF GateAdmitsInTurn
==============================================================================
