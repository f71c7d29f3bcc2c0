---------------------------- MODULE CheckpointSave ----------------------------
(* `morphling save`: the parameters of a checkpoint's shards are offloaded   *)
(* one by one into a parameter file, the tensor index is rewritten after     *)
(* each of them, and the map from names to ids is dumped last.  The process  *)
(* can be killed between any two of these and the command given again, on    *)
(* the directory that is left or, with --force, on an empty one.  Offsets    *)
(* and sizes on disk are counted in blocks of kAioAlignment bytes.           *)
EXTENDS Integers, Sequences

CONSTANTS
  Checkpoints,     \* sequence of checkpoints: the [name, bytes] of all shards in loading order
  kAioAlignment,
  MaxSaves         \* bound on the runs of the command

ASSUME SaveAssumption ==
  /\ Checkpoints \in Seq(Seq([name : STRING, bytes : Nat]))
  /\ kAioAlignment \in Nat \ {0}

VARIABLES
  param_file,      \* block |-> what was written there last
  index_file,      \* archer_index: absent, truncated or whole
  map_file,        \* param_meta_map.json: absent, truncated or whole
  saving,          \* where the command is
  ckpt, entry,     \* the checkpoint being saved and the loop's position in it
  tensor_index,    \* the handle's index: id |-> offset and size
  file_offset,
  param_meta_map,  \* name |-> id
  param_id,        \* the next id
  left,            \* blocks of the current tensor still to be written
  opened,          \* ids in the index when the handle was opened
  saves

saveVars == <<param_file, index_file, map_file, saving, ckpt, entry, tensor_index, file_offset,
              param_meta_map, param_id, left, opened, saves>>

Absent == [state |-> "absent", of |-> <<>>]
Truncated == [state |-> "truncated", of |-> <<>>]
Whole(f) == [state |-> "whole", of |-> f]

Empty == [x \in {} |-> x]
With(f, x, y) == [z \in DOMAIN f \cup {x} |-> IF z = x THEN y ELSE f[z]]

Blocks(bytes) == (bytes + kAioAlignment - 1) \div kAioAlignment

SaveInit ==
  /\ param_file = Empty /\ index_file = Absent /\ map_file = Absent
  /\ saving = "down" /\ ckpt = 0 /\ entry = 0
  /\ tensor_index = Empty /\ file_offset = 0 /\ param_meta_map = Empty /\ param_id = 0
  /\ left = 0 /\ opened = {} /\ saves = 0

(* The handle reads the index it finds.  A truncated one holds no size: the  *)
(* uninitialized count is taken as zero, or the constructor dies (Die).      *)
Deserialize(f) == IF f.state = "whole" THEN f.of ELSE Empty

(* --force removes the directory.                                            *)
RemoveButMap(force) ==
  IF force THEN param_file' = Empty /\ index_file' = Absent /\ UNCHANGED map_file
  ELSE UNCHANGED <<param_file, index_file, map_file>>
RemoveOutput(force) ==
  IF force THEN param_file' = Empty /\ index_file' = Absent /\ map_file' = Absent
  ELSE UNCHANGED <<param_file, index_file, map_file>>

save_model(c, force) ==
  /\ saving = "down" /\ saves < MaxSaves /\ saves' = saves + 1
  /\ force \/ index_file.state = "absent" \/ map_file.state = "absent"
  /\ RemoveOutput(force)
  /\ tensor_index' = Deserialize(index_file') /\ opened' = DOMAIN tensor_index'
  /\ file_offset' = 0 /\ param_meta_map' = Empty /\ param_id' = 0 /\ left' = 0
  /\ saving' = "loop" /\ ckpt' = c /\ entry' = 1

(* An index and a map are there: "Saved model exists".                       *)
SavedModelExists ==
  /\ saving = "down" /\ saves < MaxSaves /\ saves' = saves + 1
  /\ index_file.state # "absent" /\ map_file.state # "absent"
  /\ UNCHANGED <<param_file, index_file, map_file, saving, ckpt, entry, tensor_index, file_offset,
                 param_meta_map, param_id, left, opened>>

Param == Checkpoints[ckpt][entry]
InLoop == saving = "loop" /\ entry <= Len(Checkpoints[ckpt])

(* A name a former shard had is passed over.                                 *)
SkipKnown ==
  /\ InLoop /\ Param.name \in DOMAIN param_meta_map
  /\ entry' = entry + 1
  /\ UNCHANGED <<param_file, index_file, map_file, saving, ckpt, tensor_index, file_offset,
                 param_meta_map, param_id, left, opened, saves>>

SizeDiffers == param_id \in DOMAIN tensor_index /\ tensor_index[param_id].size # Param.bytes

(* The index has this id with another size: LOG_FATAL.                       *)
SizeMismatch ==
  /\ InLoop /\ Param.name \notin DOMAIN param_meta_map /\ SizeDiffers
  /\ saving' = "down"
  /\ UNCHANGED <<param_file, index_file, map_file, ckpt, entry, tensor_index, file_offset,
                 param_meta_map, param_id, left, opened, saves>>

(* Only a tensor new to the index moves the offset.                          *)
NextOffsetDown(id, bytes) ==
  IF id \in DOMAIN tensor_index THEN file_offset ELSE file_offset + bytes \div kAioAlignment
NextOffset(id, bytes) == IF id \in DOMAIN tensor_index THEN file_offset ELSE file_offset + Blocks(bytes)

StoreTensor ==
  /\ InLoop /\ Param.name \notin DOMAIN param_meta_map
  /\ ~SizeDiffers
  /\ tensor_index' = IF param_id \in DOMAIN tensor_index THEN tensor_index
                     ELSE With(tensor_index, param_id, [offset |-> file_offset, size |-> Param.bytes])
  /\ file_offset' = NextOffset(param_id, Param.bytes)
  /\ left' = Blocks(Param.bytes) /\ saving' = "write"
  /\ UNCHANGED <<param_file, index_file, map_file, ckpt, entry, param_meta_map, param_id, opened, saves>>

(* The blocks are queued in order and taken from the back.                   *)
WriteBlock ==
  /\ saving = "write" /\ left > 0 /\ left' = left - 1
  /\ param_file' = With(param_file, tensor_index[param_id].offset + left - 1, <<ckpt, entry, left>>)
  /\ UNCHANGED <<index_file, map_file, saving, ckpt, entry, tensor_index, file_offset,
                 param_meta_map, param_id, opened, saves>>

TruncateIndex ==
  /\ saving = "write" /\ left = 0 /\ saving' = "index"
  /\ index_file' = Truncated
  /\ UNCHANGED <<param_file, map_file, ckpt, entry, tensor_index, file_offset, param_meta_map, param_id,
                 left, opened, saves>>

(* The index reaches the disk, offload_tensor returns, the name gets its id. *)
SerializeIndex ==
  /\ saving = "index" /\ saving' = "loop" /\ entry' = entry + 1
  /\ index_file' = Whole(tensor_index)
  /\ param_meta_map' = With(param_meta_map, Param.name, param_id) /\ param_id' = param_id + 1
  /\ UNCHANGED <<param_file, map_file, ckpt, tensor_index, file_offset, left, opened, saves>>

OpenMap ==
  /\ saving = "loop" /\ entry > Len(Checkpoints[ckpt]) /\ saving' = "map"
  /\ map_file' = Truncated
  /\ UNCHANGED <<param_file, index_file, ckpt, entry, tensor_index, file_offset, param_meta_map, param_id,
                 left, opened, saves>>

DumpMap ==
  /\ saving = "map" /\ saving' = "down"
  /\ map_file' = Whole(param_meta_map)
  /\ UNCHANGED <<param_file, index_file, ckpt, entry, tensor_index, file_offset, param_meta_map, param_id,
                 left, opened, saves>>

(* The process is killed.                                                    *)
Die ==
  /\ saving # "down" /\ saving' = "down"
  /\ UNCHANGED <<param_file, index_file, map_file, ckpt, entry, tensor_index, file_offset,
                 param_meta_map, param_id, left, opened, saves>>

SaveNext ==
  \/ \E c \in DOMAIN Checkpoints, force \in BOOLEAN : save_model(c, force)
  \/ SavedModelExists \/ SkipKnown \/ SizeMismatch \/ StoreTensor \/ WriteBlock \/ TruncateIndex
  \/ SerializeIndex \/ OpenMap \/ DumpMap \/ Die

(* The command, killed at any time and given again.                          *)
SaveSpec == SaveInit /\ [][SaveNext]_saveVars

(* What ReadCheckpoint takes from the parameter file for a name: the blocks  *)
(* its id has in the index.                                                  *)
ReadCheckpoint(name) ==
  LET meta == index_file.of[map_file.of[name]]
  IN [b \in 1..Blocks(meta.size) |-> param_file[meta.offset + b - 1]]

FirstOf(name) == CHOOSE e \in DOMAIN Checkpoints[ckpt] :
  /\ Checkpoints[ckpt][e].name = name
  /\ \A d \in 1..(e - 1) : Checkpoints[ckpt][d].name # name

(* An id in the dumped map (cmdline.py save_model) is in the index on disk,  *)
(* whatever runs were killed before: the map is never ahead of the index.    *)
IndexCoversMap ==
  map_file.state = "whole" =>
    \A n \in DOMAIN map_file.of :
      index_file.state = "whole" /\ map_file.of[n] \in DOMAIN index_file.of

(* A checkpoint saved by a run that found no tensor in the index reads back  *)
(* as written: each name gives every block of the tensor its first shard     *)
(* has.  Runs killed earlier in the same directory do not matter.            *)
SavedReadsBack ==
  map_file.state = "whole" /\ opened = {} =>
    \A n \in DOMAIN map_file.of :
      ReadCheckpoint(n) = [b \in 1..Blocks(Checkpoints[ckpt][FirstOf(n)].bytes) |-> <<ckpt, FirstOf(n), b>>]

(* "Second tensor must land after the first inside file 0"                   *)
(* (test_checkpoint_multifile_smoke.py:40): a later id, a later offset.      *)
LandsAfterTheFirst ==
  \A i, j \in DOMAIN tensor_index : i < j => tensor_index[i].offset < tensor_index[j].offset

(* A map on disk has its ids in the index, and a checkpoint saved into a       *)
(* directory without a usable index reads back as written, whatever runs were  *)
(* killed before.                                                              *)
SavedIsReadable ==
  IndexCoversMap /\ SavedReadsBack
===============================================================================
