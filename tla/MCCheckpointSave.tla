-------------------------- MODULE MCCheckpointSave ---------------------------
(* The save command on a small checkpoint.                                     *)
EXTENDS CheckpointSave

(* One checkpoint of two shards that both hold "w", in two data types.        *)
Tensor(n, b) == [name |-> n, bytes |-> b]
MCCheckpoints == << <<Tensor("w", 3), Tensor("b", 1), Tensor("w", 3), Tensor("g", 2)>>,
                    <<Tensor("w", 2), Tensor("b", 1), Tensor("w", 2), Tensor("g", 1)>> >>
===============================================================================
