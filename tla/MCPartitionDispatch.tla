------------------------- MODULE MCPartitionDispatch -------------------------
(* Small instances of PartitionDispatch: one operation in two partitions or *)
(* two in one each, two devices on two loops, the main loop serving none or *)
(* one of them.                                                             *)
EXTENDS PartitionDispatch, TLC

CONSTANTS p1, p2, o1, o2, c1, c2, lm, l1, l2

OneOp == p1 :> o1 @@ p2 :> o1
OneEach == p1 :> o1 @@ p2 :> o2
SinglePart == p1 :> o1
OwnLoops == c1 :> l1 @@ c2 :> l2
OneLoop == c1 :> l1 @@ c2 :> l1
MainAndOne == c1 :> lm @@ c2 :> l1
==============================================================================
