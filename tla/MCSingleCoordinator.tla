------------------------- MODULE MCSingleCoordinator -------------------------
(* SingleCoordinator for TLC.                                               *)
EXTENDS SingleCoordinator
===============================================================================
