-------------------------- MODULE MCMultiCoordinator --------------------------
(* MultiCoordinator, as MultiCoordinator.cfg instantiates it. *)
EXTENDS MultiCoordinator
==============================================================================
