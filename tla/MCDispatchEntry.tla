--------------------------- MODULE MCDispatchEntry ---------------------------
(* Instances of DispatchEntry: three callers, three devices, two ids. *)
EXTENDS DispatchEntry

CONSTANTS k1, k2, k3, d1, d2, d3

==============================================================================
