---------------------------- MODULE MCAutogradHooks ----------------------------
(* Two SM counts; no trace, traces that change at a step or a time, in each *)
(* unit, one with an SM count no context has, one out of order.             *)
EXTENDS AutogradHooks

MCTraces ==
  { NoTrace,
    [entries |-> << <<0, 2>>, <<1, 4>> >>, unit |-> "us"],
    [entries |-> << <<1, 3>>, <<1, 2>> >>, unit |-> "ms"],
    [entries |-> << <<0, 4>>, <<1, 2>> >>, unit |-> "ms"],
    [entries |-> << <<1, 2>>, <<0, 4>> >>, unit |-> "us"] }
===============================================================================
