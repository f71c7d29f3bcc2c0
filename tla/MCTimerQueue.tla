---------------------------- MODULE MCTimerQueue ----------------------------
(* Model values for TimerQueue.                                            *)
EXTENDS TimerQueue

CONSTANTS t1, t2, t3
==============================================================================
