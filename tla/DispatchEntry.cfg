\* Either mode: three callers, three devices that come and go, a barrier of two
\* with a timeout, a queue of two; the callers draw from two ids.
SPECIFICATION EntrySpec
CONSTANTS
  k1 = k1  k2 = k2  k3 = k3
  d1 = d1  d2 = d2  d3 = d3
  None = None
  Calls = {k1, k2, k3}
  Devices = {d1, d2, d3}
  Modes = {"BARRIER", "DYNAMIC"}
  BarrierCount = 2
  Timed = TRUE
  MaxQueue = 2
  MaxJoins = 4
  Threads = {k1, k2, k3}
  Capacity = 2
CHECK_DEADLOCK FALSE
INVARIANTS GateAdmitsInTurn IdsUnique
PROPERTIES BarrierReturns
