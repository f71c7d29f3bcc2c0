SPECIFICATION Spec
CONSTANTS
  Phases = {"warmup_iteration", "forward", "iteration_total"}
  Runs = 2
  NumDevices = 1
  Warmup = 1
  Steps = 2
  MaxRecords = 3
INVARIANTS CountedIsMeasured RunsStayApart
PROPERTIES SweepEnds
