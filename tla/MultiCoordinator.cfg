\* Two coordinators, two devices each, two parameters, a warmup and a measured step.
SPECIFICATION Spec
CONSTANTS
  Ranks = {0, 1}
  Params = 2
  Steps = 2
  Warmup = 1
  Fleet = 2
CHECK_DEADLOCK FALSE
INVARIANTS GradientIsGlobalMean GlobalFromPassedRanks NothingLeft
PROPERTIES RunIsOver
