CONSTANTS
  p1 = p1  p2 = p2  o1 = o1  o2 = o2  c1 = c1  c2 = c2  lm = lm  l1 = l1  l2 = l2
  None = None
  Parts = {p1, p2}
  Ops = {o1, o2}
  OpOf <- OneEach
  Conns = {c1, c2}
  Loops = {lm, l1}
  Main = lm
  LoopOf <- OneLoop
  Standing = {c1}
  Leavers = {c1, c2}
SPECIFICATION Spec
CHECK_DEADLOCK FALSE
INVARIANTS TrackedUntilWritten CompleteIsCounted
