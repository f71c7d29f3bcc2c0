\* Two tasks, one waiter and a Stop at any time; three blocks of two rows and two
\* columns, one of them twice as large, in a cache for three; products of up to
\* eight elements.
SPECIFICATION DeviceSpec
CONSTANTS
  Tasks = {t1, t2}
  Waiters = {w1}
  t1 = t1  t2 = t2  w1 = w1  row1 = row1  row2 = row2  col1 = col1  col2 = col2
  All = All
  Tensors = {row1, row2, col1, col2}
  Size <- MCSize
  BlockKeys <- MCBlockKeys
  MaxBytes = 3
  MaxBlocks = 3
  MaxFailures = 1
  Dims = {0, 1, 2, 3}
  BlockSizes = {1, 2, 4}
  Stacks = {0, 1, 2}
  MaxElements = 8
CHECK_DEADLOCK FALSE
INVARIANTS
  WaitMeansDone CalledOnce
  ReadsAliveWithinBudget SavedForAReason
  ProductIsExact
PROPERTIES EveryoneReturns
