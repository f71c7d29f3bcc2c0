INIT SaveInit
NEXT SaveNext
\* the command ends
CHECK_DEADLOCK FALSE
CONSTANTS
  Checkpoints <- MCCheckpoints
  kAioAlignment = 2
  MaxSaves = 3
INVARIANT LandsAfterTheFirst
