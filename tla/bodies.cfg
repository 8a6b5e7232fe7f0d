SPECIFICATION FairSpec
CONSTANTS
  b1 = b1
  b2 = b2
  b3 = b3
  b4 = b4
  Bodies = {b1, b2, b3, b4}
  Size <- MCSize
  Handlers = {q1, q2}
  RingCap = 1
  Budget = 3
  InOrder = TRUE
INVARIANTS NoOrphanFile DiskHolds
PROPERTY ShredReturns
CHECK_DEADLOCK FALSE
