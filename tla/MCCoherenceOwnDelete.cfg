SPECIFICATION Spec
CONSTANTS
  Workers = {w1}
  Keys = {k1}
  NoOne = NoOne
  FlushAll = FlushAll
  RingCap = 3
  ReadMax = 2
  QueueCap = 3
  MarkMax = 1
  MarkScan = 1
  MaxOps = 2
CHECK_DEADLOCK FALSE
INVARIANT OwnDeleteHonoured
