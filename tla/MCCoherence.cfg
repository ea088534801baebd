SPECIFICATION FairSpec
CONSTANTS
  Workers = {w1}
  Keys = {k1, k2}
  NoOne = NoOne
  FlushAll = FlushAll
  RingCap = 2
  ReadMax = 1
  QueueCap = 2
  MarkMax = 2
  MarkScan = 1
  MaxOps = 2
CHECK_DEADLOCK FALSE
INVARIANTS L1Fresh PrimaryFresh ClearCoversEarlierWrites NoStuckWriteMark
PROPERTIES WriteMarkReleased
