CONSTANTS
  w1 = w1
  w2 = w2
  Workers = {w1, w2}
  Keys = {k1}
  NoKey = NoKey
  Slot <- SameSlot
  FlushAll = FlushAll
  SetLevels = {1, 2}
  Unsendable = {FALSE}
  OutboxMax = 2
  WindowMax = 1
  MaxOps = 2
  MaxFaults = 1
SPECIFICATION FairSpec
CHECK_DEADLOCK FALSE
INVARIANTS NoOrphanMark LiveMarkKept ClearGuarded
PROPERTIES GenerationSettles ClearReaches
