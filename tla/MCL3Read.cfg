CONSTANTS
  Primary = Primary
  Workers = {w1, w2}
  Keys = {k1}
  FlushAll = FlushAll
  OtherKey = OtherKey
  RingCap = 3
  SetLevels = {1, 3}
  ReadLevels = {0, 1}
  MaxOps = 2
  MaxClears = 1
  MaxReads = 1
SPECIFICATION Spec
CHECK_DEADLOCK FALSE
INVARIANTS OwnRemovalHolds ClearHolds PromotionYields L1Tracked
PROPERTIES OwnWriteKept
