SPECIFICATION LifeSpec
CONSTANTS
  Half = 8
  Asked = {0, 1, 3, 7, 20}
  SweepEvery = 4
  Pause = 1
  MaxTime = 40
CHECK_DEADLOCK FALSE
INVARIANTS NeverEarly ServedInTime
