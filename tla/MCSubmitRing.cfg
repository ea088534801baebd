CONSTANTS
  p1 = p1
  p2 = p2
  Procs = {p1, p2}
  Free = Free
  Cap = 16
  Hdr = 3
  Sizes = {5, 6, 8, 9}
  Budget = 2
  MaxSteps = 72
  MaxPush = 4
SPECIFICATION FairSpec
CHECK_DEADLOCK FALSE
INVARIANTS TailMeansApplied
PROPERTIES ImplementsQueue EventuallyApplied
