SPECIFICATION Spec
CONSTANTS
  Inst = {c1, c2}
  Stale = 2
  MaxSegs = 2
  MaxHead = 1
  MaxFaults = 1
  Reopen = {"outage"}
INVARIANT SlotOwned
CHECK_DEADLOCK FALSE
