SPECIFICATION FairSpec
CONSTANTS
  Inst = {c1, c2}
  Stale = 2
  MaxSegs = 2
  MaxHead = 1
  MaxFaults = 1
  Reopen = {}
CHECK_DEADLOCK FALSE
INVARIANTS NothingFromBefore SlotOwned OneFate
PROPERTIES TrustBounded Rejoins
