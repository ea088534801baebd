SPECIFICATION FairSpec
CONSTANTS
  k1 = k1
  k2 = k2
  k3 = k3
  NoKey = NoKey
  Keys = {k1, k2}
  Hash <- Spread
  Slots = 2
  Data = 11
  Hdr = 2
  Sizes = {3}
  Budget = 1
  Guard = 1
  Slice = 9
  Ttls = {FALSE}
  Clears = {}
  ReadKeys = {k1}
  MaxOps = 6
CHECK_DEADLOCK FALSE
INVARIANTS HitCurrent QuietReadHits TailAtRecord
PROPERTIES WriterReturns
