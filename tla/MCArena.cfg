SPECIFICATION Spec
CONSTANTS
  k1 = k1
  k2 = k2
  k3 = k3
  NoKey = NoKey
  Keys = {k1, k2, k3}
  Hash <- Spread
  Slots = 4
  Data = 10
  Hdr = 2
  Sizes = {3, 4, 6}
  Budget = 1
  Guard = 4
  Slice = 3
  Ttls = {TRUE}
  Clears = {TRUE}
  ReadKeys = {}
  MaxOps = 5
CHECK_DEADLOCK FALSE
INVARIANTS LiveIntact IndexSound SweepLeavesNone
