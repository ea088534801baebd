CONSTANTS
  k1 = k1
  k2 = k2
  Keys = {k1, k2}
  ClearId = ClearId
  SetBytes = 2
  DelBytes = 1
  MaxBytes = 5
  Tardy = {k2}
  Kinds <- KindsTried
  MaxOps = 3
SPECIFICATION FairSpec
CHECK_DEADLOCK FALSE
INVARIANTS CountersExact TrueMeansLanded
PROPERTIES EveryPromiseSettles PerKeyOrder DrainMeansSettled
