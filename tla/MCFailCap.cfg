SPECIFICATION Spec
CONSTANTS
  w1 = w1
  w2 = w2
  Primary = Primary
  Workers = {w1, w2}
  Values = {a, b}
  NoValue = NoValue
  WithL3 = {Primary, w1}
  WriterId <- SharedId
  FlushAll = FlushAll
  RingCap = 2
  Ttls = {0, 3}
  FailTtl = 2
  Window = 1
  Mortal = {w1}
  MaxOps = 2
SYMMETRY Sym
CHECK_DEADLOCK FALSE
INVARIANTS NeverResurrects CapReaches
PROPERTIES VerdictTrue
