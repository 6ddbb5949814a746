CONSTANTS
  Nested = {n1, n2, n3}
  Outer = outer
  MayThrow = TRUE
SPECIFICATION BSFairSpec
INVARIANTS
  CountExact
  NoEarlyReturn
PROPERTIES
  QuiescenceStable
  SenderLastReturns
