CONSTANTS
  Addr = {1, 2, 3, 4}
  Null = Null
  Side = {First, Second}
  Nobody = Nobody
SPECIFICATION PairSpec
INVARIANTS
  MutualExclusion
  NoDanglingDual
  UsePairInSync
  SharedStorageLives
PROPERTIES
  ControlDataStable
  LockProgress
  SharedLockReturns
