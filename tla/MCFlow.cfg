CONSTANTS
  Length = 5
  MaxAsk = 3
  Limits = {0, 1, 2, 3}
  MaxFailures = 1
SPECIFICATION FairSpec
INVARIANTS
  NoTerminate
  DemandRespected
  EachOnceInOrder
  RequestsServed
PROPERTY
  FlowCompletes
CHECK_DEADLOCK FALSE
