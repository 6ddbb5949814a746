CONSTANTS
  Item = {i, j, k}
  Queue = {p, q}
  MaxTime = 2
  Slack = 1
  Exec = {"reliable", "refusing", "failing"}
SPECIFICATION Spec
SYMMETRY Symmetry
INVARIANTS
  NoTerminate
  ExclusiveDispatch
  PendingConsistent
  WakesInTime
  JoinedQuiescent
