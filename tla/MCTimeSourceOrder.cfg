CONSTANTS
  Item = {i, j, k}
  Queue = {p}
  MaxTime = 2
  Slack = 1
  Exec = {"reliable"}
SPECIFICATION Spec
INVARIANTS
  TimeOrdered
