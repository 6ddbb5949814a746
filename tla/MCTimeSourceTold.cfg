CONSTANTS
  Item = {i, j}
  Queue = {p}
  MaxTime = 2
  Slack = 1
  Exec = {"failing"}
SPECIFICATION Spec
INVARIANTS
  EmptyAlwaysTold
