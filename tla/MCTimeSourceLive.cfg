CONSTANTS
  Item = {i, j}
  Queue = {p, q}
  MaxTime = 2
  Slack = 1
  Exec = {"reliable", "failing"}
SPECIFICATION FairSpec
PROPERTIES
  ItemsComplete
  JoinCompletes
