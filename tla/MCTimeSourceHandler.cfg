CONSTANTS
  Item = {i, j}
  Queue = {p, q}
  MaxTime = 2
  Slack = 1
  Exec = {"refusing"}
SPECIFICATION FairSpec
PROPERTIES
  HandlerReachesAll
