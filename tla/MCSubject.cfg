CONSTANTS
  Subscriber = {s1, s2, s3}
  Producer = {p1, p2}
  MaxCalls = 2
  Nesting = {FALSE, TRUE}
  Free = Free
SPECIFICATION FairSpec
INVARIANTS
  NobodyForgotten
PROPERTIES
  ContractKept
  EveryoneTold
CHECK_DEADLOCK FALSE
