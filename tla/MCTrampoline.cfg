CONSTANTS
  MaxTasks = 5
  Thread = {main, other}
  Main = main
  None = None
  Limit = 1
  MayFail = TRUE
  Length = 3
  MayThrow = TRUE
SPECIFICATION WorkSpec
INVARIANTS
  DepthExact
  RunsOnce
PROPERTIES
  TasksComplete
  BulkReduces
CHECK_DEADLOCK FALSE
