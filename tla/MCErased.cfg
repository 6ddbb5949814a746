SPECIFICATION Spec
CONSTANTS
  Places = {p1, p2, p3}
  Objects = {lib, raw}
  Guarded = {lib}
  MaxValues = 2
INVARIANTS
  OwnedOnce
  FlagsProtect
  NothingSwallowed
CHECK_DEADLOCK FALSE
