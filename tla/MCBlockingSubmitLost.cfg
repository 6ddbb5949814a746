CONSTANTS
  Nested = {n1, n2}
  Outer = outer
  MayThrow = FALSE
SPECIFICATION BSFairSpec
PROPERTIES
  AllNestedComplete
