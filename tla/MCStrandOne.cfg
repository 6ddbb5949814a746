CONSTANTS
  Item = {a, b}
  Modulus = 8
  Exec = {"reliable"}
SPECIFICATION Spec
INVARIANTS
  OneAtATime
