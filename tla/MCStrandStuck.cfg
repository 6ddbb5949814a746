CONSTANTS
  Item = {a, b, c}
  Modulus = 8
  Exec = {"reliable"}
SPECIFICATION FairSpec
PROPERTIES
  ItemsComplete
