CONSTANTS
  Item = {a, b, c}
  Modulus = 8
  Exec = {"reliable", "failing"}
SPECIFICATION FairSpec
INVARIANTS
  QueueConsistent
  NothingStranded
PROPERTIES
  ItemsCompleteUnlessWrapped
