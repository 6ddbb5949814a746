CONSTANTS
  Chains <- AllChains
  MaxChain = 3
  MaxSignals = 3
  MaxValues = 2
SPECIFICATION Spec
INVARIANTS
  AllCompleted
  PromiseOnce
  ResultDefined
PROPERTIES
  ContractKept
CHECK_DEADLOCK FALSE
