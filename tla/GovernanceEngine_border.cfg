SPECIFICATION Spec
CONSTANTS
  x1 = x1
  x2 = x2
  Txns = {x1}
  Contexts <- RetrievedContexts
  Policies <- AllPolicies
  MaxFaults = 0
INVARIANTS SensitiveNeverCrosses
CHECK_DEADLOCK FALSE
