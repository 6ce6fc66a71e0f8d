SPECIFICATION FairSpec
CONSTANTS
  x1 = x1
  x2 = x2
  Txns = {x1, x2}
  Contexts <- FewContexts
  Policies <- OnePolicy
  MaxFaults = 1
INVARIANTS LedgerTellsJourney
PROPERTIES DecidesInIsolation CallsReturn
CHECK_DEADLOCK FALSE
