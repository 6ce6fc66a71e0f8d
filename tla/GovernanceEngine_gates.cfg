SPECIFICATION Spec
CONSTANTS
  x1 = x1
  x2 = x2
  Txns = {x1}
  Contexts <- WideContexts
  Policies <- AllPolicies
  MaxFaults = 0
INVARIANTS ReleaseEstablished ClassifiedStaysHome MaskHolds FailClosedOnlyWithholds
CHECK_DEADLOCK FALSE
