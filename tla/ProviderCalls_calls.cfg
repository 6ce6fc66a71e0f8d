SPECIFICATION FairSpec
CONSTANTS
  Setups <- AllSetups
  Services = {TRUE, FALSE}
  Tokens = {1, 2, 3}
  Statuses = {400, 503}
  Rate = 1
  HalfMicro = 2
  Dearest = 3
  MaxCompletes = 3
INVARIANTS RequestsBounded BillTracksUsage
PROPERTY CallsEnd
CHECK_DEADLOCK FALSE
