SPECIFICATION Spec
CONSTANTS
  s1 = s1
  s2 = s2
  k1 = k1
  k2 = k2
  desk = desk
  Slots = {s1, s2}
  Requests <- AllRequests
  Modes = {"off", "jwks", "dev"}
  Keys = {k1, k2}
  NoKid = NoKid
  BucketKeys = {desk}
  RATE_LIMIT_REQUESTS = 1
  RATE_LIMIT_WINDOW_S = 1
  JWKS_CACHE_SECONDS = 1
  MaxBucket = 2
  MaxRuns = 2
INVARIANTS TypeOK RateBound OnlyAssessorsAssess
PROPERTIES KeysFresh RotationLag ReportsServed
VIEW View
SYMMETRY SlotSym
CHECK_DEADLOCK FALSE
