SPECIFICATION Spec
CONSTANTS
  t1 = t1
  t2 = t2
  e1 = e1
  e2 = e2
  e3 = e3
  NoThread = NoThread
  Threads = {t1}
  Events = {e1, e2}
  SplitEvents = {e2}
  MaxSessions = 1
  MaxRecords = 3
  MaxFaults = 0
  MaxEdits = 0
INVARIANTS RecordedReloads
CHECK_DEADLOCK FALSE
