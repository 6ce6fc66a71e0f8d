SPECIFICATION Spec
CONSTANTS
  t1 = t1
  t2 = t2
  e1 = e1
  e2 = e2
  e3 = e3
  NoThread = NoThread
  Threads = {t1}
  Events = {e1, e2}
  SplitEvents = {}
  MaxSessions = 2
  MaxRecords = 2
  MaxFaults = 0
  MaxEdits = 0
INVARIANTS UneditedNeverTampered
CHECK_DEADLOCK FALSE
