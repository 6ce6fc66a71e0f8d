SPECIFICATION Spec
CONSTANTS
  t1 = t1
  t2 = t2
  e1 = e1
  e2 = e2
  e3 = e3
  NoThread = NoThread
  Threads = {t1, t2}
  Events = {e1, e2, e3}
  SplitEvents = {e3}
  MaxSessions = 2
  MaxRecords = 3
  MaxFaults = 1
  MaxEdits = 1
INVARIANTS MemoryVerifies FileFollowsMemory CrashedFileVerifies MiddleEditEvident SessionsStayChained
SYMMETRY RecordSym
CHECK_DEADLOCK FALSE
