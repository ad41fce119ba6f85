SPECIFICATION Spec
CONSTANTS
  Threads = {t1}
  First = t1
  t1 = t1
  Alone = TRUE
  Requests <- OneRequest
  MaxCalls = 5
  Faults = {}
  Again = TRUE
INVARIANT FilesReachable
CHECK_DEADLOCK FALSE
