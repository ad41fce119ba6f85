SPECIFICATION Spec
CONSTANTS
  Threads = {t1, t2}
  First = t1
  t1 = t1
  t2 = t2
  Alone = FALSE
  Requests <- OneRequest
  MaxCalls = 2
  Faults = {}
  Again = FALSE
INVARIANT OneTable
CHECK_DEADLOCK FALSE
