SPECIFICATION Spec
CONSTANTS
  Threads = {t1, t2}
  First = t1
  t1 = t1
  t2 = t2
  Alone = TRUE
  Requests <- OneRequest
  MaxCalls = 3
  Faults = {}
  Again = FALSE
INVARIANT NamesUnique
CHECK_DEADLOCK FALSE
