SPECIFICATION Spec
CONSTANTS
  Threads = {t1}
  First = t1
  t1 = t1
  Alone = TRUE
  Requests <- OneRequest
  MaxCalls = 3
  Faults = {"initialize"}
  Again = FALSE
PROPERTY CallsReturn
CHECK_DEADLOCK FALSE
