SPECIFICATION Spec
CONSTANTS
  Threads = {t1, t2}
  First = t1
  t1 = t1
  t2 = t2
  Alone = TRUE
  Requests <- Limits
  MaxCalls = 4
  Faults <- Unlocking
  Again = FALSE
INVARIANTS TableCovers HandlesFit TableMutexKept InitMutexFree FilesReachable
PROPERTY CallsReturn
CHECK_DEADLOCK FALSE
