CONSTANTS
  t1 = t1
  t2 = t2
  t3 = t3
  NoThread = NoThread
  Threads <- OneThread
  MaxDb = 1
  Faults <- NoFaults
  OwnerChecked = TRUE
  ClientCalls <- EarlyFinish
SPECIFICATION Spec
INVARIANT FinishGivesBack
