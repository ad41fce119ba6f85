CONSTANTS
  t1 = t1
  t2 = t2
  t3 = t3
  NoThread = NoThread
  Threads <- TwoThreads
  MaxDb = 2
  Faults <- CommitFaults
  OwnerChecked = FALSE
  ClientCalls <- EasyCalls
SPECIFICATION Spec
INVARIANT Exclusion
