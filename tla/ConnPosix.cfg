CONSTANTS
  t1 = t1
  t2 = t2
  t3 = t3
  NoThread = NoThread
  Threads <- TwoThreads
  MaxDb = 2
  Faults <- NoFaults
  OwnerChecked = FALSE
  ClientCalls <- AllCalls
SPECIFICATION Spec
INVARIANTS Exclusion OwnUse
PROPERTIES PoolSpec
