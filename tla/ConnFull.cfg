CONSTANTS
  t1 = t1
  t2 = t2
  t3 = t3
  NoThread = NoThread
  Threads <- ThreeThreads
  MaxDb = 2
  Faults <- LockTimeouts
  OwnerChecked = TRUE
  ClientCalls <- AllCalls
SPECIFICATION Spec
SYMMETRY Symmetry
INVARIANTS TypeOK OwnUse
PROPERTIES PoolSpec
