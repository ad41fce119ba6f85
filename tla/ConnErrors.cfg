CONSTANTS
  t1 = t1
  t2 = t2
  t3 = t3
  NoThread = NoThread
  Threads <- TwoThreads
  MaxDb = 1
  Faults <- ErrorPaths
  OwnerChecked = TRUE
  ClientCalls <- ErrorCalls
SPECIFICATION Spec
INVARIANTS Exclusion HeldInSection
PROPERTIES LocksReleased
