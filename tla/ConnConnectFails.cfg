CONSTANTS
  t1 = t1
  t2 = t2
  t3 = t3
  NoThread = NoThread
  Threads <- TwoThreads
  MaxDb = 2
  Faults <- LinkFaults
  OwnerChecked = TRUE
  ClientCalls <- ConnectFinish
SPECIFICATION Spec
INVARIANT OwnUse
