CONSTANTS
  t1 = t1
  t2 = t2
  t3 = t3
  NoThread = NoThread
  Threads <- OneThread
  MaxDb = 2
  Faults <- OciFaults
  OwnerChecked = FALSE
  ClientCalls <- SingleCalls
SPECIFICATION Spec
INVARIANTS SlotsAccounted FreeIsClean ViewTrue
PROPERTIES CallsReturn
