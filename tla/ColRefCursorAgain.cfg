SPECIFICATION Spec
CONSTANTS
  MaxPos = 2
  MinVec = 1
  MinBuf = 2
  MaxLong = 4
  Unsupported = 9
  Lists <- MCLists
  Faults <- HarmlessFaults
  AnyOrder = FALSE
  Mixed = FALSE
  Retried = TRUE
INVARIANT OpenIsComplete
