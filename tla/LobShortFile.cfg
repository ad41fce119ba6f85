SPECIFICATION Spec
CONSTANTS
  MaxLong = 3
  MaxLength = 10
  Faults = {"short"}
  Busy = {"length", "write", "close", "read"}
INVARIANT IoErrorReported
CHECK_DEADLOCK FALSE
