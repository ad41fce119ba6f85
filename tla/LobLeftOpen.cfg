SPECIFICATION Spec
CONSTANTS
  MaxLong = 3
  MaxLength = 10
  Faults = {"write"}
  Busy = {"length", "write", "close", "read"}
INVARIANT ClosedAfterwards
CHECK_DEADLOCK FALSE
