SPECIFICATION Spec
CONSTANTS
  MaxLong = 3
  MaxLength = 10
  Faults = {}
  Busy = {"length", "write", "close", "read", "open"}
INVARIANT PollsOneCall
CHECK_DEADLOCK FALSE
