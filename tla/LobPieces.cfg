SPECIFICATION Spec
CONSTANTS
  MaxLong = 3
  MaxLength = 10
  Faults = {"alloc", "length", "open", "write", "close", "read", "info"}
  Busy = {"length", "write", "close", "read"}
INVARIANTS PollsOneCall ClosedAfterSuccess
PROPERTIES TransferSpec Returns
CHECK_DEADLOCK FALSE
