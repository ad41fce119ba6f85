SPECIFICATION Spec
CONSTANTS
  MaxLong = 3
  MaxLength = 10
  Faults = {"fwrite"}
  Busy = {"length", "write", "close", "read"}
PROPERTY TransferSpec
CHECK_DEADLOCK FALSE
