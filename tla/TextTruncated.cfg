SPECIFICATION Spec
CONSTANTS
  Columns <- MCColumns
  MaxLong = 4
  Truncates = TRUE
INVARIANTS OnlyNullIsNull
CHECK_DEADLOCK FALSE
