SPECIFICATION Spec
CONSTANTS
  Columns <- MCColumns
  MaxLong = 4
  Truncates = FALSE
INVARIANTS TrailingBlanksStripped
CHECK_DEADLOCK FALSE
