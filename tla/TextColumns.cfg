SPECIFICATION Spec
CONSTANTS
  Columns <- MCColumns
  MaxLong = 4
  Truncates = TRUE
INVARIANTS EveryValueFits ValueAsFetched
CHECK_DEADLOCK FALSE
