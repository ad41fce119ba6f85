CONSTANTS
  c1 = c1
  c2 = c2
  a1 = a1
  a2 = a2
  s1 = s1
  s2 = s2
  NoArgs = NoArgs
  Cursors <- TwoCursors
  MaxCursors = 2
  Args <- OneArg
  Statements <- TwoStmts
  Kinds = {"query"}
  Faults = {}
  ClientCalls = {"open2", "result", "close", "blocking", "break"}
SPECIFICATION Spec
INVARIANT HandlesValid
