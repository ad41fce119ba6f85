CONSTANTS
  c1 = c1
  c2 = c2
  a1 = a1
  a2 = a2
  s1 = s1
  s2 = s2
  NoArgs = NoArgs
  Cursors <- TwoCursors
  MaxCursors = 2
  Args <- OneArg
  Statements <- TwoStmts
  Kinds = {"query", "dml", "plsql"}
  Faults <- FreeFaults
  ClientCalls <- LifeCalls
SPECIFICATION Spec
INVARIANTS NoLostSlot FreeHoldsNothing
