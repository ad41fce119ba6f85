CONSTANTS
  c1 = c1
  c2 = c2
  a1 = a1
  a2 = a2
  s1 = s1
  s2 = s2
  NoArgs = NoArgs
  Cursors <- TwoCursors
  MaxCursors = 2
  Args <- TwoArgs
  Statements <- TwoStmts
  Kinds = {"query", "dml", "plsql"}
  Faults <- ParseFaults
  ClientCalls <- OpenCalls
SPECIFICATION Spec
INVARIANTS TypeOK HandlesValid NoLostSlot StillTruth RanWithArgs OpenedHasRun ModesAsAsked
