\* INSERT ... SELECT from another table.
CONSTANTS
  Stmts <- InsertSelects
  Values <- MCValues
SPECIFICATION Spec
INVARIANT InsertTargetKept
CHECK_DEADLOCK FALSE
