\* RETURNING of an UPDATE that changes its WHERE column (spec.md 1 and 4.6).
CONSTANTS
  Stmts <- ReturningDivergences
  Values <- MCValues
SPECIFICATION Spec
INVARIANT ExecutionAgrees
CHECK_DEADLOCK FALSE
