\* The texts Convert writes, run in Oracle on sample tables, against the
\* source statements run in PostgreSQL.
CONSTANTS
  Stmts <- ExecutedStmts
  Values <- MCValues
SPECIFICATION Spec
INVARIANT ExecutionAgrees
\* Convert is one call that returns: every behaviour ends in done or error.
CHECK_DEADLOCK FALSE
