\* INSERT ... RETURNING without ON CONFLICT; LIMIT $1, LIMIT ALL, OFFSET
\* without LIMIT, now() and a JSON operator: refused, never a panic
\* (spec.md 4.2, 4.4, 4.6 and 7).
CONSTANTS
  Stmts <- PanickingStmts
  Values <- MCValues
SPECIFICATION Spec
INVARIANT NoPanic
CHECK_DEADLOCK FALSE
