\* Projections whose parentheses change the value of the arithmetic.
CONSTANTS
  Stmts <- ParenArithSelects
  Values <- MCValues
SPECIFICATION Spec
INVARIANT PrecedenceKept
CHECK_DEADLOCK FALSE
