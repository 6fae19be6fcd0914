\* EXCEPT converted with its operands rendered right first.
CONSTANTS
  Stmts <- ExceptSelects
  Values <- MCValues
SPECIFICATION Spec
INVARIANT SetOperationMeaning
CHECK_DEADLOCK FALSE
