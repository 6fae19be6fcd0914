\* Convert and ToBoundSQL against ConvertSpec on statements they agree on,
\* and what a converted SELECT computes.
CONSTANTS
  Stmts <- AgreedStmts
  Values <- MCValues
SPECIFICATION Spec
INVARIANT TypeOK
INVARIANT SetOperationMeaning
INVARIANT PrecedenceKept
 
\* Convert is one call that returns: every behaviour ends in done or error.
CHECK_DEADLOCK FALSE
