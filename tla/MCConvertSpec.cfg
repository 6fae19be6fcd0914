\* Statements the code converts other than ConvertSpec says: DELETE without
\* RETURNING; upserts on two conflict columns, on a column not inserted,
\* updating two columns, or keyed on NULL (spec.md 4.6, 7 and 8); selects
\* with ORDER BY with a direction, on a qualified key or on a union, a union
\* whose left operand has an alias or a JOIN, FULL JOIN, HAVING, GROUP BY of
\* two keys, extract from a column (spec.md 4.2.1, 4.4, 4.4.1, 4.4.2 and 8).
CONSTANTS
  Stmts <- SpecDivergences
  Values <- MCValues
SPECIFICATION Spec
INVARIANT MatchesSpec
CHECK_DEADLOCK FALSE
