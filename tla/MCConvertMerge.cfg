\* The MERGE of an upsert keyed on one inserted column, run in Oracle (spec.md 1 and 4.5).
CONSTANTS
  Stmts <- MergeUpserts
  Values <- MCValues
SPECIFICATION Spec
INVARIANT ExecutionAgrees
CHECK_DEADLOCK FALSE
