----------------------------- MODULE ConvertSpec -----------------------------
(***************************************************************************)
(* What converting one SELECT, INSERT, UPDATE or DELETE statement promises *)
(* (spec.md 3, 4.4, 4.5, 4.6 and 7), as one step from the parsed statement *)
(* to its outcome: the target text, or a failure with no text.             *)
(***************************************************************************)
EXTENDS Integers, Sequences, SqlText, SelectSpec

CONSTANTS Stmts  \* the parsed statements given to the conversion

VARIABLES stmt, inTx, result

None    == {}
Failed  == <<"error">>
Ok(t)   == <<"ok", t>>

\* The projection of RETURNING of plain columns.
ReturnCols == <<"id">>

\* spec.md 4.3: the WHERE lowered by the predicate translator, when there is one.
WhereOK(s) == s.where = NoWhere \/ ~Bad(RefCond(s.where.e))
WherePreds(s) == IF s.where = NoWhere THEN {} ELSE {RefCond(s.where.e).v}

\* The SET list of an UPDATE or ON CONFLICT DO UPDATE, in source order.
Assignments(set) ==
  FlattenSeq([i \in 1..Len(set) |->
                [j \in 1..Len(set[i].names) |->
                   <<RefName(set[i].names[j]).v, Resolve(set[i].rhs[j])>>]])

\* Every tuple assignment has a list of values, one per name, and every
\* name is a column name (spec.md 4.2.2 and 7).
SetSupported(set) ==
  \A i \in 1..Len(set) :
    /\ ~set[i].subquery /\ Len(set[i].rhs) = Len(set[i].names)
    /\ \A j \in 1..Len(set[i].names) : ~Bad(RefName(set[i].names[j]))

\* The assignments as the column-to-value function the builder writes.
SetFunction(set) ==
  LET as == Assignments(set)
  IN  [c \in {as[i][1] : i \in 1..Len(as)} |->
         as[Max({i \in 1..Len(as) : as[i][1] = c})][2]]

-----------------------------------------------------------------------------
(* INSERT: one VALUES row with one value per column (spec.md 3 and 4.4).   *)

InsertRowOK(s) ==
  /\ IsValues(s.rows)
  /\ Len(s.rows.values) = 1
  /\ Len(s.rows.values[1]) = Len(s.cols)

\* spec.md 4.2.2: an insert column is written as a quoted identifier.
SpecColumns(s) == [k \in 1..Len(s.cols) |-> RefName(<<s.cols[k]>>).v]

RowVal(s, c) ==
  Resolve(s.rows.values[1][CHOOSE k \in 1..Len(s.cols) : s.cols[k] = c])

\* spec.md 4.5: the conflict target is a non-empty subset of the columns.
ConflictOK(s) ==
  \/ s.conflict = NilConflict
  \/ /\ s.conflict.cols # <<>>
     /\ \A i \in 1..Len(s.conflict.cols) : Contains(s.cols, s.conflict.cols[i])
     /\ SetSupported(s.conflict.set)

(***************************************************************************)
(* spec.md 4.5: USING aliases each value to its insert column, INSERT      *)
(* lists those columns; the ON clause names the conflict columns as        *)
(* scenario 4 of spec.md 8 writes them, bare.                              *)
(***************************************************************************)
SpecMerge(s) ==
  MergeText(s.table,
            Join([k \in 1..Len(s.cols) |-> <<Resolve(s.rows.values[1][k]), SpecColumns(s)[k]>>], Comma),
            Join([i \in 1..Len(s.conflict.cols) |-> NameText(<<s.conflict.cols[i]>>)], AndSep),
            s.conflict.doNothing,
            Join(Assignments(s.conflict.set), Comma),
            SpecColumns(s),
            Join([k \in 1..Len(s.cols) |-> <<"s", SpecColumns(s)[k]>>], Comma))

InsertBase(s) ==
  IF s.conflict = NilConflict
    THEN InsertText(s.table, SpecColumns(s), [k \in 1..Len(s.cols) |-> Resolve(s.rows.values[1][k])])
    ELSE SpecMerge(s)

\* spec.md 4.6: the follow-up select of an upsert, keyed on the conflict columns.
InsertReturningSelect(s) ==
  SelectText(ReturnCols, s.table,
             {IF RowVal(s, c) = Resolve(Null) THEN IsNullPred(c) ELSE EqPred(c, RowVal(s, c)) :
                c \in ToSet(s.conflict.cols)})

-----------------------------------------------------------------------------
(* The outcome of each statement kind.                                     *)

\* spec.md 4.6: savepoint and commit framing unless already in a transaction.
WithReturning(base, select) == ScriptText(inTx, base, select)

\* An INSERT ... SELECT writes the rows the select gives into the target.
InsertSelectOutcome(s) ==
  IF s.conflict = NilConflict /\ s.returning \in {"absent", "nothing"}
    THEN Ok(InsertSelectText(s.table, SpecColumns(s), s.rows.select))
    ELSE Failed

InsertOutcome(s) ==
  CASE ~IsValues(s.rows)                                  -> InsertSelectOutcome(s)
    [] ~InsertRowOK(s) \/ ~ConflictOK(s)                 -> Failed
    [] s.returning \in {"absent", "nothing"}             -> Ok(InsertBase(s))
    [] s.returning = "excluded" \/ s.conflict = NilConflict -> Failed
    [] OTHER -> Ok(WithReturning(InsertBase(s), InsertReturningSelect(s)))

UpdateOutcome(s) ==
  LET base == UpdateText(s.table, SetFunction(s.set), WherePreds(s))
  IN  CASE ~SetSupported(s.set) \/ ~WhereOK(s) -> Failed
        [] s.returning \in {"absent", "nothing"}          -> Ok(base)
        [] s.returning = "excluded"                       -> Failed
        [] OTHER -> Ok(WithReturning(base, SelectText(ReturnCols, s.table, WherePreds(s))))

\* spec.md 4.4: DELETE converts its WHERE; RETURNING on DELETE is refused.
DeleteOutcome(s) ==
  IF ~WhereOK(s) \/ s.returning # "absent"
    THEN Failed
    ELSE Ok(DeleteText(s.table, WherePreds(s)))

\* spec.md 4.4: a SELECT is the builder structure SelectSpec gives.
SelectOutcome(s) ==
  LET r == RefSelect(s.rows)
  IN  IF Bad(r) THEN Failed ELSE Ok(SelectStmtText(r.v))

\* spec.md 7: exactly one statement is converted.
Outcome(s) ==
  CASE s.count # 1         -> Failed
    [] s.kind = "select"   -> SelectOutcome(s)
    [] s.kind = "insert"   -> InsertOutcome(s)
    [] s.kind = "update"   -> UpdateOutcome(s)
    [] OTHER               -> DeleteOutcome(s)

-----------------------------------------------------------------------------
Init == /\ stmt \in Stmts
        /\ inTx \in BOOLEAN
        /\ result = None

Convert == /\ result = None
           /\ result' = {Outcome(stmt)}
           /\ UNCHANGED <<stmt, inTx>>

\* A conversion always returns, with its text or its failure.
Spec == Init /\ [][Convert]_<<stmt, inTx, result>> /\ WF_<<stmt, inTx, result>>(Convert)
=============================================================================
