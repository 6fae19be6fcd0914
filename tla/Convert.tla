------------------------------- MODULE Convert -------------------------------
(***************************************************************************)
(* CustomBuilder.Convert for SELECT, INSERT, UPDATE and DELETE, then       *)
(* ToBoundSQL                                                              *)
(* (pkg/builder/extra_convert.go, extra_insert.go, extra_update.go,        *)
(* extra_delete.go, extra_builder.go, extra_select.go, extra_common.go).   *)
(* The variables are the fields of the CustomBuilder (and of its embedded  *)
(* Builder) that the conversion writes; each action is one of the convert  *)
(* functions Convert calls, in the order it calls them.  The placeholder   *)
(* passes are the module Placeholder; the statements here carry no         *)
(* markers, so both passes leave their text as it is.                     *)
(***************************************************************************)
EXTENDS Integers, Sequences, FiniteSets, SqlSemantics

CONSTANTS
  Stmts,   \* the parsed statements given to Convert
  Values   \* the literal values they contain

VARIABLES
  stmt,        \* the parsed statement (stmts[0])
  inTx,        \* cb.InTx, set by the caller before Convert
  pc,          \* the convert function running, or how Convert ended
  optype,      \* cb.optype
  into,        \* cb.into, the INSERT target
  from,        \* cb.from
  insertCols,  \* cb.insertCols
  insertVals,  \* cb.insertVals
  onConflict,  \* cb.OnConflict
  params,      \* cb.onConflictOracleParams
  customSql,   \* cb.CustomSqlStr
  cond,        \* cb.cond, the WHERE predicates
  updates,     \* the Eq given to cb.Update
  selects,     \* cb.selects, the projection given to cb.Select
  selb,        \* the builder a SELECT's conversion leaves (SelectConvert)
  output       \* the text ToBoundSQL returned

vars == <<stmt, inTx, pc, optype, into, from, insertCols, insertVals,
          onConflict, params, customSql, cond, updates, selects, selb, output>>

NoTable  == ""
NoParams == [set |-> FALSE]

\* The projection convertSelectExpr makes of RETURNING of plain columns.
ReturnCols == <<"id">>

Phases == {"convert", "select", "insert", "onConflict", "returning", "update", "delete",
           "render", "done", "error", "panic"}

Finished == pc \in {"done", "error", "panic"}

-----------------------------------------------------------------------------
(***************************************************************************)
(* generateUpdateExpr: the SET list as a Go map from column to value.  A   *)
(* single assignment with other than one name is refused; a tuple          *)
(* assignment indexes the right side's Tuple.Exprs by the name's position, *)
(* which panics when the right side is no Tuple (a sub-select) or has      *)
(* fewer values.  The column is convertUnresolvedName of the name, whose   *)
(* error is dropped: a name it refuses is the empty column.  A later       *)
(* assignment to a column replaces an earlier one.                         *)
(***************************************************************************)
UpdateExprStatus(set) ==
  CASE \E i \in 1..Len(set) : ~set[i].tuple /\ Len(set[i].names) # 1 -> "error"
    [] \E i \in 1..Len(set) :
         set[i].tuple /\ (set[i].subquery \/ Len(set[i].rhs) < Len(set[i].names)) -> "panic"
    [] OTHER -> "ok"

ColumnKey(parts) ==
  LET n == ConvertUnresolvedName(parts) IN IF Bad(n) THEN <<>> ELSE n.v

GenerateUpdateExpr(set) ==
  LET as == FlattenSeq([i \in 1..Len(set) |->
                          [j \in 1..Len(set[i].names) |->
                             <<ColumnKey(set[i].names[j]), Resolve(set[i].rhs[j])>>]])
  IN  [c \in {as[i][1] : i \in 1..Len(as)} |->
         as[Max({i \in 1..Len(as) : as[i][1] = c})][2]]

\* convertWhere on a fresh cond: the WHERE's condition, or its failure.
WhereResult(s) == ConvertWhere(NewBuilder(s.kind), s.where)

InsertColumn(c) == ConvertUnresolvedName(<<c>>).v

(***************************************************************************)
(* getInsertValuesByCols: the map is keyed by insertCols, the quoted       *)
(* columns, and read with string(v) of each conflict column, its bare      *)
(* text; a column is found only when the two spell the same.               *)
(***************************************************************************)
InsertValuesByColsOK == \A c \in ToSet(onConflict.cols) : Contains(insertCols, NameText(<<c>>))

\* The builder's own rendering (Builder.ToBoundSQL, outside src/).
BuilderText ==
  CASE optype = "select" -> SelectStmtText(Render(selb))
    [] optype = "insert" /\ selects # <<>> -> InsertSelectText(into, insertCols, selects)
    [] optype = "insert" -> InsertText(into, insertCols, insertVals)
    [] optype = "update" -> UpdateText(from, updates, cond)
    [] OTHER             -> DeleteText(from, cond)

(***************************************************************************)
(* The parser never leaves a statement's Returning nil: a statement        *)
(* without RETURNING carries a NoReturningClause, the type convertReturning *)
(* tests for first.                                                        *)
(***************************************************************************)
ReturningIsNil(r) == FALSE

\* cb.cond after convertWhere, and the step that follows in convertUpdate.
UpdateWhere(w) == IF Bad(w) THEN <<{}, w.st>> ELSE <<ToSet(w.v.conds), "returning">>

\* cb.cond after convertWhere, and the Returning check of convertDelete.
DeleteWhere(w, s) ==
  CASE Bad(w)                        -> <<{}, w.st>>
    [] ~ReturningIsNil(s.returning)  -> <<ToSet(w.v.conds), "error">>
    [] OTHER                         -> <<ToSet(w.v.conds), "render">>

-----------------------------------------------------------------------------
Init ==
  /\ stmt \in Stmts
  /\ inTx \in BOOLEAN
  /\ pc = "convert"
  /\ optype = "none"
  /\ into = NoTable
  /\ from = NoTable
  /\ insertCols = <<>>
  /\ insertVals = <<>>
  /\ onConflict = NilConflict
  /\ params = NoParams
  /\ customSql = NoText
  /\ cond = {}
  /\ updates = <<>>
  /\ selects = <<>>
  /\ selb = NewBuilder("none")
  /\ output = NoText

(***************************************************************************)
(* Convert after the parse: more than one statement is refused, none at    *)
(* all panics on stmts[0]; the statement kind sets optype (and, for an     *)
(* INSERT, cb.OnConflict) and picks the convert function.                  *)
(***************************************************************************)
ConvertDispatch ==
  /\ pc = "convert"
  /\ CASE stmt.count = 0 -> /\ pc' = "panic"
                            /\ UNCHANGED <<optype, onConflict>>
       [] stmt.count > 1 -> /\ pc' = "error"
                            /\ UNCHANGED <<optype, onConflict>>
       [] OTHER          -> /\ pc' = stmt.kind
                            /\ optype' = stmt.kind
                            /\ onConflict' = IF stmt.kind = "insert"
                                               THEN stmt.conflict ELSE onConflict
  /\ UNCHANGED <<stmt, inTx, into, from, insertCols, insertVals, params,
                 customSql, cond, updates, selects, selb, output>>

(***************************************************************************)
(* convertInsert: convertTable sets the target, the column names are       *)
(* collected, and convertSelect converts the rows.  A VALUES clause must   *)
(* have exactly one tuple, whose values are resolved in order.  A SELECT   *)
(* is converted in the same builder: its FROM table goes through           *)
(* convertTable, which for an insert calls cb.Into again.  Then Convert    *)
(* calls convertOnConflict when there is an ON CONFLICT clause.            *)
(***************************************************************************)
ConvertInsert ==
  /\ pc = "insert"
  /\ insertCols' = [k \in 1..Len(stmt.cols) |-> InsertColumn(stmt.cols[k])]
  /\ IF IsValues(stmt.rows)
       THEN /\ into' = stmt.table
            /\ UNCHANGED selects
            /\ IF Len(stmt.rows.values) # 1
                 THEN /\ pc' = "error"
                      /\ UNCHANGED insertVals
                 ELSE /\ insertVals' = [k \in 1..Len(stmt.rows.values[1]) |->
                                          Resolve(stmt.rows.values[1][k])]
                      /\ pc' = IF onConflict # NilConflict THEN "onConflict" ELSE "returning"
       ELSE /\ into' = stmt.rows.from
            /\ selects' = stmt.rows.select
            /\ UNCHANGED insertVals
            /\ pc' = IF onConflict # NilConflict THEN "onConflict" ELSE "returning"
  /\ UNCHANGED <<stmt, inTx, optype, from, onConflict, params, customSql, cond,
                 updates, selb, output>>

(***************************************************************************)
(* convertOnConflict, and Convert storing its result in CustomSqlStr.  The *)
(* params are stored before the conflict columns are checked.  The ON      *)
(* condition writes each conflict column bare and ", " between the        *)
(* equalities; the USING aliases and the INSERT list are the quoted        *)
(* insertCols.  The SET list is                                            *)
(* written in the iteration order of the Go map generateUpdateExpr built,  *)
(* which is unspecified.  The USING and VALUES lists run over insertCols,  *)
(* read insertVals[k] (out of range when there are fewer values) and write *)
(* ", " unless k is the last index of insertVals.                          *)
(***************************************************************************)
ConvertOnConflict ==
  /\ pc = "onConflict"
  /\ params' = [set |-> TRUE, table |-> into, doNothing |-> onConflict.doNothing]
  /\ LET status == UpdateExprStatus(onConflict.set)
         eq     == GenerateUpdateExpr(onConflict.set)
         last   == Len(insertVals)
     IN  CASE onConflict.cols = <<>>            -> /\ pc' = "error"
                                                    /\ UNCHANGED customSql
           [] status = "panic"                  -> /\ pc' = "panic"
                                                    /\ UNCHANGED customSql
           [] status = "error"                  -> /\ pc' = "error"
                                                    /\ UNCHANGED customSql
           [] Len(insertCols) > Len(insertVals) -> /\ pc' = "panic"
                                                    /\ UNCHANGED customSql
           [] OTHER ->
                \E order \in SetToSeqs(DOMAIN eq) :
                  /\ customSql' =
                       MergeText(into,
                                 JoinUpTo([k \in 1..Len(insertCols) |->
                                             <<insertVals[k], insertCols[k]>>], Comma, last),
                                 Join([i \in 1..Len(onConflict.cols) |->
                                         NameText(<<onConflict.cols[i]>>)], Comma),
                                 onConflict.doNothing,
                                 Join([i \in 1..Len(order) |-> <<order[i], eq[order[i]]>>], Comma),
                                 insertCols,
                                 JoinUpTo([k \in 1..Len(insertCols) |->
                                             <<"s", insertCols[k]>>], Comma, last))
                  /\ pc' = "returning"
  /\ UNCHANGED <<stmt, inTx, optype, into, from, insertCols, insertVals,
                 onConflict, cond, updates, selects, selb, output>>

(***************************************************************************)
(* convertReturning.  No RETURNING, or RETURNING NOTHING, leaves the       *)
(* statement alone.  For an INSERT it reads cb.OnConflict.Columns first    *)
(* (a nil OnConflict panics), then refuses an upsert without columns or    *)
(* params, or with a SELECT source.  The projection must not name the      *)
(* excluded row.  An INSERT then looks its conflict columns up in        *)
(* getInsertValuesByCols; an UPDATE's follow-up select is written.  The    *)
(* result frames the statement's text and the select with Savepoint and    *)
(* commit unless cb.InTx.                                                  *)
(***************************************************************************)
\* Mutant: the UPDATE's follow-up select drops the UPDATE's WHERE.
ReturningSelectAllRows == SelectText(ReturnCols, from, {})

(***************************************************************************)
(* The follow-up select of an UPDATE reads its FROM and WHERE.  The        *)
(* upsert's select, keyed on the conflict values, is never built: for an   *)
(* INSERT getInsertValuesByCols has already failed.                        *)
(***************************************************************************)
ReturningSelect == SelectText(ReturnCols, from, cond)

ConvertReturning ==
  /\ pc = "returning"
  /\ LET r     == stmt.returning
         isIns == optype = "insert"
     IN  CASE r \in {"absent", "nothing"}       -> /\ pc' = "render"
                                                    /\ UNCHANGED customSql
           [] isIns /\ onConflict = NilConflict -> /\ pc' = "panic"
                                                    /\ UNCHANGED customSql
           [] isIns /\ \/ onConflict.cols = <<>>
                       \/ params = NoParams
                       \/ selects # <<>>        -> /\ pc' = "error"
                                                    /\ UNCHANGED customSql
           [] r = "excluded"                    -> /\ pc' = "error"
                                                    /\ UNCHANGED customSql
           [] isIns /\ Len(insertCols) > Len(insertVals) ->
                                                   /\ pc' = "panic"
                                                   /\ UNCHANGED customSql
           [] isIns /\ ~InsertValuesByColsOK ->
                                                   /\ pc' = "error"
                                                   /\ UNCHANGED customSql
           [] OTHER ->
                /\ customSql' = ScriptText(inTx,
                                           IF customSql # NoText THEN customSql ELSE BuilderText,
                                           ReturningSelect)
                /\ pc' = "render"
  /\ UNCHANGED <<stmt, inTx, optype, into, from, insertCols, insertVals,
                 onConflict, params, cond, updates, selects, selb, output>>

(***************************************************************************)
(* convertSelect, on the builder Convert set to optype select: SelectConvert *)
(* gives the builder it leaves, or its error or panic.                     *)
(***************************************************************************)
ConvertSelectStmt ==
  /\ pc = "select"
  /\ LET r == ConvertSelect([selb EXCEPT !.optype = optype], stmt.rows)
     IN  IF Bad(r) THEN /\ pc' = r.st
                       /\ UNCHANGED selb
                  ELSE /\ selb' = r.v
                       /\ pc' = "render"
  /\ UNCHANGED <<stmt, inTx, optype, into, from, insertCols, insertVals, onConflict,
                 params, customSql, cond, updates, selects, output>>

(***************************************************************************)
(* convertUpdate: convertTable sets FROM, generateUpdateExpr builds the    *)
(* SET list given to cb.Update, cb.cond is reset and convertWhere adds the *)
(* WHERE; then convertReturning.                                           *)
(***************************************************************************)
ConvertUpdate ==
  /\ pc = "update"
  /\ from' = stmt.table
  /\ LET status == UpdateExprStatus(stmt.set)
     IN  IF status # "ok"
           THEN /\ pc' = status
                /\ UNCHANGED <<updates, cond>>
           ELSE /\ updates' = GenerateUpdateExpr(stmt.set)
                /\ LET r == UpdateWhere(WhereResult(stmt)) IN cond' = r[1] /\ pc' = r[2]
  /\ UNCHANGED <<stmt, inTx, optype, into, insertCols, insertVals, onConflict,
                 params, customSql, selects, selb, output>>

(***************************************************************************)
(* convertDelete: convertTable, convertWhere, then a Returning that is not *)
(* nil is refused.                                                         *)
(***************************************************************************)
ConvertDelete ==
  /\ pc = "delete"
  /\ from' = stmt.table
  /\ LET r == DeleteWhere(WhereResult(stmt), stmt) IN cond' = r[1] /\ pc' = r[2]
  /\ UNCHANGED <<stmt, inTx, optype, into, insertCols, insertVals, onConflict,
                 params, customSql, updates, selects, selb, output>>

\* ToBoundSQL after a successful Convert: CustomSqlStr if set, else the builder.
ToBoundSQL ==
  /\ pc = "render"
  /\ output' = IF customSql # NoText THEN customSql ELSE BuilderText
  /\ pc' = "done"
  /\ UNCHANGED <<stmt, inTx, optype, into, from, insertCols, insertVals,
                 onConflict, params, customSql, cond, updates, selects, selb>>

Next ==
  \/ ConvertDispatch
  \/ ConvertSelectStmt
  \/ ConvertInsert
  \/ ConvertOnConflict
  \/ ConvertReturning
  \/ ConvertUpdate
  \/ ConvertDelete
  \/ ToBoundSQL

\* Convert is a synchronous call: once it has started it runs on.
Spec == Init /\ [][Next]_vars /\ WF_vars(Next)

-----------------------------------------------------------------------------
\* getValueFromExpr: NULL becomes a fragment, any other literal a quoted string.
ResolvedValues == {<<"frag", Null>>} \cup {<<"lit", v>> : v \in Values \ {Null}}

TypeOK ==
  /\ stmt \in Stmts
  /\ inTx \in BOOLEAN
  /\ pc \in Phases
  /\ optype \in {"none", "select", "insert", "update", "delete"}
  /\ insertVals \in Seq(ResolvedValues)
  /\ params = NoParams \/ params.set
  /\ IsFiniteSet(cond) /\ Cardinality(cond) <= 1

\* The outcome of Convert and ToBoundSQL so far, in the terms of ConvertSpec.
Outcome ==
  CASE pc = "done"  -> {<<"ok", output>>}
    [] pc = "error" -> {<<"error">>}
    [] OTHER        -> {}

Abstract == INSTANCE ConvertSpec WITH result <- Outcome

MatchesSpec == Finished => Outcome = {Abstract!Outcome(stmt)}

(***************************************************************************)
(* Convert reports every refusal as an error and never panics (spec.md 7:  *)
(* failures are typed outcomes, propagated to the caller).                 *)
(***************************************************************************)
NoPanic == pc # "panic"

(***************************************************************************)
(* The INSERT target stays the statement's table through the whole        *)
(* conversion, whatever the rows are converted from (spec.md 3: a          *)
(* sub-statement never writes the parent's state).                         *)
(***************************************************************************)
InsertTargetKept == (optype = "insert" /\ into # NoTable) => into = stmt.table

-----------------------------------------------------------------------------
(***************************************************************************)
(* The rows a set operation over plain tables returns, under one database  *)
(* state in which UNION, INTERSECT and EXCEPT all give different rows and  *)
(* EXCEPT is not symmetric.                                                *)
(***************************************************************************)
SampleRows == ("t" :> {1, 2}) @@ ("u" :> {2, 3})

SetOpRows(op, a, b) ==
  CASE op = "UNION" -> a \cup b [] op = "INTERSECT" -> a \cap b [] OTHER -> a \ b

\* A select of a plain table, or a set operation of such selects.
RECURSIVE OverPlainTables(_)
OverPlainTables(slt) ==
  LET s == slt.body
  IN  CASE s.k = "union" -> OverPlainTables(s.left) /\ OverPlainTables(s.right)
        [] s.k = "clause" -> /\ s.from.set /\ Len(s.from.tables) = 1
                             /\ s.from.tables[1].k = "aliased"
                             /\ s.from.tables[1].e.k = "table"
                             /\ s.where = NoWhere
        [] OTHER -> FALSE

\* The rows the source statement selects.
RECURSIVE SourceRows(_)
SourceRows(slt) ==
  IF slt.body.k = "union"
    THEN SetOpRows(slt.body.type, SourceRows(slt.body.left), SourceRows(slt.body.right))
    ELSE SampleRows[slt.body.from.tables[1].e.parts[1]]

\* The rows the rendered statement selects: operands left to right.
RECURSIVE RenderedRows(_)
RenderedRows(b) ==
  IF "ops" \in DOMAIN b
    THEN LET f[i \in 1..Len(b.ops)] ==
               IF i = 1 THEN RenderedRows(b.ops[1].b)
               ELSE SetOpRows(b.ops[i].op, f[i - 1], RenderedRows(b.ops[i].b))
         IN  f[Len(b.ops)]
    ELSE SampleRows[b.from[2]]

(***************************************************************************)
(* A UNION, INTERSECT or EXCEPT the converter returns selects the rows the *)
(* source statement selects: convertUnion converts the right operand into *)
(* the builder and the left one into a new builder that it appends, so    *)
(* the rendered statement lists the operands in the other order (spec.md  *)
(* 8, scenario 6), which must not change what it returns.                 *)
(***************************************************************************)
SetOperationMeaning ==
  (pc = "done" /\ stmt.kind = "select" /\ OverPlainTables(stmt.rows))
    => RenderedRows(Render(selb)) = SourceRows(stmt.rows)

-----------------------------------------------------------------------------
(* Arithmetic in a projection, and the value of the text written for it.  *)

ArithOps == ("Plus" :> "+") @@ ("Minus" :> "-") @@ ("Mult" :> "*")

RECURSIVE IsArith(_)
IsArith(e) ==
  CASE e.k = "num"   -> e.txt \in IntTexts
    [] e.k = "paren" -> IsArith(e.e)
    [] e.k = "bin"   -> e.op \in DOMAIN ArithOps /\ IsArith(e.l) /\ IsArith(e.r)
    [] OTHER         -> FALSE

Apply(op, a, b) == CASE op = "+" -> a + b [] op = "-" -> a - b [] OTHER -> a * b

RECURSIVE EvalExpr(_)
EvalExpr(e) ==
  CASE e.k = "num"   -> CHOOSE n \in 0..9 : ToString(n) = e.txt
    [] e.k = "paren" -> EvalExpr(e.e)
    [] OTHER         -> Apply(ArithOps[e.op], EvalExpr(e.l), EvalExpr(e.r))

(***************************************************************************)
(* The value SQL gives a text of numbers, + - * and parentheses: split at  *)
(* the last + or - outside parentheses, else at the last *, else strip a  *)
(* pair of parentheses.                                                    *)
(***************************************************************************)
RECURSIVE EvalTokens(_)
EvalTokens(ts) ==
  LET depth(i) == Cardinality({j \in 1..(i - 1) : ts[j] = "("})
                  - Cardinality({j \in 1..(i - 1) : ts[j] = ")"})
      at(ops) == {i \in 1..Len(ts) : ts[i] \in ops /\ depth(i) = 0}
      split(i) == Apply(ts[i], EvalTokens(SubSeq(ts, 1, i - 1)),
                               EvalTokens(SubSeq(ts, i + 1, Len(ts))))
  IN  CASE at({"+", "-"}) # {} -> split(Max(at({"+", "-"})))
        [] at({"*"}) # {}      -> split(Max(at({"*"})))
        [] ts[1] = "("         -> EvalTokens(SubSeq(ts, 2, Len(ts) - 1))
        [] OTHER               -> CHOOSE n \in 0..9 : ToString(n) = ts[1]

(***************************************************************************)
(* A projection that is one arithmetic expression is written as a text    *)
(* that computes the same value: convertBinary writes "left op right" and *)
(* getValueFromExpr drops the parentheses of a ParenExpr.                  *)
(***************************************************************************)
PrecedenceKept ==
  LET items == stmt.rows.body.exprs
  IN  (/\ pc = "done" /\ stmt.kind = "select" /\ stmt.rows.body.k = "clause"
       /\ Len(items) = 1 /\ IsArith(items[1].e))
        => EvalTokens(selb.selects) = EvalExpr(items[1].e)

-----------------------------------------------------------------------------
(***************************************************************************)
(* The text Convert returns for an INSERT of VALUES or an UPDATE does in   *)
(* Oracle what the source statement does in PostgreSQL (spec.md 1:         *)
(* semantically equivalent): on each sample table both fail, or both leave *)
(* the same rows and return the same ids.  Oracle reads a bare identifier *)
(* in upper case and a quoted one as written, so the MERGE's bare s.a and  *)
(* its quoted alias "a" must agree; and the RETURNING script of            *)
(* convertReturning runs its follow-up SELECT after the statement, on the  *)
(* UPDATE's WHERE, which the update may have made false.                   *)
(***************************************************************************)
ExecutionAgrees ==
  (/\ pc = "done" /\ stmt.kind \in {"insert", "update"}
   /\ stmt.kind = "insert" => IsValues(stmt.rows))
    => \A db \in SampleTables : OraRun(output, db) = PgRun(stmt, db)
========================================================================
