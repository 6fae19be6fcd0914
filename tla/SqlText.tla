------------------------------ MODULE SqlText ------------------------------
(***************************************************************************)
(* The statements the converter reads and the texts it writes, as values.  *)
(* A text keeps what the properties tell apart (which clause, which        *)
(* columns and values, in which order, with which separators) and leaves   *)
(* out spelling and layout.                                                *)
(***************************************************************************)
EXTENDS Sequences, SequencesExt, SelectConvert

-----------------------------------------------------------------------------
(* Parsed statements.                                                      *)

\* The NULL literal of the parser (parser.DNull).
Null == "NULL"

\* ON CONFLICT absent: the parser leaves Insert.OnConflict nil.
NilConflict == [kind |-> "nil"]

Conflict(cols, doNothing, set) ==
  [kind |-> "conflict", cols |-> cols, doNothing |-> doNothing, set |-> set]

(***************************************************************************)
(* An UPDATE assignment: single  c = v,  tuple  (c1, c2) = (v1, v2),  or   *)
(* tuple  (c1, c2) = (SELECT ...)  whose right side is no list of values.  *)
(* A name is the parts of its UnresolvedName.                              *)
(***************************************************************************)
Single(c, v) == [tuple |-> FALSE, names |-> <<c>>, rhs |-> <<v>>, subquery |-> FALSE]
Tuple(cs, rhs) == [tuple |-> TRUE, names |-> cs, rhs |-> rhs, subquery |-> FALSE]
TupleSubquery(cs) == [tuple |-> TRUE, names |-> cs, rhs |-> <<>>, subquery |-> TRUE]

\* The rows of an INSERT: VALUES tuples, or SELECT cols FROM from.
ValuesRows(tuples) == [values |-> tuples]
SelectRows(cols, from) == [select |-> cols, from |-> from]

IsValues(rows) == "values" \in DOMAIN rows

(***************************************************************************)
(* count is the number of statements parser.Parse returned; where is the   *)
(* *parser.Where of an UPDATE or DELETE (NoWhere or WhereN(e) of the       *)
(* module SelectConvert); returning is "absent", "nothing", "cols"         *)
(* (RETURNING of plain columns) or "excluded" (RETURNING that reads the    *)
(* excluded pseudo-row).                                                   *)
(***************************************************************************)
Stmt(kind, count, table, cols, rows, conflict, set, where, returning) ==
  [kind |-> kind, count |-> count, table |-> table, cols |-> cols,
   rows |-> rows, conflict |-> conflict, set |-> set, where |-> where,
   returning |-> returning]

\* A SELECT statement: rows carries the *parser.Select (module SelectConvert).
SelectStmt(count, slt) ==
  Stmt("select", count, "", <<>>, slt, NilConflict, <<>>, NoWhere, "absent")

-----------------------------------------------------------------------------
(* Resolved values and written texts.                                      *)

(***************************************************************************)
(* getValueFromExpr of a VALUES literal: a string literal becomes a Go     *)
(* string, written quoted by getDisplayValue (Q); NULL is none of the      *)
(* listed node kinds and becomes the fragment Expr("NULL").                *)
(***************************************************************************)
\* Mutant: NULL written as the string literal 'NULL'.
ResolveQuoted(v) == <<"lit", v>>

Resolve(v) == IF v = Null THEN <<"frag", v>> ELSE <<"lit", v>>

\* A list item, a comma, and the AND of a conjunction.
Item(x) == <<"item", x>>
Comma   == <<",">>
AndSep  == <<"AND">>

(***************************************************************************)
(* A list written by a loop over items that writes sep after the k-th item *)
(* unless k is last, the index the loop compares with.                     *)
(***************************************************************************)
JoinUpTo(items, sep, last) ==
  FlattenSeq([k \in 1..Len(items) |->
                <<Item(items[k])>> \o (IF k # last THEN <<sep>> ELSE <<>>)])

Join(items, sep) == JoinUpTo(items, sep, Len(items))

\* The text the converter returns when there is none to return.
NoText == [kind |-> "none"]

InsertText(table, cols, vals) ==
  [kind |-> "insert", table |-> table, cols |-> cols, vals |-> vals]

InsertSelectText(table, cols, select) ==
  [kind |-> "insertSelect", table |-> table, cols |-> cols, select |-> select]

DeleteText(table, where) == [kind |-> "delete", table |-> table, where |-> where]

\* set is a function from column to value: the builder writes Eq sorted.
UpdateText(table, set, where) ==
  [kind |-> "update", table |-> table, set |-> set, where |-> where]

\* A SELECT as the structure the builder renders (SelectConvert's Render).
SelectStmtText(b) == [kind |-> "selectStmt", b |-> b]

SelectText(cols, from, where) ==
  [kind |-> "select", cols |-> cols, from |-> from, where |-> where]

(***************************************************************************)
(* onConflictTemplateStr: MERGE INTO table t USING (select using FROM      *)
(* DUAL) s ON (on) [WHEN MATCHED THEN UPDATE SET update] WHEN NOT MATCHED  *)
(* THEN INSERT (insCols) VALUES(insVals).                                  *)
(***************************************************************************)
MergeText(table, using, on, doNothing, update, insCols, insVals) ==
  [kind |-> "merge", table |-> table, using |-> using, on |-> on,
   matched |-> ~doNothing, update |-> update, insCols |-> insCols,
   insVals |-> insVals]

\* The RETURNING emulation: [Savepoint a;] base; select [; commit;]
ScriptText(inTx, base, select) ==
  [kind |-> "script", savepoint |-> ~inTx, base |-> base, select |-> select,
   commit |-> ~inTx]

\* Predicates of the follow-up select of an upsert's RETURNING.
EqPred(c, v)  == <<"eq", c, v>>
IsNullPred(c) == <<"isnull", c>>
=============================================================================
