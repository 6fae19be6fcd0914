---------------------------- MODULE SqlSemantics ----------------------------
(***************************************************************************)
(* What a statement does to a table, in PostgreSQL for the source          *)
(* statement and in Oracle for the text the converter writes: the rows     *)
(* left in the table and the ids a RETURNING (or the script's follow-up    *)
(* SELECT id) gives back, or a failure.  These are the databases' rules,   *)
(* not the converter's: the module Convert holds the converter to them.    *)
(*                                                                         *)
(* A table is a set of rows [id, a, b]; id is assigned on insert as the    *)
(* next integer.  Comparisons follow SQL: NULL equals nothing.  The        *)
(* conditions the sample statements use have no NOT, so reading UNKNOWN   *)
(* as false is exact.                                                      *)
(***************************************************************************)
EXTENDS Integers, FiniteSets, SqlText

Columns == {"a", "b"}

Row(id, a, b) == [id |-> id, a |-> a, b |-> b]

(***************************************************************************)
(* Tables with the columns a and b unique where not NULL (the constraint   *)
(* an ON CONFLICT target needs): empty, one row, two rows that each hold a *)
(* value the other lacks, and rows with NULLs.                             *)
(***************************************************************************)
SampleTables ==
  { {},
    {Row(1, "v1", "v2")},
    {Row(1, "v1", "v2"), Row(2, "v2", "v1")},
    {Row(1, "v1", Null), Row(2, Null, "v1")} }

NextId(db) == IF db = {} THEN 1 ELSE Max({r.id : r \in db}) + 1

Ids(rows) == {r.id : r \in rows}

Failure == [ok |-> FALSE]
Success(db, ret) == [ok |-> TRUE, db |-> db, ret |-> ret]

\* A row changed by a column-to-value function.
Assigned(r, f) == [c \in DOMAIN r |-> IF c \in DOMAIN f THEN f[c] ELSE r[c]]

\* A row's value in a column; a column the table lacks reads as NULL.
Cell(r, c) == IF c \in Columns THEN r[c] ELSE Null

\* Equality as SQL evaluates it: NULL on either side is not true.
SqlEq(x, y) == x # Null /\ y # Null /\ x = y

-----------------------------------------------------------------------------
(* PostgreSQL running the source statement.                                *)

\* A column of an UnresolvedName: one part names a column of the table.
PgColumn(parts) == IF Len(parts) = 1 /\ parts[1] \in Columns THEN parts[1] ELSE "?"

\* The value the left side of a comparison, a column name, has in a row.
PgLeft(e, r) == IF e.l.k = "name" THEN Cell(r, PgColumn(e.l.parts)) ELSE Null

\* The value of a literal of a comparison, "?" for one it does not compare.
PgLiteral(e) == CASE e.k = "str" -> e.s [] e.k = "null" -> Null [] OTHER -> "?"

RECURSIVE PgHolds(_, _)
PgHolds(e, r) ==
  CASE e.k = "and"   -> PgHolds(e.l, r) /\ PgHolds(e.r, r)
    [] e.k = "or"    -> PgHolds(e.l, r) \/ PgHolds(e.r, r)
    [] e.k = "paren" -> PgHolds(e.e, r)
    [] e.k = "cmp" /\ e.op = "=" -> SqlEq(PgLeft(e, r), PgLiteral(e.r))
    [] e.k = "cmp" /\ e.op = "<>" ->
         PgLeft(e, r) # Null /\ PgLiteral(e.r) # Null /\ PgLeft(e, r) # PgLiteral(e.r)
    [] e.k = "cmp" /\ e.op = "IS"     -> PgLeft(e, r) = Null
    [] e.k = "cmp" /\ e.op = "IS NOT" -> PgLeft(e, r) # Null
    [] OTHER -> FALSE

\* The rows a WHERE selects.
PgWhere(s, db) == IF s.where = NoWhere THEN db ELSE {r \in db : PgHolds(s.where.e, r)}

\* The SET list; a column assigned twice or no column of the table fails.
PgAssignments(set) ==
  FlattenSeq([i \in 1..Len(set) |->
                [j \in 1..Len(set[i].names) |-> <<PgColumn(set[i].names[j]), set[i].rhs[j]>>]])

PgSetOK(set) ==
  LET as == PgAssignments(set)
  IN  /\ \A i \in 1..Len(as) : as[i][1] \in Columns
      /\ \A i, j \in 1..Len(as) : i # j => as[i][1] # as[j][1]

\* The assigned values by column (PgSetOK leaves one assignment per column).
PgSetFunction(set) ==
  LET as == PgAssignments(set)
  IN  [c \in {as[i][1] : i \in 1..Len(as)} |-> as[CHOOSE i \in 1..Len(as) : as[i][1] = c][2]]

\* The inserted row: the listed columns take the values, the others NULL.
PgNewRow(s, db) ==
  [c \in {"id"} \cup Columns |->
     IF c = "id" THEN NextId(db)
     ELSE IF \E k \in 1..Len(s.cols) : s.cols[k] = c
            THEN s.rows.values[1][CHOOSE k \in 1..Len(s.cols) : s.cols[k] = c]
            ELSE Null]

\* RETURNING gives its rows only when the statement has one.
Returned(s, rows) == IF s.returning = "cols" THEN Ids(rows) ELSE {}

(***************************************************************************)
(* INSERT ... [ON CONFLICT (k) DO NOTHING | DO UPDATE SET ...]: the row    *)
(* conflicts with the rows equal to it on every conflict column (NULL      *)
(* never conflicts); DO NOTHING leaves them and returns no row, DO UPDATE  *)
(* updates them and returns them, else the row is inserted and returned.   *)
(***************************************************************************)
PgInsert(s, db) ==
  LET new  == PgNewRow(s, db)
      hits == IF s.conflict = NilConflict THEN {}
              ELSE {r \in db : \A i \in 1..Len(s.conflict.cols) :
                                 SqlEq(Cell(r, s.conflict.cols[i]), Cell(new, s.conflict.cols[i]))}
      upd  == {Assigned(r, PgSetFunction(s.conflict.set)) : r \in hits}
  IN  CASE Len(s.rows.values[1]) # Len(s.cols) -> Failure
        [] hits = {} -> Success(db \cup {new}, Returned(s, {new}))
        [] s.conflict.doNothing -> Success(db, {})
        [] ~PgSetOK(s.conflict.set) -> Failure
        [] OTHER -> Success((db \ hits) \cup upd, Returned(s, upd))

\* UPDATE ... WHERE ... RETURNING: the rows the WHERE selected, as updated.
PgUpdate(s, db) ==
  LET hits == PgWhere(s, db)
      upd  == {Assigned(r, PgSetFunction(s.set)) : r \in hits}
  IN  IF ~PgSetOK(s.set) THEN Failure
      ELSE Success((db \ hits) \cup upd, Returned(s, upd))

PgRun(s, db) == IF s.kind = "insert" THEN PgInsert(s, db) ELSE PgUpdate(s, db)

-----------------------------------------------------------------------------
(* Oracle running the text the converter wrote.                            *)

\* A resolved value written as a literal, or the NULL fragment.
OraValue(x) == IF x[1] = "frag" THEN Null ELSE x[2]

\* The column a written name <<"\"", c, "\"">> or t."c" names; "" is none.
OraColumn(ts) == IF Len(ts) >= 3 /\ ts[Len(ts) - 1] \in Columns THEN ts[Len(ts) - 1] ELSE "?"

(***************************************************************************)
(* Oracle's identifier rule: a bare identifier is folded to upper case, a  *)
(* quoted one is taken as written.  The table's columns are the lower-case *)
(* "a" and "b" that the converter's INSERT, UPDATE and SELECT quote.       *)
(***************************************************************************)
UpperCase == ("a" :> "A") @@ ("b" :> "B")
OraName(ts) ==
  CASE Len(ts) = 3 /\ ts[1] = DQ     -> ts[2]
    [] ts[1] \in DOMAIN UpperCase   -> UpperCase[ts[1]]
    [] OTHER                        -> ts[1]

\* A Go value of a condition leaf: strings compare, other values do not.
OraGoValue(v) == IF v.go = "string" THEN v.x[1] ELSE "?"

\* A condition of the builder (module ExprConvert) on a row.
RECURSIVE OraHolds(_, _)
OraHolds(c, r) ==
  CASE c.c = "and" -> OraHolds(c.l, r) /\ OraHolds(c.r, r)
    [] c.c = "or"  -> OraHolds(c.l, r) \/ OraHolds(c.r, r)
    [] c.c = "="   -> SqlEq(Cell(r, OraColumn(c.l)), OraGoValue(c.v))
    [] c.c = "<>"  -> LET x == Cell(r, OraColumn(c.l))
                      IN  x # Null /\ OraGoValue(c.v) # Null /\ x # OraGoValue(c.v)
    [] c.c = "IS"     -> Cell(r, OraColumn(c.l)) = Null
    [] c.c = "IS NOT" -> Cell(r, OraColumn(c.l)) # Null
    [] OTHER -> FALSE

\* The items of a list and whether its separators stand between them only.
ItemsOf(t) == LET its == SelectSeq(t, LAMBDA x : x[1] = "item")
              IN  [i \in 1..Len(its) |-> its[i][2]]
WellFormed(t, sep) == t = Join(ItemsOf(t), sep)

\* The UPDATE SET of the builder or of the MERGE: a written column each.
OraSetOK(keys) == \A k \in keys : OraColumn(k) \in Columns

OraAssign(f) == [c \in {OraColumn(k) : k \in DOMAIN f} |->
                   OraValue(f[CHOOSE k \in DOMAIN f : OraColumn(k) = c])]

\* The rows the builder's WHERE (a set of conditions, ANDed) selects.
OraWhere(conds, db) == {r \in db : \A c \in conds : OraHolds(c, r)}

OraInsert(t, db) ==
  IF Len(t.vals) # Len(t.cols) THEN Failure
  ELSE LET new == [c \in {"id"} \cup Columns |->
                     IF c = "id" THEN NextId(db)
                     ELSE IF \E k \in 1..Len(t.cols) : OraName(t.cols[k]) = c
                            THEN OraValue(t.vals[CHOOSE k \in 1..Len(t.cols) : OraName(t.cols[k]) = c])
                            ELSE Null]
       IN  Success(db \cup {new}, {})

OraUpdate(t, db) ==
  LET hits == OraWhere(t.where, db)
  IN  IF ~OraSetOK(DOMAIN t.set) THEN Failure
      ELSE Success((db \ hits) \cup {Assigned(r, OraAssign(t.set)) : r \in hits}, {})

(***************************************************************************)
(* MERGE INTO t USING (select v1 c1, ... FROM DUAL) s ON (t.k = s.k AND    *)
(* ...) [WHEN MATCHED THEN UPDATE SET ...] WHEN NOT MATCHED THEN INSERT    *)
(* (...) VALUES (s.c1, ...): a list with a stray comma, ON conditions      *)
(* joined by a comma, or a name that is no column of t or of s (after the  *)
(* identifier rule) are errors.                                            *)
(***************************************************************************)
OraMerge(t, db) ==
  LET using == ItemsOf(t.using)
      s     == [c \in {OraName(using[i][2]) : i \in 1..Len(using)} |->
                  OraValue(using[CHOOSE i \in 1..Len(using) : OraName(using[i][2]) = c][1])]
      on    == [i \in 1..Len(ItemsOf(t.on)) |-> OraName(ItemsOf(t.on)[i])]
      upd   == ItemsOf(t.update)
      ins   == [i \in 1..Len(ItemsOf(t.insVals)) |-> OraName(ItemsOf(t.insVals)[i][2])]
      cols  == [i \in 1..Len(t.insCols) |-> OraName(t.insCols[i])]
      hits  == {r \in db : \A i \in 1..Len(on) : SqlEq(r[on[i]], s[on[i]])}
      setF  == [k \in {upd[i][1] : i \in 1..Len(upd)} |-> upd[CHOOSE i \in 1..Len(upd) : upd[i][1] = k][2]]
      new   == [c \in {"id"} \cup Columns |->
                  IF c = "id" THEN NextId(db)
                  ELSE IF \E k \in 1..Len(cols) : cols[k] = c
                         THEN s[ins[CHOOSE k \in 1..Len(cols) : cols[k] = c]]
                         ELSE Null]
  IN  CASE ~WellFormed(t.using, Comma) \/ ~WellFormed(t.on, AndSep)
           \/ ~WellFormed(t.update, Comma) \/ ~WellFormed(t.insVals, Comma) -> Failure
        [] \E i \in 1..Len(on) : on[i] \notin Columns \cap DOMAIN s -> Failure
        [] Len(ins) # Len(cols) -> Failure
        [] \E i \in 1..Len(ins) : ins[i] \notin DOMAIN s \/ cols[i] \notin Columns -> Failure
        [] hits = {} -> Success(db \cup {new}, {})
        [] ~t.matched -> Success(db, {})
        [] ~OraSetOK(DOMAIN setF) -> Failure
        [] OTHER -> Success((db \ hits) \cup {Assigned(r, OraAssign(setF)) : r \in hits}, {})

OraStatement(t, db) ==
  CASE t.kind = "insert" -> OraInsert(t, db)
    [] t.kind = "update" -> OraUpdate(t, db)
    [] t.kind = "merge"  -> OraMerge(t, db)
    [] OTHER             -> Failure

\* SELECT id FROM t WHERE ...: the builder's conditions.
OraSelect(sel, db) == Ids(OraWhere(sel.where, db))

\* The script: the base statement, then its follow-up select on the result.
OraRun(t, db) ==
  IF t.kind # "script" THEN OraStatement(t, db)
  ELSE LET base == OraStatement(t.base, db)
       IN  IF ~base.ok THEN Failure
           ELSE Success(base.db, OraSelect(t.select, base.db))
=============================================================================
