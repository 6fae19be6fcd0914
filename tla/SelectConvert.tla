---------------------------- MODULE SelectConvert ----------------------------
(***************************************************************************)
(* The select translator (pkg/builder/extra_select.go) with the FROM,      *)
(* table and join conversion of extra_common.go and convertWhere of        *)
(* extra_where.go, as recursive operators from a builder and a parser      *)
(* node to the builder the code leaves, or to its error or panic.          *)
(*                                                                         *)
(* The builder (xorm's Builder, outside src/) is a record of the fields    *)
(* the code sets: optype, selects, from, joins, conds (the predicates cb.  *)
(* Where added), group, order and limit.  A *CustomBuilder is passed by    *)
(* pointer, so a call that changes it returns the changed record.          *)
(***************************************************************************)
EXTENDS ExprConvert

-----------------------------------------------------------------------------
(* Parser nodes of a SELECT (the parser is outside src/).                  *)

\* *parser.Select: ORDER BY items, a Limit, and the SelectStatement.
SelectN(order, limit, body) == [order |-> order, limit |-> limit, body |-> body]
NoLimit == [set |-> FALSE]
LimitN(count, offset) == [set |-> TRUE, count |-> count, offset |-> offset]
\* An ORDER BY item: an expression, its direction, and whether it is by index.
OrderI(e, dir, byIndex) == [e |-> e, dir |-> dir, byIndex |-> byIndex]

\* A SelectClause; having is the HAVING clause, NoWhere when absent.
ClauseN(distinct, exprs, from, where, having, group) ==
  [k |-> "clause", distinct |-> distinct, exprs |-> exprs, from |-> from,
   where |-> where, having |-> having, group |-> group]
SelItem(e, as) == [e |-> e, as |-> as]              \* a SelectExpr, "" no alias
UnionN(type, all, left, right) ==
  [k |-> "union", type |-> type, all |-> all, left |-> left, right |-> right]
ParenN(slt) == [k |-> "paren", select |-> slt]
ValuesN(tuples) == [k |-> "values", tuples |-> tuples]

NoWhere == [type |-> "none"]
WhereN(e) == [type |-> "WHERE", e |-> e]
NoFrom == [set |-> FALSE]
FromN(tables, asOf) == [set |-> TRUE, tables |-> tables, asOf |-> asOf]

\* Table expressions: AliasedTableExpr of a table name or a subquery, a
\* bare NormalizableTableName, and JoinTableExpr with its join condition.
TableN(parts) == [k |-> "table", parts |-> parts]
SubqueryN(stmt) == [k |-> "sub", select |-> stmt]
AliasedT(e, alias) == [k |-> "aliased", e |-> e, alias |-> alias]
JoinT(join, l, r, cond) == [k |-> "join", join |-> join, l |-> l, r |-> r, cond |-> cond]
OnC(e) == [k |-> "on", e |-> e]
UsingC == [k |-> "using"]
NoCond == [k |-> "none"]

-----------------------------------------------------------------------------
(* The builder.                                                            *)

NewBuilder(optype) ==
  [optype |-> optype, selects |-> <<>>, from |-> <<>>, joins |-> <<>>,
   conds |-> <<>>, group |-> <<>>, order |-> <<>>, limit |-> <<>>]

(***************************************************************************)
(* Builder.Union, Intersect and Except (outside src/): a builder that is   *)
(* not yet a set operation becomes the first operand of a new one, whose   *)
(* own ORDER BY and LIMIT are empty; a set operation takes one more        *)
(* operand.  ToBoundSQL writes each operand in parentheses (spec.md 8,     *)
(* scenario 6).                                                            *)
(***************************************************************************)
SetOperation(b, op, all, other) ==
  IF b.optype = "setop"
    THEN [b EXCEPT !.ops = Append(@, [op |-> op, all |-> all, b |-> other])]
    ELSE [optype |-> "setop", order |-> <<>>, limit |-> <<>>,
          ops |-> <<[op |-> "", all |-> FALSE, b |-> b],
                    [op |-> op, all |-> all, b |-> other]>>]

(***************************************************************************)
(* Builder.ToBoundSQL (outside src/) as the structure it writes: every     *)
(* field but optype, which it does not write.                              *)
(***************************************************************************)
RECURSIVE Render(_)
Render(b) ==
  IF b.optype = "setop"
    THEN [ops |-> [i \in 1..Len(b.ops) |->
                     [op |-> b.ops[i].op, all |-> b.ops[i].all, b |-> Render(b.ops[i].b)]],
          order |-> b.order, limit |-> b.limit]
    ELSE [selects |-> b.selects, from |-> b.from, joins |-> b.joins,
          conds |-> b.conds, group |-> b.group, order |-> b.order, limit |-> b.limit]

\* A list of texts joined by ", ".
JoinTexts(ts) == FlattenSeq([i \in 1..Len(ts) |-> (IF i > 1 THEN <<",">> ELSE <<>>) \o ts[i]])

-----------------------------------------------------------------------------
(* The clause converters that do not recurse into a select.               *)

(***************************************************************************)
(* convertSelectExpr: the items joined by ", ", each followed by its       *)
(* alias.  A cast is resolved and displayed, a CASE written as the parser  *)
(* renders it unless its subject is a cast, a name resolved.  A function   *)
(* or binary expression returns its display at once: the items before and  *)
(* after it, and its alias, are dropped.                                   *)
(***************************************************************************)
RECURSIVE SelectItems(_, _, _)
SelectItems(items, i, acc) ==
  IF i > Len(items) THEN Ret(acc)
  ELSE
    LET e   == items[i].e
        sep == IF i > 1 THEN <<",">> ELSE <<>>
        as  == IF items[i].as # "" THEN <<items[i].as>> ELSE <<>>
        v   == GetValueFromExpr(e)
        n   == ConvertUnresolvedName(e.parts)
        c   == IF e.k = "func" THEN ConvertFunc(e) ELSE ConvertBinary(e)
    IN  CASE e.k = "cast" /\ Bad(v) -> v
          [] e.k = "cast" -> SelectItems(items, i + 1, acc \o sep \o GetDisplayValue(v.v) \o as)
          [] e.k = "case" /\ e.castSubject -> Err
          [] e.k \in {"func", "bin"} /\ Bad(c) -> c
          [] e.k \in {"func", "bin"} -> Ret(GetDisplayValue(c.v))
          [] e.k = "name" /\ Bad(n) -> n
          [] e.k = "name" -> SelectItems(items, i + 1, acc \o sep \o n.v \o as)
          [] OTHER -> SelectItems(items, i + 1, acc \o sep \o RawText(e) \o as)

ConvertSelectExpr(items) == SelectItems(items, 1, <<>>)

(***************************************************************************)
(* convertOrderBy: an ORDER BY by index or by a table's primary key, or on *)
(* anything but a name, is refused; the names are joined by ", ".  The     *)
(* item's direction is never read.                                         *)
(***************************************************************************)
ConvertOrderBy(cb, orders) ==
  LET names == [i \in 1..Len(orders) |->
                  IF orders[i].e.k = "name" THEN ConvertUnresolvedName(orders[i].e.parts) ELSE Err]
  IN  CASE orders = <<>> -> Ret(cb)
        [] \E i \in 1..Len(orders) : orders[i].byIndex \/ Bad(names[i]) -> Err
        [] OTHER -> Ret([cb EXCEPT !.order = JoinTexts([i \in 1..Len(orders) |-> names[i].v])])

(***************************************************************************)
(* convertLimit: the offset, when there is one, then the count, each       *)
(* resolved and asserted to be an int64; a value of another dynamic type   *)
(* (a float, a string, an Expr) fails the type assertion, a panic.  LIMIT  *)
(* ALL and OFFSET without LIMIT leave Count nil.                           *)
(***************************************************************************)
ConvertLimit(cb, limit) ==
  LET off == GetValueFromExpr(limit.offset)
      cnt == GetValueFromExpr(limit.count)
      hasOff == limit.offset # NoExpr
  IN  CASE ~limit.set -> Ret(cb)
        [] hasOff /\ Bad(off) -> off
        [] hasOff /\ off.v.go # "int64" -> Panic
        [] Bad(cnt) -> cnt
        [] cnt.v.go # "int64" -> Panic
        [] OTHER -> Ret([cb EXCEPT !.limit = [count |-> cnt.v.x,
                                              offset |-> IF hasOff THEN off.v.x ELSE <<>>]])

(***************************************************************************)
(* convertGroupBy: the parser's " GROUP BY k1, k2" without its first ten   *)
(* characters, put in one pair of double quotes.                           *)
(***************************************************************************)
NameText(parts) == FlattenSeq([i \in 1..Len(parts) |-> (IF i > 1 THEN <<".">> ELSE <<>>) \o <<parts[i]>>])
KeyText(e) == IF e.k = "name" THEN NameText(e.parts) ELSE RawText(e)

ConvertGroupBy(cb, group) ==
  IF group = <<>> THEN cb
  ELSE [cb EXCEPT !.group = <<DQ>> \o JoinTexts([i \in 1..Len(group) |-> KeyText(group[i])]) \o <<DQ>>]

\* cb.Where(cond) once convertExprToCond has lowered the condition.
WhereAdded(cb, c) == IF Bad(c) THEN c ELSE Ret([cb EXCEPT !.conds = Append(@, c.v)])

\* convertWhere: a WHERE adds its condition; HAVING is refused.
ConvertWhere(cb, where) ==
  CASE where.type = "WHERE"  -> WhereAdded(cb, ConvertExprToCond(where.e))
    [] where.type = "HAVING" -> Err
    [] OTHER                 -> Ret(cb)

\* convertJoinCond: ON with a single comparison, lowered by convertExprToCond.
ConvertJoinCond(cond) ==
  IF cond.k = "on" /\ cond.e.k = "cmp" THEN ConvertExprToCond(cond.e) ELSE Err

\* cleanJoinStr: a Go map lookup; a missing key gives the empty string.
JoinKinds == ("JOIN" :> "INNER") @@ ("INNER JOIN" :> "INNER") @@ ("LEFT JOIN" :> "LEFT") @@
             ("RIGHT JOIN" :> "RIGHT") @@ ("CROSS JOIN" :> "CROSS")
CleanJoinStr(in) == IF in \in DOMAIN JoinKinds THEN JoinKinds[in] ELSE ""

-----------------------------------------------------------------------------
(***************************************************************************)
(* A Go call followed by "if err != nil { return err }" is written as an   *)
(* operator that takes the call's result and does the rest of the         *)
(* function: the result is computed once and tested before it is used.    *)
(***************************************************************************)

\* cb.From(ts) once the table text is converted.
FromText(cb, ts) == IF Bad(ts) THEN ts ELSE Ret([cb EXCEPT !.from = ts.v])

\* ncb.ToBoundSQL() of a subquery's builder, in parentheses.
SubqueryText(sub) == IF Bad(sub) THEN sub ELSE Ret(<<"(", ToString(Render(sub.v)), ")">>)

\* The alias, written only when this builder's optype is select.
AliasedText(cb, t, ts) ==
  CASE Bad(ts) -> ts
    [] cb.optype = "select" /\ t.alias # "" -> Ret(ts.v \o <<t.alias>>)
    [] OTHER -> ts

\* The join appended once its right table, then its condition, converted.
AppendJoin(b, j, right, cond) ==
  CASE Bad(right) -> right
    [] Bad(cond)  -> cond
    [] OTHER -> Ret([b EXCEPT !.joins = Append(@, [type |-> CleanJoinStr(j.join),
                                                   table |-> right.v, cond |-> cond.v])])

\* A SelectClause after its FROM: WHERE, GROUP BY, then DISTINCT and cb.Select.
ClauseSelect(s, cols, w) ==
  IF Bad(w) THEN w
  ELSE Ret([ConvertGroupBy(w.v, s.group) EXCEPT
              !.selects = (IF s.distinct THEN <<"DISTINCT">> ELSE <<>>) \o cols.v])
ClauseWhere(s, cols, f) == IF Bad(f) THEN f ELSE ClauseSelect(s, cols, ConvertWhere(f.v, s.where))

\* A set operation once both operands are converted.
SetOp(rb, u, l) ==
  CASE Bad(l) -> l
    [] u.type \notin {"UNION", "INTERSECT", "EXCEPT"} -> Err
    [] OTHER -> Ret(SetOperation(rb, u.type, u.all, l.v))

-----------------------------------------------------------------------------
(* The converters that recurse: a subquery in FROM and the operands of a   *)
(* set operation are selects again.                                        *)

(***************************************************************************)
(* convertNormalizableTableName: the parser leaves the table reference an  *)
(* UnresolvedName, which convertUnresolvedName converts.                   *)
(***************************************************************************)
ConvertNormalizableTableName(t) == ConvertUnresolvedName(t.parts)

RECURSIVE ConvertSelect(_, _), SelectLimit(_, _), SelectBody(_, _),
          ConvertSelectStatement(_, _), ClauseFrom(_, _, _), ConvertUnion(_, _),
          UnionLeft(_, _), ConvertFrom(_, _), ConvertTable(_, _),
          ConvertAliasedTable(_, _), ConvertJoin(_, _), JoinRight(_, _)

(***************************************************************************)
(* convertAliasedTable: a table name, or a subquery converted by           *)
(* convertSelectStatement in a new builder of optype select and rendered   *)
(* in parentheses; the alias is written only when this builder's optype    *)
(* is select.                                                              *)
(***************************************************************************)
ConvertAliasedTable(cb, t) ==
  AliasedText(cb, t,
              CASE t.e.k = "table" -> ConvertNormalizableTableName(t.e)
                [] t.e.k = "sub" ->
                     SubqueryText(ConvertSelectStatement(NewBuilder("select"), t.e.select))
                [] OTHER -> Err)

(***************************************************************************)
(* convertJoin: only in a builder of optype select.  The left side is a    *)
(* join, converted first, or an aliased table that becomes FROM; the right *)
(* side must be an aliased table; then the ON condition; the join is       *)
(* appended with the keyword cleanJoinStr gives.                           *)
(***************************************************************************)
ConvertJoin(cb, j) ==
  CASE cb.optype # "select" -> Err
    [] j.l.k = "join"       -> JoinRight(ConvertJoin(cb, j.l), j)
    [] j.l.k # "aliased"    -> Err
    [] OTHER                -> JoinRight(FromText(cb, ConvertAliasedTable(cb, j.l)), j)

JoinRight(left, j) ==
  CASE Bad(left) -> left
    [] j.r.k # "aliased" -> Err
    [] OTHER -> AppendJoin(left.v, j, ConvertAliasedTable(left.v, j.r), ConvertJoinCond(j.cond))

(***************************************************************************)
(* convertTable: the text of an aliased table or of a bare table name      *)
(* given to cb.From; a join sets FROM itself, and cb.From(cb.from) keeps   *)
(* it.  (With optype insert the text goes to cb.Into instead: that is      *)
(* ConvertInsert in the module Convert.)                                   *)
(***************************************************************************)
ConvertTable(cb, t) ==
  CASE t.k = "aliased" -> FromText(cb, ConvertAliasedTable(cb, t))
    [] t.k = "table"   -> FromText(cb, ConvertNormalizableTableName(t))
    [] t.k = "join"    -> ConvertJoin(cb, t)
    [] OTHER           -> Err

\* convertFrom: no AS OF and at most one table.
ConvertFrom(cb, from) ==
  CASE ~from.set               -> Ret(cb)
    [] from.asOf               -> Err
    [] Len(from.tables) > 1    -> Err
    [] Len(from.tables) = 1    -> ConvertTable(cb, from.tables[1])
    [] OTHER                   -> Ret(cb)

(***************************************************************************)
(* convertSelectStatement: a SelectClause converts its items, FROM, WHERE  *)
(* and GROUP BY in that order, prefixes DISTINCT and calls cb.Select;      *)
(* the HAVING clause is not read.  A VALUES clause in a select leaves cb   *)
(* as it is (in an insert it is ConvertInsert of the module Convert).      *)
(***************************************************************************)
ConvertSelectStatement(cb, s) ==
  CASE s.k = "values" -> Ret(cb)
    [] s.k = "clause" -> ClauseFrom(cb, s, ConvertSelectExpr(s.exprs))
    [] s.k = "union"  -> ConvertUnion(cb, s)
    [] s.k = "paren"  -> ConvertSelect(cb, s.select)
    [] OTHER          -> Err

ClauseFrom(cb, s, cols) == IF Bad(cols) THEN cols ELSE ClauseWhere(s, cols, ConvertFrom(cb, s.from))

\* convertSelect: ORDER BY, then LIMIT, set on cb before the statement.
ConvertSelect(cb, slt) == SelectLimit(ConvertOrderBy(cb, slt.order), slt)
SelectLimit(o, slt) == IF Bad(o) THEN o ELSE SelectBody(ConvertLimit(o.v, slt.limit), slt)
SelectBody(l, slt) == IF Bad(l) THEN l ELSE ConvertSelectStatement(l.v, slt.body)

\* Mutant: every set operation built as a UNION.
ConvertUnionOpLost(cb, u) ==
  UnionLeft(ConvertSelect(cb, u.right), [u EXCEPT !.type = "UNION"])

(***************************************************************************)
(* convertUnion: the right operand is converted into cb itself, after the  *)
(* ORDER BY and LIMIT of the enclosing select were set on it; the left     *)
(* operand into a new builder holding only the condition and the dialect,  *)
(* so of optype none; then cb's builder becomes the set operation of the   *)
(* two, ALL when the clause says so.                                       *)
(***************************************************************************)
ConvertUnion(cb, u) == UnionLeft(ConvertSelect(cb, u.right), u)
UnionLeft(r, u) == IF Bad(r) THEN r ELSE SetOp(r.v, u, ConvertSelect(NewBuilder("none"), u.left))
=============================================================================
