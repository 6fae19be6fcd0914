----------------------------- MODULE SelectSpec -----------------------------
(***************************************************************************)
(* What translating a SELECT promises (spec.md 3, 4.2, 4.2.1, 4.2.2, 4.3,  *)
(* 4.4, 4.4.1, 4.4.2 and 7), as the rendered builder structure of          *)
(* SelectConvert's Render, or a failure.  Only the parser nodes, the       *)
(* numeric parse, the type map and the operator table are taken from      *)
(* SelectConvert and ExprConvert; every rule is restated from the spec.    *)
(***************************************************************************)
EXTENDS SelectConvert

\* spec.md 4.2.2: one part quoted, two parts table."column", else unsupported.
RefName(parts) ==
  CASE Len(parts) \notin {1, 2} \/ \E i \in 1..Len(parts) : parts[i] = Star -> Err
    [] Len(parts) = 1 -> Ret(<<DQ, parts[1], DQ>>)
    [] OTHER          -> Ret(<<parts[1], ".", DQ, parts[2], DQ>>)

(***************************************************************************)
(* spec.md 4.2.1: allow-listed functions without FILTER or OVER; extract   *)
(* takes its field bare and its source as a resolved column or the current *)
(* timestamp keyword; the others take exactly one unqualified name.        *)
(***************************************************************************)
RefFunc(e) ==
  LET src == e.args[2]
  IN  CASE e.f \notin FuncSupported \/ e.window -> Err
        [] e.f = "extract" /\ Len(e.args) = 2 /\ src.k = "name" /\ ~Bad(RefName(src.parts)) ->
             Ret(GoVal("expr", <<"EXTRACT", "(", ExtractField(e.args[1]), "FROM">>
                               \o RefName(src.parts).v \o <<")">>))
        [] e.f = "extract" /\ Len(e.args) = 2 /\ src.k = "func" /\ src.f = "now" ->
             Ret(GoVal("expr", <<"EXTRACT", "(", ExtractField(e.args[1]), "FROM", "SYSTIMESTAMP", ")">>))
        [] e.f # "extract" /\ Len(e.args) = 1 /\ e.args[1].k = "name" /\ Len(e.args[1].parts) = 1
             /\ ~Bad(RefName(e.args[1].parts)) ->
             Ret(GoVal("expr", <<e.f, "(">> \o RefName(e.args[1].parts).v \o <<")">>))
        [] OTHER -> Err

\* spec.md 4.2: the expression resolver's dispatch; no input makes it panic.
RECURSIVE RefValue(_)
RefValue(e) ==
  LET in == RefValue(e.e)
      l  == RefValue(e.l)
      r  == RefValue(e.r)
      ct == ConvertPGTypeToOracle(e.type)
  IN  CASE e.k = "ts"   -> Ret(GoVal("string", <<e.t>>))
        [] e.k = "num"  -> ParseValue(e.txt)
        [] e.k = "cast" -> IF Bad(ct) \/ Bad(in) THEN Err
                           ELSE Ret(GoVal("expr", <<"CAST", "(">> \o GetDisplayValue(in.v)
                                                  \o <<"AS">> \o ct.v \o <<")">>))
        [] e.k = "str"  -> Ret(GoVal("string", <<e.s>>))
        [] e.k = "func" -> RefFunc(e)
        [] e.k = "bin"  -> IF Bad(l) \/ Bad(r) \/ e.op \notin DOMAIN BinaryOpName THEN Err
                           ELSE Ret(GoVal("expr", GetDisplayValue(l.v) \o <<BinaryOpName[e.op]>>
                                                  \o GetDisplayValue(r.v)))
        [] e.k = "paren" -> IF Bad(in) THEN Err ELSE Ret(GoVal("expr", GetDisplayValue(in.v)))
        [] e.k = "bool" -> Ret(GoVal("int", <<IF e.b THEN "1" ELSE "0">>))
        [] e.k = "name" -> IF Bad(RefName(e.parts)) THEN Err ELSE Ret(GoVal("expr", RefName(e.parts).v))
        [] e.k = "nil"  -> Err
        [] OTHER        -> Ret(GoVal("expr", RawText(e)))

(***************************************************************************)
(* spec.md 4.3: AND/OR recurse, parentheses unwrap, a comparison resolves  *)
(* both sides and maps its operator, IS needs NULL, ILIKE becomes UPPER    *)
(* LIKE UPPER, other operators a raw fragment; BETWEEN on a column.        *)
(***************************************************************************)
RECURSIVE RefCond(_)
RefCond(e) ==
  LET l    == RefCond(e.l)
      r    == RefCond(e.r)
      lhs  == RefValue(e.l)
      rhs  == RefValue(e.r)
      lo   == RefValue(e.lo)
      hi   == RefValue(e.hi)
      nt   == IF (e.k = "range" /\ e.not) \/ (e.k = "cmp" /\ e.op = "NOT ILIKE") THEN <<"NOT">> ELSE <<>>
  IN  CASE e.k = "and"   -> IF Bad(l) \/ Bad(r) THEN Err ELSE Ret(CondAnd(l.v, r.v))
        [] e.k = "or"    -> IF Bad(l) \/ Bad(r) THEN Err ELSE Ret(CondOr(l.v, r.v))
        [] e.k = "paren" -> RefCond(e.e)
        [] e.k = "cmp" /\ (e.sub \/ Bad(lhs) \/ Bad(rhs)) -> Err
        [] e.k = "cmp" /\ e.op \in LeafOps -> Ret(Leaf(e.op, GetDisplayValue(lhs.v), rhs.v))
        [] e.k = "cmp" /\ e.op \in {"IS", "IS NOT"} ->
             IF e.r = NullE THEN Ret(NullLeaf(e.op, GetDisplayValue(lhs.v))) ELSE Err
        [] e.k = "cmp" /\ e.op \in {"ILIKE", "NOT ILIKE"} ->
             Ret(CondExpr(<<"UPPER", "(">> \o GetDisplayValue(lhs.v) \o <<")">> \o nt
                          \o <<"LIKE", "UPPER", "(">> \o RawText(e.r) \o <<")">>))
        [] e.k = "cmp"   -> Ret(CondExpr(RawText(e)))
        [] e.k = "range" /\ e.l.k = "name" /\ ~Bad(RefName(e.l.parts)) /\ ~Bad(lo) /\ ~Bad(hi) ->
             Ret(CondExpr(RefName(e.l.parts).v \o nt \o <<"BETWEEN">> \o GetDisplayValue(lo.v)
                          \o <<"AND">> \o GetDisplayValue(hi.v)))
        [] OTHER         -> Err

-----------------------------------------------------------------------------
(* spec.md 4.4, 4.4.1 and 4.4.2: the statement.                            *)

(***************************************************************************)
(* The projection: casts display their value, CASE passes through unless   *)
(* its subject is a cast, a function or binary expression stands for the  *)
(* whole list, names resolve, anything else passes through; aliases are    *)
(* appended.                                                               *)
(***************************************************************************)
RefProjection(items) ==
  LET shown(i) == LET e == items[i].e
                  IN  CASE e.k = "case" /\ e.castSubject -> Err
                        [] e.k \in {"cast", "name"} ->
                             IF Bad(RefValue(e)) THEN Err ELSE Ret(GetDisplayValue(RefValue(e).v))
                        [] OTHER -> Ret(RawText(e))
      whole == {i \in 1..Len(items) : items[i].e.k \in {"func", "bin"}}
      first == CHOOSE i \in whole : \A j \in whole : i <= j
      before == 1..(IF whole = {} THEN Len(items) ELSE first - 1)
  IN  CASE \E i \in before : Bad(shown(i)) -> Err
        [] whole # {} ->
             IF Bad(RefValue(items[first].e)) THEN Err
             ELSE Ret(GetDisplayValue(RefValue(items[first].e).v))
        [] OTHER ->
             Ret(JoinTexts([i \in 1..Len(items) |->
                              shown(i).v \o (IF items[i].as # "" THEN <<items[i].as>> ELSE <<>>)]))

\* Sort keys: plain unqualified names without a direction (spec.md 4.4).
RefOrder(orders) ==
  IF \A i \in 1..Len(orders) :
       /\ ~orders[i].byIndex /\ orders[i].dir = "default"
       /\ orders[i].e.k = "name" /\ Len(orders[i].e.parts) = 1
       /\ ~Bad(RefName(orders[i].e.parts))
    THEN Ret(JoinTexts([i \in 1..Len(orders) |-> RefName(orders[i].e.parts).v]))
    ELSE Err

\* LIMIT and OFFSET are integer expressions; any other value is refused.
RefLimit(limit) ==
  LET cnt == RefValue(limit.count)
      off == RefValue(limit.offset)
      isInt(v) == ~Bad(v) /\ v.v.go = "int64"
  IN  CASE ~limit.set -> Ret(<<>>)
        [] isInt(cnt) /\ limit.offset = NoExpr -> Ret([count |-> cnt.v.x, offset |-> <<>>])
        [] isInt(cnt) /\ isInt(off) -> Ret([count |-> cnt.v.x, offset |-> off.v.x])
        [] OTHER -> Err

\* The join keyword vocabulary: inner, left, right, cross and plain JOIN.
JoinVocabulary == ("JOIN" :> "INNER") @@ ("INNER JOIN" :> "INNER") @@
                  ("LEFT JOIN" :> "LEFT") @@ ("RIGHT JOIN" :> "RIGHT") @@
                  ("CROSS JOIN" :> "CROSS")

RECURSIVE RefStatement(_, _, _), RefSelect(_), RefTableRef(_), RefJoin(_)

\* A table or a subquery in a fresh select context, then its alias.
RefTableRef(t) ==
  LET n   == RefName(t.e.parts)
      sub == RefStatement(t.e.select, <<>>, <<>>)
      ts  == CASE t.e.k = "table" -> n
               [] t.e.k = "sub" /\ ~Bad(sub) -> Ret(<<"(", ToString(sub.v), ")">>)
               [] OTHER -> Err
  IN  IF Bad(ts) THEN ts ELSE Ret(ts.v \o (IF t.alias # "" THEN <<t.alias>> ELSE <<>>))

(***************************************************************************)
(* A join chain, left to right: a nested join or a table on the left, a    *)
(* plain or aliased table (no subquery) on the right, a single comparison  *)
(* as ON, a keyword of the vocabulary.  The result is the FROM and joins.  *)
(***************************************************************************)
RefJoin(j) ==
  LET left  == IF j.l.k = "join" THEN RefJoin(j.l)
               ELSE IF j.l.k = "aliased" /\ ~Bad(RefTableRef(j.l))
                      THEN Ret([from |-> RefTableRef(j.l).v, joins |-> <<>>])
                      ELSE Err
      right == RefTableRef(j.r)
      cond  == RefCond(j.cond.e)
  IN  IF /\ j.join \in DOMAIN JoinVocabulary
         /\ ~Bad(left)
         /\ j.r.k = "aliased" /\ j.r.e.k = "table" /\ ~Bad(right)
         /\ j.cond.k = "on" /\ j.cond.e.k = "cmp" /\ ~Bad(cond)
      THEN Ret([left.v EXCEPT !.joins = Append(@, [type |-> JoinVocabulary[j.join],
                                                  table |-> right.v, cond |-> cond.v])])
      ELSE Err

\* The FROM clause: none, or a single table or join chain.
RefFrom(from) ==
  LET t == from.tables[1]
  IN  CASE ~from.set -> Ret([from |-> <<>>, joins |-> <<>>])
        [] from.asOf \/ Len(from.tables) # 1 -> Err
        [] t.k = "join" -> RefJoin(t)
        [] t.k = "aliased" /\ ~Bad(RefTableRef(t)) -> Ret([from |-> RefTableRef(t).v, joins |-> <<>>])
        [] t.k = "table" /\ ~Bad(RefName(t.parts)) -> Ret([from |-> RefName(t.parts).v, joins |-> <<>>])
        [] OTHER -> Err

(***************************************************************************)
(* A select statement with the ORDER BY and LIMIT of its enclosing select: *)
(* a clause takes them itself; a set operation translates its operands,    *)
(* right then left (spec.md 8, scenario 6), each a select of its own in a  *)
(* fresh context, and takes them at its own level.                        *)
(* HAVING is unsupported, GROUP BY has a single key.                       *)
(***************************************************************************)
RefStatement(s, order, limit) ==
  LET cols  == RefProjection(s.exprs)
      src   == RefFrom(s.from)
      where == RefCond(s.where.e)
      group == RefName(s.group[1].parts)
      right == RefSelect(s.right)
      left  == RefSelect(s.left)
      inner == RefSelect(s.select)
  IN  CASE s.k = "clause" ->
             IF \/ Bad(cols) \/ Bad(src) \/ s.having # NoWhere
                \/ (s.where # NoWhere /\ Bad(where))
                \/ Len(s.group) > 1 \/ (s.group # <<>> /\ (s.group[1].k # "name" \/ Bad(group)))
               THEN Err
               ELSE Ret([selects |-> (IF s.distinct THEN <<"DISTINCT">> ELSE <<>>) \o cols.v,
                         from |-> src.v.from, joins |-> src.v.joins,
                         conds |-> IF s.where = NoWhere THEN <<>> ELSE <<where.v>>,
                         group |-> IF s.group = <<>> THEN <<>> ELSE group.v,
                         order |-> order, limit |-> limit])
        [] s.k = "union" ->
             IF Bad(right) \/ Bad(left) THEN Err
             ELSE Ret([ops |-> <<[op |-> "", all |-> FALSE, b |-> right.v],
                                 [op |-> s.type, all |-> s.all, b |-> left.v]>>,
                       order |-> order, limit |-> limit])
        [] s.k = "paren" /\ Bad(inner) -> inner
        [] s.k = "paren" ->
             Ret([inner.v EXCEPT !.order = IF order # <<>> THEN order ELSE @,
                                 !.limit = IF limit # <<>> THEN limit ELSE @])
        [] OTHER -> Err

\* A *parser.Select: its sort keys and limit, then its statement.
RefSelect(slt) ==
  LET o == RefOrder(slt.order)
      l == RefLimit(slt.limit)
  IN  IF Bad(o) \/ Bad(l) THEN Err ELSE RefStatement(slt.body, o.v, l.v)
=============================================================================
