------------------------------ MODULE MCConvert ------------------------------
(***************************************************************************)
(* Statements for checking Convert.  Two tables ("t" the target, "u" the  *)
(* source of an INSERT ... SELECT), two columns, two values and NULL.      *)
(* Each set below is a family of statements the parser can return; a .cfg *)
(* picks one as Stmts.                                                     *)
(***************************************************************************)
EXTENDS Convert

MCValues == {"v1", "v2", Null}

ColA == NameE(<<"a">>)
ColB == NameE(<<"b">>)
Tab(n, alias) == AliasedT(TableN(<<n>>), alias)
SItem(e) == SelItem(e, "")
\* SELECT exprs FROM tbl WHERE where, as the body of a Select.
Plain(exprs, tbl, where) == ClauseN(FALSE, exprs, FromN(<<tbl>>, FALSE), where, NoWhere, <<>>)
Sel(body) == SelectN(<<>>, NoLimit, body)
SelA(n) == Sel(Plain(<<SItem(ColA)>>, Tab(n, ""), NoWhere))

\* WHERE a = 'v1', and WHERE NOT a = 1, which convertExprToCond refuses.
WhereA       == WhereN(CmpE("=", ColA, StrE("v1")))
RefusedWhere == WhereN(NotE(CmpE("=", ColA, NumE("1"))))
UpdateWheres == {NoWhere, WhereA, RefusedWhere}

OneRow(vals) == ValuesRows(<<vals>>)

\* INSERT INTO t (a) VALUES ('v1' or NULL) [RETURNING NOTHING]
PlainInserts ==
  {Stmt("insert", 1, "t", <<"a">>, OneRow(<<v>>), NilConflict, <<>>, NoWhere, r) :
     v \in {"v1", Null}, r \in {"absent", "nothing"}}

\* The DO UPDATE SET lists: none, one plain and one tuple assignment.
OneAssignment ==
  {<<>>, <<Single(<<"b">>, "v2")>>, <<Tuple(<<<<"b">>>>, <<Null>>)>>}

(***************************************************************************)
(* Upserts whose conflict column is one of the inserted columns, keyed on *)
(* a value that is not NULL, with at most one assignment, every RETURNING *)
(* form, and the conflict column first or second.                         *)
(***************************************************************************)
KeyedUpserts ==
  {Stmt("insert", 1, "t", <<"a", "b">>, OneRow(<<"v1", "v2">>),
        Conflict(<<key>>, dn, set), <<>>, NoWhere, r) :
     key \in {"a", "b"}, dn \in BOOLEAN, set \in OneAssignment,
     r \in {"absent", "nothing", "cols", "excluded"}}

(***************************************************************************)
(* ON CONFLICT () ..., two VALUES rows, two statements in the text, and    *)
(* ON CONFLICT (b) ... RETURNING on INSERT INTO t (a).                     *)
(***************************************************************************)
RefusedInserts ==
  { Stmt("insert", 1, "t", <<"a">>, OneRow(<<"v1">>),
         Conflict(<<>>, FALSE, <<>>), <<>>, NoWhere, "cols"),
    Stmt("insert", 1, "t", <<"a">>, ValuesRows(<<<<"v1">>, <<"v2">>>>),
         NilConflict, <<>>, NoWhere, "absent"),
    Stmt("insert", 2, "t", <<"a">>, OneRow(<<"v1">>), NilConflict, <<>>, NoWhere, "absent"),
    Stmt("insert", 1, "t", <<"a">>, OneRow(<<"v1">>),
         Conflict(<<"b">>, TRUE, <<>>), <<>>, NoWhere, "cols") }

(***************************************************************************)
(* UPDATE t SET ... [WHERE ...] [RETURNING ...] with one or two           *)
(* assignments to different columns.                                      *)
(***************************************************************************)
Updates ==
  {Stmt("update", 1, "t", <<>>, NilConflict, NilConflict, set, w, r) :
     set \in { <<Single(<<"a">>, "v1")>>,
               <<Tuple(<<<<"a">>, <<"b">>>>, <<"v1", Null>>)>>,
               <<Single(<<"a">>, "v1"), Single(<<"b">>, "v2")>> },
     w \in UpdateWheres,
     r \in {"absent", "nothing", "cols", "excluded"}}

\* DELETE ... RETURNING, and DELETE with a WHERE the translator refuses.
RefusedDeletes ==
  {Stmt("delete", 1, "t", <<>>, NilConflict, NilConflict, <<>>, w, r) :
     <<w, r>> \in {<<WhereA, "cols">>, <<RefusedWhere, "absent">>}}

-----------------------------------------------------------------------------
(***************************************************************************)
(* SELECT statements over the tables t = {1, 2} and u = {2, 3} of          *)
(* SampleRows, with the columns a and b.                                   *)
(***************************************************************************)
\* WHERE clauses: comparisons, AND, OR, IS NULL, ILIKE, BETWEEN, parentheses.
Wheres ==
  { NoWhere,
    WhereN(CmpE("=", ColA, StrE("v1"))),
    WhereN(AndE(CmpE(">", ColA, NumE("1")), CmpE("IS", ColB, NullE))),
    WhereN(OrE(CmpE("ILIKE", ColB, StrE("v2")), CmpE("<=", ColA, NumE("1.5")))),
    WhereN(RangeE(TRUE, ColA, NumE("1"), NumE("5"))),
    WhereN(ParenE(CmpE("<>", ColA, BoolE(TRUE)))) }

\* SELECT a FROM t [x] [WHERE ...]
PredicateSelects ==
  {Sel(Plain(<<SItem(ColA)>>, Tab("t", alias), w)) : alias \in {"", "x"}, w \in Wheres}

\* SELECT a FROM t [ORDER BY a] [LIMIT 5 [OFFSET 1]]
OrderedSelects ==
  {SelectN(o, l, Plain(<<SItem(ColA)>>, Tab("t", ""), NoWhere)) :
     o \in {<<>>, <<OrderI(ColA, "default", FALSE)>>},
     l \in {NoLimit, LimitN(NumE("5"), NoExpr), LimitN(NumE("5"), NumE("1"))}}

\* SELECT [DISTINCT] a, b y | CAST(a AS NUMERIC(10,2)) | sum(a) FROM t [GROUP BY a]
ProjectionSelects ==
  {Sel(ClauseN(d, items, FromN(<<Tab("t", "")>>, FALSE), NoWhere, NoWhere, g)) :
     d \in BOOLEAN,
     items \in { <<SItem(ColA), SelItem(ColB, "y")>>,
                 <<SItem(CastE(ColA, TypeName("NUMERIC", "(10,2)")))>>,
                 <<SItem(FuncE("sum", <<ColA>>, FALSE))>> },
     g \in {<<>>, <<ColA>>}}

\* SELECT a FROM t x [LEFT] JOIN u y ON x.a = y.a, and FROM (SELECT a FROM u) s.
FromSelects ==
  {Sel(Plain(<<SItem(ColA)>>,
             JoinT(j, Tab("t", "x"), Tab("u", "y"),
                   OnC(CmpE("=", NameE(<<"x", "a">>), NameE(<<"y", "a">>)))), NoWhere)) :
     j \in {"JOIN", "LEFT JOIN"}}
  \cup {Sel(Plain(<<SItem(ColA)>>,
                  AliasedT(SubqueryN(Plain(<<SItem(ColA)>>, Tab("u", ""), NoWhere)), "s"),
                  NoWhere))}

\* UNION [ALL] and INTERSECT of t and u, and (t INTERSECT u) UNION t.
SetOpSelects ==
  {Sel(UnionN(op, all, SelA("t"), SelA("u"))) : op \in {"UNION", "INTERSECT"}, all \in BOOLEAN}
  \cup {Sel(UnionN("UNION", FALSE, Sel(UnionN("INTERSECT", FALSE, SelA("t"), SelA("u"))), SelA("t")))}

\* SELECT 3 - 1, SELECT (1 * 2) + 3, SELECT 2 * (3): parentheses that change nothing.
ArithSelects ==
  {Sel(ClauseN(FALSE, <<SItem(e)>>, NoFrom, NoWhere, NoWhere, <<>>)) :
     e \in { BinE("Minus", NumE("3"), NumE("1")),
             BinE("Plus", ParenE(BinE("Mult", NumE("1"), NumE("2"))), NumE("3")),
             BinE("Mult", NumE("2"), ParenE(NumE("3"))) }}

(***************************************************************************)
(* Selects both refuse: two tables in FROM, AS OF, ORDER BY 1, count of a   *)
(* sum(a, b), NOT, a comparison with ANY, a CASE whose subject is a cast.  *)
(***************************************************************************)
RefusedSelects ==
  { Sel(ClauseN(FALSE, <<SItem(ColA)>>, FromN(<<Tab("t", ""), Tab("u", "")>>, FALSE),
                NoWhere, NoWhere, <<>>)),
    Sel(ClauseN(FALSE, <<SItem(ColA)>>, FromN(<<Tab("t", "")>>, TRUE), NoWhere, NoWhere, <<>>)),
    SelectN(<<OrderI(ColA, "default", TRUE)>>, NoLimit, Plain(<<SItem(ColA)>>, Tab("t", ""), NoWhere)),
    Sel(Plain(<<SItem(FuncE("count", <<NameE(<<Star>>)>>, FALSE))>>, Tab("t", ""), NoWhere)),
    Sel(Plain(<<SItem(FuncE("sum", <<ColA, ColB>>, FALSE))>>, Tab("t", ""), NoWhere)),
    Sel(Plain(<<SItem(ColA)>>, Tab("t", ""), WhereN(NotE(CmpE("=", ColA, NumE("1")))))),
    Sel(Plain(<<SItem(ColA)>>, Tab("t", ""), WhereN(AnyCmpE("=", ColA, NumE("1"))))),
    Sel(Plain(<<SItem(CaseE(TRUE))>>, Tab("t", ""), NoWhere)) }

Selects ==
  {SelectStmt(1, slt) : slt \in PredicateSelects \cup OrderedSelects \cup ProjectionSelects
                                \cup FromSelects \cup SetOpSelects \cup ArithSelects
                                \cup RefusedSelects}

\* The statements on which the code is held to ConvertSpec.
AgreedStmts ==
  PlainInserts \cup {s \in KeyedUpserts : s.returning # "cols"} \cup RefusedInserts \cup Updates \cup RefusedDeletes
  \cup Selects
-----------------------------------------------------------------------------
(* Statements on which the code and ConvertSpec part.                      *)

\* INSERT INTO t (a) VALUES ('v1') RETURNING id, without ON CONFLICT.
ReturningWithoutConflict ==
  {Stmt("insert", 1, "t", <<"a">>, OneRow(<<"v1">>), NilConflict, <<>>, NoWhere, "cols")}

\* A text with no statement in it (only a comment, or empty).
EmptyTexts ==
  {Stmt("insert", 0, "t", <<>>, OneRow(<<>>), NilConflict, <<>>, NoWhere, "absent")}

\* INSERT INTO t (a, b) VALUES ('v1') ON CONFLICT (a) DO NOTHING.
ShortRowUpserts ==
  {Stmt("insert", 1, "t", <<"a", "b">>, OneRow(<<"v1">>),
        Conflict(<<"a">>, TRUE, <<>>), <<>>, NoWhere, "absent")}

\* UPDATE t SET (a, b) = (SELECT ...), a valid PostgreSQL assignment.
TupleSubqueryUpdates ==
  {Stmt("update", 1, "t", <<>>, NilConflict, NilConflict,
        <<TupleSubquery(<<<<"a">>, <<"b">>>>)>>, NoWhere, "absent")}

\* ON CONFLICT (a, b): a conflict target of two columns.
TwoColumnKeys ==
  {Stmt("insert", 1, "t", <<"a", "b">>, OneRow(<<"v1", "v2">>),
        Conflict(<<"a", "b">>, TRUE, <<>>), <<>>, NoWhere, "absent")}

\* ON CONFLICT (b) on INSERT INTO t (a): a conflict column not inserted.
UninsertedKeys ==
  {Stmt("insert", 1, "t", <<"a">>, OneRow(<<"v1">>),
        Conflict(<<"b">>, TRUE, <<>>), <<>>, NoWhere, "absent")}

\* ON CONFLICT (a) DO UPDATE SET a = 'v1', b = 'v2'.
TwoAssignmentUpserts ==
  {Stmt("insert", 1, "t", <<"a", "b">>, OneRow(<<"v1", "v2">>),
        Conflict(<<"a">>, FALSE, <<Single(<<"a">>, "v1"), Single(<<"b">>, "v2")>>),
        <<>>, NoWhere, "absent")}

\* INSERT INTO t (a) VALUES (NULL) ON CONFLICT (a) DO NOTHING RETURNING id.
NullKeyUpserts ==
  {Stmt("insert", 1, "t", <<"a">>, OneRow(<<Null>>),
        Conflict(<<"a">>, TRUE, <<>>), <<>>, NoWhere, "cols")}

\* DELETE FROM t [WHERE ...] without RETURNING.
PlainDeletes ==
  {Stmt("delete", 1, "t", <<>>, NilConflict, NilConflict, <<>>, w, "absent") :
     w \in {NoWhere, WhereA}}

\* INSERT INTO t (a) SELECT a FROM u.
InsertSelects ==
  {Stmt("insert", 1, "t", <<"a">>, SelectRows(<<"a">>, "u"), NilConflict, <<>>,
        NoWhere, "absent")}

(***************************************************************************)
(* SELECT a FROM t LIMIT $1 (convertDollar makes $1 a string literal),     *)
(* LIMIT ALL, and OFFSET 1 without LIMIT (both leave Count nil).           *)
(***************************************************************************)
PlaceholderLimits ==
  {SelectStmt(1, SelectN(<<>>, l, Plain(<<SItem(ColA)>>, Tab("t", ""), NoWhere))) :
     l \in {LimitN(StrE("--cvted-phs1"), NoExpr), LimitN(NoExpr, NoExpr), LimitN(NoExpr, NumE("1"))}}

\* SELECT a FROM t ORDER BY a DESC, and ORDER BY x.a on an aliased table.
DescendingOrders ==
  {SelectStmt(1, SelectN(<<o>>, NoLimit, Plain(<<SItem(ColA)>>, Tab("t", "x"), NoWhere))) :
     o \in {OrderI(ColA, "DESC", FALSE), OrderI(NameE(<<"x", "a">>), "default", FALSE)}}

\* SELECT a FROM t EXCEPT [ALL] SELECT a FROM u.
ExceptSelects ==
  {SelectStmt(1, Sel(UnionN("EXCEPT", all, SelA("t"), SelA("u")))) : all \in BOOLEAN}

\* SELECT (1 + 2) * 3 and SELECT 3 - (2 - 1): parentheses that matter.
ParenArithSelects ==
  {SelectStmt(1, Sel(ClauseN(FALSE, <<SItem(e)>>, NoFrom, NoWhere, NoWhere, <<>>))) :
     e \in { BinE("Mult", ParenE(BinE("Plus", NumE("1"), NumE("2"))), NumE("3")),
             BinE("Minus", NumE("3"), ParenE(BinE("Minus", NumE("2"), NumE("1")))) }}

(***************************************************************************)
(* Upserts with RETURNING of a conflict column that is inserted: the code  *)
(* looks the column up by its bare name among the quoted insert columns.   *)
(***************************************************************************)
KeyedReturnings == {s \in KeyedUpserts : s.returning = "cols" /\ s.conflict.set = <<>>}

\* The upserts whose MERGE or RETURNING text ConvertSpec words otherwise.
UpsertTexts == TwoColumnKeys \cup UninsertedKeys \cup TwoAssignmentUpserts \cup NullKeyUpserts
               \cup KeyedReturnings

(***************************************************************************)
(* Selects the code converts and the spec words otherwise: ORDER BY on a   *)
(* union, an alias or a JOIN in the left operand, FULL JOIN, HAVING, GROUP *)
(* BY a, b, extract(year FROM a); and now() and a JSON operator, which     *)
(* panic.                                                                  *)
(***************************************************************************)
UnionOrderSelects ==
  {SelectStmt(1, SelectN(<<OrderI(ColA, "default", FALSE)>>, NoLimit,
                         UnionN("UNION", FALSE, SelA("t"), SelA("u"))))}
LeftOperandSelects ==
  {SelectStmt(1, Sel(UnionN("UNION", FALSE, Sel(Plain(<<SItem(ColA)>>, l, NoWhere)), SelA("u")))) :
     l \in {Tab("t", "x"),
            JoinT("JOIN", Tab("t", "x"), Tab("u", "y"),
                  OnC(CmpE("=", NameE(<<"x", "a">>), NameE(<<"y", "a">>))))}}
FullJoinSelects ==
  {SelectStmt(1, Sel(Plain(<<SItem(ColA)>>,
                           JoinT("FULL JOIN", Tab("t", "x"), Tab("u", "y"),
                                 OnC(CmpE("=", NameE(<<"x", "a">>), NameE(<<"y", "a">>)))), NoWhere)))}
GroupingSelects ==
  {SelectStmt(1, Sel(ClauseN(FALSE, <<SItem(ColA)>>, FromN(<<Tab("t", "")>>, FALSE), NoWhere, h, g))) :
     <<h, g>> \in {<<WhereN(CmpE(">", ColA, NumE("1"))), <<ColA>>>>, <<NoWhere, <<ColA, ColB>>>>}}
FuncSelects ==
  {SelectStmt(1, Sel(Plain(<<SItem(e)>>, Tab("t", ""), NoWhere))) :
     e \in {FuncE("extract", <<StrE("year"), ColA>>, FALSE), FuncE("now", <<>>, FALSE),
            BinE("JSONFetchVal", ColA, StrE("k"))}}

\* Every select above that the code converts where the spec refuses it or words it otherwise.
SelectDivergences ==
  DescendingOrders \cup UnionOrderSelects \cup LeftOperandSelects \cup FullJoinSelects
  \cup GroupingSelects \cup FuncSelects

\* Every select above on which the code panics.
PanickingSelects ==
  PlaceholderLimits \cup {s \in FuncSelects : s.rows.body.exprs[1].e.k = "bin"
                                             \/ s.rows.body.exprs[1].e.f = "now"}
\* UPDATE t SET x.y.z = 'v1': a name convertUnresolvedName refuses.
ThreePartSetNames ==
  {Stmt("update", 1, "t", <<>>, NilConflict, NilConflict,
        <<Single(<<"x", "y", "z">>, "v1")>>, NoWhere, "absent")}

\* INSERT INTO t (a) VALUES ('v1', 'v2') ON CONFLICT (a) DO NOTHING.
LongRowUpserts ==
  {Stmt("insert", 1, "t", <<"a">>, OneRow(<<"v1", "v2">>),
        Conflict(<<"a">>, TRUE, <<>>), <<>>, NoWhere, "absent")}

\* Every statement above the code converts other than ConvertSpec says.
SpecDivergences ==
  PlainDeletes \cup UpsertTexts \cup ThreePartSetNames \cup LongRowUpserts
  \cup SelectDivergences

\* Every statement above on which the code panics.
PanickingStmts ==
  ReturningWithoutConflict \cup EmptyTexts \cup ShortRowUpserts \cup TupleSubqueryUpdates
  \cup PanickingSelects

-----------------------------------------------------------------------------
(* Statements run on the sample tables of SqlSemantics.                    *)

\* UPDATE t SET b = 'v2' [WHERE a = 'v1' | a IS NOT NULL] RETURNING id: the SET leaves the WHERE as it was.
SetOtherColumnUpdates ==
  {Stmt("update", 1, "t", <<>>, NilConflict, NilConflict, <<Single(<<"b">>, "v2")>>, w, "cols") :
     w \in {NoWhere, WhereA, WhereN(CmpE("IS NOT", ColA, NullE))}}

\* Converted statements whose text does what PostgreSQL does.
ExecutedStmts ==
  PlainInserts \cup SetOtherColumnUpdates
  \cup {s \in Updates : s.set # <<Single(<<"a">>, "v1"), Single(<<"b">>, "v2")>>}

\* UPDATE t SET a = 'v2' WHERE a = 'v1' RETURNING id: the SET makes the WHERE false.
StaleWhereUpdates ==
  {Stmt("update", 1, "t", <<>>, NilConflict, NilConflict, <<Single(<<"a">>, "v2")>>,
        WhereA, "cols")}

\* The RETURNING scripts whose follow-up select reads other rows than PostgreSQL returns.
ReturningDivergences == StaleWhereUpdates

\* The upserts Convert writes a MERGE for, without RETURNING.
MergeUpserts == {s \in KeyedUpserts : s.returning \in {"absent", "nothing"}}
========================================================================
