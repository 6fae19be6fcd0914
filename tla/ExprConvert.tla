----------------------------- MODULE ExprConvert -----------------------------
(***************************************************************************)
(* The expression resolver and the predicate translator                    *)
(* (pkg/builder/extra_common.go, extra_where.go, extra_select.go and       *)
(* pkg/postgres/extra_parser.go) as pure operators over parser nodes.      *)
(*                                                                         *)
(* A parser node is a record whose field k is its Go type.  A text the     *)
(* code writes is a sequence of tokens: an identifier, a keyword, a        *)
(* punctuation mark, a literal's payload.  Concatenating strings in Go is  *)
(* \o here, so a text keeps exactly the tokens and their order, and        *)
(* leaves out spacing.  A Go result (value, error) is Ret(value), Err, or  *)
(* Panic for a runtime panic on the way.                                   *)
(***************************************************************************)
EXTENDS Integers, Sequences, SequencesExt

Ret(v) == [st |-> "ok", v |-> v]
Err    == [st |-> "error"]
Panic  == [st |-> "panic"]
Bad(r) == r.st # "ok"

DQ == "\""   \* the double quote of a quoted identifier
SQ == "'"    \* the single quote of a string literal

-----------------------------------------------------------------------------
(* Parser nodes (the parser is outside src/).                              *)

Star == "*"                                      \* an UnqualifiedStar name part
NameE(parts)   == [k |-> "name", parts |-> parts]      \* UnresolvedName
NumE(txt)      == [k |-> "num", txt |-> txt]           \* NumVal, its OrigString
StrE(s)        == [k |-> "str", s |-> s]               \* StrVal / DString
NullE          == [k |-> "null"]                       \* DNull
BoolE(b)       == [k |-> "bool", b |-> b]              \* DBool
TimestampE(t)  == [k |-> "ts", t |-> t]                \* DTimestamp
CastE(e, type) == [k |-> "cast", e |-> e, type |-> type]
ParenE(e)      == [k |-> "paren", e |-> e]
BinE(op, l, r) == [k |-> "bin", op |-> op, l |-> l, r |-> r]
CaseE(castSubject) == [k |-> "case", castSubject |-> castSubject]
OtherE(t)      == [k |-> "other", t |-> t]             \* any other node kind
NoExpr         == [k |-> "nil"]                        \* a nil Expr field
\* FuncExpr: f its lower-cased name, window a FILTER or OVER clause.
FuncE(f, args, window) == [k |-> "func", f |-> f, args |-> args, window |-> window]
\* A type name as Type.String() prints it: name and (precision, scale) suffix.
TypeName(name, suffix) == [name |-> name, suffix |-> suffix]

\* Boolean nodes: AND, OR, a comparison, a range, and NOT (no other kind).
AndE(l, r) == [k |-> "and", l |-> l, r |-> r]
OrE(l, r)  == [k |-> "or", l |-> l, r |-> r]
NotE(e)    == [k |-> "not", e |-> e]
CmpE(op, l, r) == [k |-> "cmp", op |-> op, l |-> l, r |-> r, sub |-> FALSE]
AnyCmpE(op, l, r) == [k |-> "cmp", op |-> op, l |-> l, r |-> r, sub |-> TRUE]
RangeE(not, l, lo, hi) == [k |-> "range", not |-> not, l |-> l, lo |-> lo, hi |-> hi]

\* Node.String(): the parser's own rendering, one token per distinct node.
RawText(e) == <<ToString(e)>>

-----------------------------------------------------------------------------
(* Resolved values: a Go value of dynamic type go, displayed as tokens x. *)

GoVal(go, x) == [go |-> go, x |-> x]

\* Q: a string literal in single quotes (the payloads here hold no quote).
Q(x) == <<SQ>> \o x \o <<SQ>>

\* getDisplayValue: a Go string quoted, an Expr verbatim, a number by %v.
GetDisplayValue(v) == IF v.go = "string" THEN Q(v.x) ELSE v.x

(***************************************************************************)
(* NumVal.ParseValue: strconv.ParseInt accepts the decimal integers, then  *)
(* strconv.ParseFloat also the decimal fractions; what neither accepts (a  *)
(* hexadecimal literal) ParseDDecimal refuses as well.                     *)
(***************************************************************************)
IntTexts   == {ToString(n) : n \in 0..9}
FloatTexts == IntTexts \cup {"1.5"}

ParseValue(txt) ==
  CASE txt \in IntTexts   -> Ret(GoVal("int64", <<txt>>))
    [] txt \in FloatTexts -> Ret(GoVal("float64", <<txt>>))
    [] OTHER              -> Err

\* PGOracleTypeMap, for the type names the models cast to.
PGOracleTypeMap ==
  ("CHAR" :> "VARCHAR2(4000)") @@ ("VARCHAR" :> "VARCHAR2(4000)") @@
  ("TEXT" :> "CLOB") @@ ("JSON" :> "CLOB") @@ ("UUID" :> "RAW") @@
  ("BYTEA" :> "BLOB") @@ ("NUMERIC" :> "NUMBER") @@ ("DECIMAL" :> "NUMBER") @@
  ("INTEGER" :> "NUMBER") @@ ("INT" :> "NUMBER") @@ ("BIGINT" :> "NUMBER") @@
  ("DEC" :> "NUMBER") @@ ("FLOAT4" :> "FLOAT") @@ ("FLOAT8" :> "FLOAT") @@
  ("FLOAT" :> "FLOAT") @@ ("TIMESTAMP" :> "TIMESTAMP") @@ ("DATE" :> "DATE")

\* ConvertPGTypeToOracle: NUMERIC... keeps its suffix, the rest is looked up.
ConvertPGTypeToOracle(t) ==
  IF t.name = "NUMERIC"
    THEN Ret(<<"NUMBER" \o t.suffix>>)
    ELSE IF t.name \o t.suffix \in DOMAIN PGOracleTypeMap
           THEN Ret(<<PGOracleTypeMap[t.name \o t.suffix]>>)
           ELSE Err

(***************************************************************************)
(* convertUnresolvedName: "c" for one part, t."c" for two, an error for    *)
(* more parts or for a part that is no parser.Name (a star).               *)
(***************************************************************************)
ConvertUnresolvedName(parts) ==
  CASE parts[1] = Star                       -> Err
    [] Len(parts) = 1                        -> Ret(<<DQ, parts[1], DQ>>)
    [] Len(parts) = 2 /\ parts[2] = Star     -> Err
    [] Len(parts) = 2                        -> Ret(<<parts[1], ".", DQ, parts[2], DQ>>)
    [] OTHER                                 -> Err

\* funcSupported, and binaryOpName, an array indexed by the operator.
FuncSupported == {"now", "count", "extract", "sum", "avg"}
BinaryOpName  ==
  ("Bitand" :> "&") @@ ("Bitor" :> "|") @@ ("Bitxor" :> "#") @@ ("Plus" :> "+") @@
  ("Minus" :> "-") @@ ("Mult" :> "*") @@ ("Div" :> "/") @@ ("FloorDiv" :> "//") @@
  ("Mod" :> "%") @@ ("Pow" :> "^") @@ ("Concat" :> "||") @@ ("LShift" :> "<<") @@
  ("RShift" :> ">>")
\* Operators the parser numbers past RShift, the last index of the array.
OpsPastTable  == {"JSONFetchVal"}

-----------------------------------------------------------------------------
(* getValueFromExpr with convertFunc and convertBinary, which call it.     *)

RECURSIVE GetValueFromExpr(_)

(***************************************************************************)
(* convertFunc: the allow-list, then no FILTER or OVER.  extract writes    *)
(* its field with the quotes trimmed and its source: a name, which it      *)
(* wraps in a double quote on each side of what convertUnresolvedName      *)
(* already quoted, or a function, of which it writes the name only (now    *)
(* becomes SYSTIMESTAMP).  Any other function takes exactly one argument,  *)
(* an UnresolvedName: Exprs[0] of a call without arguments is out of       *)
(* range.  DISTINCT in the call is not read.                               *)
(***************************************************************************)
ExtractField(a) == IF a.k = "str" THEN a.s ELSE RawText(a)[1]

ConvertFunc(e) ==
  CASE e.f \notin FuncSupported \/ e.window -> Err
    [] e.f = "extract" /\ Len(e.args) < 2 -> Panic
    [] e.f = "extract" ->
         LET src == e.args[2]
             pre == <<"EXTRACT", "(", ExtractField(e.args[1]), "FROM">>
             n   == ConvertUnresolvedName(src.parts)
         IN  CASE src.k = "name" /\ Bad(n) -> n
               [] src.k = "name" -> Ret(GoVal("expr", pre \o <<DQ>> \o n.v \o <<DQ, ")">>))
               [] src.k = "func" ->
                    Ret(GoVal("expr", pre \o <<IF src.f = "now" THEN "SYSTIMESTAMP" ELSE src.f, ")">>))
               [] OTHER -> Err
    [] Len(e.args) > 1 -> Err
    [] Len(e.args) = 0 -> Panic
    [] e.args[1].k # "name" -> Err
    [] OTHER ->
         LET n == ConvertUnresolvedName(e.args[1].parts)
         IN  IF Bad(n) THEN n ELSE Ret(GoVal("expr", <<e.f, "(">> \o n.v \o <<")">>))

\* Mutant: the operands written in the opposite order.
ConvertBinarySwapped(e) ==
  LET l == GetValueFromExpr(e.l)
      r == GetValueFromExpr(e.r)
  IN  CASE Bad(l) -> l
        [] Bad(r) -> r
        [] e.op \notin DOMAIN BinaryOpName -> Panic
        [] OTHER -> Ret(GoVal("expr", GetDisplayValue(r.v) \o <<BinaryOpName[e.op]>>
                                     \o GetDisplayValue(l.v)))

(***************************************************************************)
(* convertBinary: both operands resolved, left first, and written as       *)
(* "left op right" with the symbol binaryOpName[op]; an operator past the  *)
(* end of the array is an index out of range.                              *)
(***************************************************************************)
ConvertBinary(e) ==
  LET l == GetValueFromExpr(e.l)
      r == GetValueFromExpr(e.r)
  IN  CASE Bad(l) -> l
        [] Bad(r) -> r
        [] e.op \notin DOMAIN BinaryOpName -> Panic
        [] OTHER -> Ret(GoVal("expr", GetDisplayValue(l.v) \o <<BinaryOpName[e.op]>>
                                     \o GetDisplayValue(r.v)))

\* StrVal.OriginalString (pkg/postgres/extra_parser.go): the literal's text.
OriginalString(e) == e.s

(***************************************************************************)
(* getValueFromExpr: a cast maps its type before it resolves its operand;  *)
(* a parenthesised expression becomes the Expr of its operand's display,   *)
(* without the parentheses; a nil Expr reaches v.String() in the default   *)
(* arm, a nil dereference.                                                 *)
(***************************************************************************)
GetValueFromExpr(e) ==
  CASE e.k = "ts"    -> Ret(GoVal("string", <<e.t>>))
    [] e.k = "num"   -> ParseValue(e.txt)
    [] e.k = "cast"  ->
         LET ct == ConvertPGTypeToOracle(e.type)
             in == GetValueFromExpr(e.e)
         IN  CASE Bad(ct) -> ct
               [] Bad(in) -> in
               [] OTHER   -> Ret(GoVal("expr", <<"CAST", "(">> \o GetDisplayValue(in.v)
                                                \o <<"AS">> \o ct.v \o <<")">>))
    [] e.k = "str"   -> Ret(GoVal("string", <<OriginalString(e)>>))
    [] e.k = "func"  -> ConvertFunc(e)
    [] e.k = "bin"   -> ConvertBinary(e)
    [] e.k = "paren" ->
         LET in == GetValueFromExpr(e.e)
         IN  IF Bad(in) THEN in ELSE Ret(GoVal("expr", GetDisplayValue(in.v)))
    [] e.k = "bool"  -> Ret(GoVal("int", <<IF e.b THEN "1" ELSE "0">>))
    [] e.k = "name"  ->
         LET n == ConvertUnresolvedName(e.parts)
         IN  IF Bad(n) THEN n ELSE Ret(GoVal("expr", n.v))
    [] e.k = "nil"   -> Panic
    [] OTHER         -> Ret(GoVal("expr", RawText(e)))

\* getExprDisplayValue
GetExprDisplayValue(e) ==
  LET v == GetValueFromExpr(e)
  IN  IF Bad(v) THEN v ELSE Ret(GetDisplayValue(v.v))

-----------------------------------------------------------------------------
(***************************************************************************)
(* The predicate translator.  A Condition of the builder is a record: the  *)
(* leaves Eq, Gt, Gte, Lt, Lte, Neq of a displayed left side and a Go      *)
(* value, IsNull and NotNull, a raw Expr fragment, and And and Or.         *)
(***************************************************************************)
Leaf(op, left, value) == [c |-> op, l |-> left, v |-> value]
NullLeaf(op, left)    == [c |-> op, l |-> left]
CondExpr(sql)         == [c |-> "expr", sql |-> sql]
CondAnd(l, r)         == [c |-> "and", l |-> l, r |-> r]
CondOr(l, r)          == [c |-> "or", l |-> l, r |-> r]

\* The comparison operators with a leaf of their own.
LeafOps == {"=", ">", ">=", "<", "<=", "<>"}

(***************************************************************************)
(* convertRangeCond: the left side must be an UnresolvedName; then both    *)
(* bounds are resolved and "left [NOT] BETWEEN lo AND hi" written.         *)
(***************************************************************************)
ConvertRangeCond(e) ==
  LET n  == ConvertUnresolvedName(e.l.parts)
      lo == GetValueFromExpr(e.lo)
      hi == GetValueFromExpr(e.hi)
  IN  CASE e.l.k # "name" -> Err
        [] Bad(n)  -> n
        [] Bad(lo) -> lo
        [] Bad(hi) -> hi
        [] OTHER   -> Ret(CondExpr(n.v \o (IF e.not THEN <<"NOT">> ELSE <<>>)
                                   \o <<"BETWEEN">> \o GetDisplayValue(lo.v)
                                   \o <<"AND">> \o GetDisplayValue(hi.v)))

(***************************************************************************)
(* convertComparisonExpr: no ANY/ALL/SOME; the right side is resolved      *)
(* first, then the left side's display (its error wrapped, its panic not). *)
(* IS and IS NOT need the right side to be DNull; ILIKE is written with    *)
(* UPPER on both sides, the pattern by the parser's rendering; any other   *)
(* operator as the node's own rendering.                                   *)
(***************************************************************************)
ConvertComparisonExpr(e) ==
  LET value == GetValueFromExpr(e.r)
      left  == GetExprDisplayValue(e.l)
  IN  CASE e.sub        -> Err
        [] Bad(value)   -> value
        [] left.st = "panic" -> left
        [] Bad(left)    -> Err
        [] e.op \in LeafOps -> Ret(Leaf(e.op, left.v, value.v))
        [] e.op \in {"IS", "IS NOT"} ->
             IF e.r # NullE THEN Err ELSE Ret(NullLeaf(e.op, left.v))
        [] e.op \in {"ILIKE", "NOT ILIKE"} ->
             Ret(CondExpr(<<"UPPER", "(">> \o left.v \o <<")">>
                          \o (IF e.op = "NOT ILIKE" THEN <<"NOT">> ELSE <<>>)
                          \o <<"LIKE", "UPPER", "(">> \o RawText(e.r) \o <<")">>))
        [] OTHER -> Ret(CondExpr(RawText(e)))

\* convertExprToCond: AND and OR recurse left then right, parentheses unwrap.
RECURSIVE ConvertExprToCond(_)
ConvertExprToCond(e) ==
  CASE e.k \in {"and", "or"} ->
         LET l == ConvertExprToCond(e.l)
             r == ConvertExprToCond(e.r)
         IN  CASE Bad(l) -> l
               [] Bad(r) -> r
               [] e.k = "and" -> Ret(CondAnd(l.v, r.v))
               [] OTHER -> Ret(CondOr(l.v, r.v))
    [] e.k = "cmp"   -> ConvertComparisonExpr(e)
    [] e.k = "paren" -> ConvertExprToCond(e.e)
    [] e.k = "range" -> ConvertRangeCond(e)
    [] OTHER         -> Err
=============================================================================
