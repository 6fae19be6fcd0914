---------------------------- MODULE MCPlaceholder ----------------------------
(***************************************************************************)
(* Model-checking instance of Placeholder: texts of up to MaxLen character *)
(* classes, two digit characters (so multi-digit markers such as $12 and   *)
(* $21 occur), both marker syntaxes.                                         *)
(***************************************************************************)
EXTENDS Placeholder

MaxLen == 5

MCDigits == {"1", "2"}

\* The marker the code writes (convertPlaceHolder's ":arg") and the one
\* spec.md 6 and the unit tests expect (":1" for $1).
CodeMarker == ":arg"
SpecMarker == ":"

Alphabet == {" ", "x", Quote, "$"} \cup MCDigits

AllTexts == SeqOf(Alphabet, MaxLen)

\* A "$" as applications write a marker: after a separator, followed by a digit.
MarkerAfterSeparator(s, i) ==
  /\ i > 1 /\ s[i - 1] = " "
  /\ i < Len(s) /\ s[i + 1] \in MCDigits

\* No "$" inside a literal, and none right after a digit (two adjacent markers).
PlainTexts ==
  {s \in AllTexts :
     \A i \in 1..Len(s) :
       s[i] = "$" => ~InLiteralAt(s, i) /\ (i = 1 \/ s[i - 1] \notin MCDigits)}

\* Every "$" is a marker after a separator, outside any literal.
SeparatedTexts ==
  {s \in AllTexts :
     \A i \in 1..Len(s) :
       s[i] = "$" => MarkerAfterSeparator(s, i) /\ ~InLiteralAt(s, i)}

\* As SeparatedTexts, and a "$" may also stand anywhere inside a closed literal.
QuotedDollarTexts ==
  {s \in AllTexts :
     /\ ParseOK(s)
     /\ \A i \in 1..Len(s) :
          s[i] = "$" => InLiteralAt(s, i) \/ MarkerAfterSeparator(s, i)}

\* Markers outside literals, one of them written right after another.
AdjacentMarkerTexts ==
  {s \in AllTexts :
     \A i \in 1..Len(s) : s[i] = "$" => ~InLiteralAt(s, i)}

\* A user's string literal holding the sentinel text "--cvted-phs", no "$" anywhere.
UserSentinelTexts ==
  {s \in SeqOf((Alphabet \ {"$"}) \cup {Sentinel}, 4) :
     /\ Contains(s, Sentinel)
     /\ ParseOK(s)
     /\ \A i \in 1..Len(s) : s[i] = Sentinel => InLiteralAt(s, i)}

\* A literal holding a byte that is no UTF-8 encoding, no "$" anywhere.
InvalidByteTexts ==
  {s \in SeqOf((Alphabet \ {"$"}) \cup {InvalidByte}, 4) :
     /\ Contains(s, InvalidByte)
     /\ ParseOK(s)
     /\ \A i \in 1..Len(s) : s[i] = InvalidByte => InLiteralAt(s, i)}

(***************************************************************************)
(* A "$" in a literal, markers written one right after another, the        *)
(* sentinel in a literal, and a literal holding a byte that is no UTF-8.   *)
(***************************************************************************)
DollarScanTexts ==
  QuotedDollarTexts \cup AdjacentMarkerTexts \cup UserSentinelTexts \cup InvalidByteTexts
=============================================================================
