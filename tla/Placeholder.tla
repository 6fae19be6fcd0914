----------------------------- MODULE Placeholder -----------------------------
(***************************************************************************)
(* The placeholder translation of CustomBuilder.Convert and ToBoundSQL     *)
(* (pkg/builder/extra_convert.go, extra_builder.go), one loop iteration    *)
(* per step:                                                               *)
(*   1. convertDollar scans the input text and turns every "$<digits>" it  *)
(*      takes for a marker into the string literal  '<sentinel><digits>'.  *)
(*   2. The external parser lexes that text and the external builder       *)
(*      renders it again (not under src/, modelled from spec.md 6).        *)
(*   3. convertPlaceHolder finds every sentinel in the rendered text and   *)
(*      writes the target marker followed by the digits in its place.      *)
(* Characters are the classes of PlaceholderSpec; "S" is the sentinel      *)
(* CustomPlaceHolder (the 11 characters "--cvted-phs") as one token.       *)
(***************************************************************************)
EXTENDS Sequences, SequencesExt

CONSTANTS
  Digits,        \* the digit characters
  TargetMarker,  \* the marker syntax the abstract translation is held to
  Inputs         \* the texts given to Convert

\* Mutant: the positional syntax ":<digits>" of the unit tests.
ArgMarkerPositional == ":"

\* The marker convertPlaceHolder writes: the format string "%s:arg".
ArgMarker == ":arg"


VARIABLES
  input,               \* the text given to Convert
  k,                   \* convertDollar: index of the character in hand
  out,                 \* convertDollar: the text written so far
  currentPlaceHolder,  \* convertDollar: inside a marker's digit run
  pc,                  \* the phase of the conversion
  sql,                 \* convertPlaceHolder: the text not yet scanned
  converted            \* convertPlaceHolder: the text written so far

vars == <<input, k, out, currentPlaceHolder, pc, sql, converted>>

Sentinel == "S"
Quote    == "q"

\* A byte that is no UTF-8 encoding, and the rune U+FFFD.
InvalidByte == "~"
Replacement == "R"

(***************************************************************************)
(* range over a Go string yields utf8.RuneError for a byte that is no      *)
(* UTF-8 encoding, and WriteRune writes the encoding of that rune, U+FFFD. *)
(***************************************************************************)
RuneWritten(c) == IF c = InvalidByte THEN Replacement ELSE c

Phases == {"dollar", "render", "placeholder", "done", "parseError", "panic"}

-----------------------------------------------------------------------------
(***************************************************************************)
(* The external parser and renderer (spec_modelled).  A text lexes when    *)
(* its string literals are closed.  Rendering keeps literals and other     *)
(* tokens as they were (a literal is re-quoted by Q, which gives back the  *)
(* same text) and drops a comment: the sentinel begins with "--", so a     *)
(* sentinel outside a literal starts a comment that runs to the end.       *)
(***************************************************************************)
QuoteCount(s) == Len(SelectSeq(s, LAMBDA c : c = Quote))

InLiteralAt(s, i) == QuoteCount(SubSeq(s, 1, i - 1)) % 2 = 1

Render(s) ==
  LET commentAt == {i \in 1..Len(s) : s[i] = Sentinel /\ ~InLiteralAt(s, i)}
  IN  IF commentAt = {} THEN s ELSE SubSeq(s, 1, Min(commentAt) - 1)

\* The text before the comment has its literals closed.
ParseOK(s) == QuoteCount(Render(s)) % 2 = 0

-----------------------------------------------------------------------------
Init ==
  /\ input \in Inputs
  /\ k = 1
  /\ out = <<>>
  /\ currentPlaceHolder = FALSE
  /\ pc = "dollar"
  /\ sql = <<>>
  /\ converted = <<>>

(***************************************************************************)
(* convertDollar, the condition of the first branch: a "$" that is not the *)
(* last or the first character, is followed by a digit and does not follow *)
(* a quote.                                                                *)
(***************************************************************************)
IsMarkerStart(s, i) ==
  /\ s[i] = "$"
  /\ i # Len(s)
  /\ s[i + 1] \in Digits
  /\ i # 1
  /\ s[i - 1] # Quote

\* The marker start becomes the opening quote and the sentinel.
DollarMarker ==
  /\ pc = "dollar"
  /\ k <= Len(input)
  /\ IsMarkerStart(input, k)
  /\ out' = out \o <<Quote, Sentinel>>
  /\ currentPlaceHolder' = TRUE
  /\ k' = k + 1
  /\ UNCHANGED <<input, pc, sql, converted>>

\* Any other character is copied; a non-digit first closes an open marker.
DollarCopy ==
  /\ pc = "dollar"
  /\ k <= Len(input)
  /\ ~IsMarkerStart(input, k)
  /\ LET closes == input[k] \notin Digits /\ currentPlaceHolder
     IN  /\ out' = out \o (IF closes THEN <<Quote>> ELSE <<>>) \o <<RuneWritten(input[k])>>
         /\ currentPlaceHolder' = (currentPlaceHolder /\ ~closes)
  /\ k' = k + 1
  /\ UNCHANGED <<input, pc, sql, converted>>

\* Mutant: the loop ends without closing a marker that ends the text.
DollarEndNoClose ==
  /\ pc = "dollar"
  /\ k > Len(input)
  /\ pc' = "render"
  /\ UNCHANGED <<input, k, out, currentPlaceHolder, sql, converted>>

\* End of input: an open marker is closed.
DollarEnd ==
  /\ pc = "dollar"
  /\ k > Len(input)
  /\ out' = out \o (IF currentPlaceHolder THEN <<Quote>> ELSE <<>>)
  /\ pc' = "render"
  /\ UNCHANGED <<input, k, currentPlaceHolder, sql, converted>>

(***************************************************************************)
(* parser.Parse of the cleaned text, then the builder's ToBoundSQL; the    *)
(* rendered text goes to convertPlaceHolder.                               *)
(***************************************************************************)
ParseAndRender ==
  /\ pc = "render"
  /\ IF ParseOK(out)
       THEN /\ sql' = Render(out)
            /\ pc' = "placeholder"
       ELSE /\ pc' = "parseError"
            /\ UNCHANGED sql
  /\ UNCHANGED <<input, k, out, currentPlaceHolder, converted>>

(***************************************************************************)
(* convertPlaceHolder, one iteration of its loop.  idx is the 1-based      *)
(* position of the first sentinel; input[:idx-1] in the code drops the one *)
(* character before it (the opening quote), and slices out of range when  *)
(* the sentinel is the first character.  The digit run is copied after    *)
(* the target marker, and the character that ends it is consumed.         *)
(***************************************************************************)
PlaceHolderReplace ==
  /\ pc = "placeholder"
  /\ Contains(sql, Sentinel)
  /\ LET idx    == SelectInSeq(sql, LAMBDA c : c = Sentinel)
         after  == SubSeq(sql, idx + 1, Len(sql))
         nonDig == SelectInSeq(after, LAMBDA c : c \notin Digits)
         digits == IF nonDig = 0 THEN after ELSE SubSeq(after, 1, nonDig - 1)
         rest   == IF nonDig = 0 THEN <<>> ELSE SubSeq(after, nonDig + 1, Len(after))
     IN  IF idx = 1
           THEN /\ pc' = "panic"
                /\ UNCHANGED <<sql, converted>>
           ELSE /\ converted' = converted \o SubSeq(sql, 1, idx - 2)
                                  \o <<ArgMarker>> \o digits
                /\ sql' = rest
                /\ UNCHANGED pc
  /\ UNCHANGED <<input, k, out, currentPlaceHolder>>

\* No sentinel left: the rest of the text is copied.
PlaceHolderEnd ==
  /\ pc = "placeholder"
  /\ ~Contains(sql, Sentinel)
  /\ converted' = converted \o sql
  /\ sql' = <<>>
  /\ pc' = "done"
  /\ UNCHANGED <<input, k, out, currentPlaceHolder>>

Next ==
  \/ DollarMarker
  \/ DollarCopy
  \/ DollarEnd
  \/ ParseAndRender
  \/ PlaceHolderReplace
  \/ PlaceHolderEnd

Finished == pc \in {"done", "parseError", "panic"}

Spec == Init /\ [][Next]_vars /\ WF_vars(Next)

-----------------------------------------------------------------------------
\* The characters of an input, and those of a converted text: no sentinel is
\* left and markers are written in the target syntax.
InputChars == {" ", "x", Quote, "$", InvalidByte} \cup Digits

OutChars == InputChars \cup {TargetMarker, Replacement}

TypeOK ==
  /\ input \in Inputs
  /\ k \in 1..(Len(input) + 1)
  /\ out \in Seq(InputChars \cup {Sentinel, Replacement})
  /\ currentPlaceHolder \in BOOLEAN
  /\ pc \in Phases
  /\ sql \in Seq(InputChars \cup {Sentinel, Replacement})
  /\ converted \in Seq(OutChars)

\* The outcome of the conversion so far, in the terms of PlaceholderSpec.
Outcome ==
  CASE pc = "done"       -> {<<"ok", converted>>}
    [] pc = "parseError" -> {<<"error", <<>>>>}
    [] OTHER             -> {}

Abstract == INSTANCE PlaceholderSpec WITH text <- input, result <- Outcome

(***************************************************************************)
(* convertDollar, the parse and convertPlaceHolder together implement the  *)
(* one-step translation of PlaceholderSpec: every conversion of a text     *)
(* that lexes ends (no panic, no parse error) with the reference           *)
(* translation of the input, marker for marker and character for          *)
(* character, and a text that does not lex is refused.                     *)
(***************************************************************************)
ImplementsTranslation == Abstract!Spec

(***************************************************************************)
(* The same promise as a state predicate: once the conversion has stopped, *)
(* its outcome is the one of the reference translation.                    *)
(***************************************************************************)
RoundTrip ==
  Finished => Outcome = {IF Abstract!Lexes(input)
                           THEN Abstract!Ok(Abstract!Expected(input))
                           ELSE Abstract!Refused}
=============================================================================
