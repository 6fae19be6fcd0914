--------------------------- MODULE PlaceholderSpec ---------------------------
(***************************************************************************)
(* What the placeholder translation of the converter promises (spec.md     *)
(* 4.1, 3 and 6): a statement text goes in, and what comes out is the same *)
(* text in which every positional marker  $<digits>  that is a marker of   *)
(* the source dialect (outside a string literal, not the first character,  *)
(* not after a quote)                                                      *)
(* is written in the target dialect's marker syntax with the same digits.  *)
(* Every other character is kept.  A text the parser cannot lex is        *)
(* refused.  One step, no intermediate states.                            *)
(*                                                                         *)
(* Text is abstracted to a sequence of character classes:                  *)
(*   " "  a separator or operator character (space, comma, parenthesis)    *)
(*   "x"  an identifier character                                          *)
(*   "q"  the single-quote character                                       *)
(*   "$"  the dollar character                                             *)
(*   members of Digits                                                     *)
(*   "~"  a byte that is no UTF-8 encoding (a Latin-1 letter, say)         *)
(* TargetMarker is the token written in place of "$".                      *)
(***************************************************************************)
EXTENDS Integers, Sequences

CONSTANTS Digits, TargetMarker, Inputs

VARIABLES text, result

(***************************************************************************)
(* result is the set of outcomes produced: empty before the translation,   *)
(* then one outcome, <<"ok", text>> or <<"error", <<>>>>.                  *)
(***************************************************************************)
None == {}
Ok(t) == <<"ok", t>>
Refused == <<"error", <<>>>>

\* The parser refuses a text whose last string literal is not closed.
Lexes(s) == Len(SelectSeq(s, LAMBDA c : c = "q")) % 2 = 0

\* prev of the first character: no character precedes it.
Start == "^"

(***************************************************************************)
(* The reference translation.  inStr is TRUE inside a string literal (a    *)
(* quote toggles it, so a doubled quote leaves it unchanged), prev is the  *)
(* character before the head of s.  A "$" starts a marker when it is       *)
(* outside a literal, is followed by a digit, and is neither the first     *)
(* character nor preceded by a quote (spec.md 4.1).                        *)
(***************************************************************************)
RECURSIVE Ref(_, _, _)
Ref(s, inStr, prev) ==
  IF s = <<>> THEN <<>>
  ELSE LET c        == Head(s)
           isMarker == /\ c = "$" /\ ~inStr /\ prev \notin {Start, "q"}
                       /\ Len(s) > 1 /\ s[2] \in Digits
       IN  <<IF isMarker THEN TargetMarker ELSE c>>
             \o Ref(Tail(s), IF c = "q" THEN ~inStr ELSE inStr, c)

Expected(s) == Ref(s, FALSE, Start)

Init == /\ text \in Inputs
        /\ result = None

Translate == /\ result = None
             /\ result' = {IF Lexes(text) THEN Ok(Expected(text)) ELSE Refused}
             /\ UNCHANGED text

\* The translation is a total function: it always produces its result.
Spec == Init /\ [][Translate]_<<text, result>> /\ WF_<<text, result>>(Translate)
=============================================================================
