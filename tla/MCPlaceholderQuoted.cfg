\* A "$" inside a string literal is left alone (spec.md 4.1: quote-aware),
\* adjacent markers such as $1$2 each come out as a marker (spec.md 4.1), and
\* a literal the user wrote is kept whatever it holds (spec.md 8).
CONSTANTS
  Digits <- MCDigits
  TargetMarker <- CodeMarker
  Inputs <- DollarScanTexts

SPECIFICATION Spec

INVARIANT RoundTrip

\* A conversion is a function call that returns: its final states have no
\* successor.
CHECK_DEADLOCK FALSE
