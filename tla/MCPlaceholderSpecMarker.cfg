\* Markers come out as ":<digits>" (spec.md 4.1 and 6, the unit tests).
CONSTANTS
  Digits <- MCDigits
  TargetMarker <- SpecMarker
  Inputs <- SeparatedTexts

SPECIFICATION Spec

INVARIANT RoundTrip

\* A conversion is a function call that returns: its final states have no
\* successor.
CHECK_DEADLOCK FALSE
