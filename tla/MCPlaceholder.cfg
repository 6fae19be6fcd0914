\* Placeholder round trip on texts with no "$" inside a literal or after a digit.
CONSTANTS
  Digits <- MCDigits
  TargetMarker <- CodeMarker
  Inputs <- PlainTexts

SPECIFICATION Spec

INVARIANT TypeOK
PROPERTY ImplementsTranslation

\* A conversion is a function call that returns: its final states have no
\* successor.
CHECK_DEADLOCK FALSE
