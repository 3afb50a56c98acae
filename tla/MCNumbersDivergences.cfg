\* What fails of the numbers: TLC stops at the first, so uncomment one at a time.
SPECIFICATION Spec
CONSTANTS
  Width = 5
  Optimised = FALSE
  Operands <- SmallLiterals
  Messages <- Divergent
INVARIANTS
  ConversionExact
\*  SmallIntsFit
\*  ShiftExact
CHECK_DEADLOCK FALSE
