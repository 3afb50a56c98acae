SPECIFICATION Spec
CONSTANTS
  Width = 5
  Optimised = FALSE
  Operands <- AllLiterals
  Messages <- AllMessages
INVARIANTS
  SmallExact
  IntegerExact
CHECK_DEADLOCK FALSE
