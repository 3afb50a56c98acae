SPECIFICATION Spec
CONSTANTS
  Keywords <- MCKeywords
  Binaries <- MCBinaries
  Numeral <- MCNumeral
  Quoted <- MCQuoted
  Variables <- TwiceNamed
  Globals <- MCGlobals
  Sources <- OneSource
  Previous <- MCPrevious
  MaxTests = 5
INVARIANT SameVariables
CHECK_DEADLOCK FALSE
