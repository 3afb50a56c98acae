SPECIFICATION Spec
CONSTANTS
  Keywords <- MCKeywords
  Binaries <- MCBinaries
  Numeral <- MCNumeral
  Quoted <- MCQuoted
  Variables <- MCVariables
  Globals <- MCGlobals
  Sources <- NestedSources
  Previous <- MCPrevious
  MaxTests = 5
INVARIANT LoopsLeaveNothing
CHECK_DEADLOCK FALSE
