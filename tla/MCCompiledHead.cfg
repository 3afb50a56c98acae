SPECIFICATION Spec
CONSTANTS
  Keywords <- MCKeywords
  Binaries <- MCBinaries
  Numeral <- MCNumeral
  Quoted <- MCQuoted
  Variables <- MCVariables
  Globals <- MCGlobals
  Sources <- HeadSources
  Previous <- MCPrevious
  MaxTests = 5
INVARIANT StackSuffices
CHECK_DEADLOCK FALSE
