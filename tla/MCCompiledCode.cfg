SPECIFICATION Spec
CONSTANTS
  Keywords <- MCKeywords
  Binaries <- MCBinaries
  Numeral <- MCNumeral
  Quoted <- MCQuoted
  Variables <- MCVariables
  Globals <- MCGlobals
  Sources <- MCSources
  Previous <- MCPrevious
  MaxTests = 5
INVARIANTS
  DoesWhatItSays
  StackSuffices
  LoopsLeaveNothing
CHECK_DEADLOCK FALSE
