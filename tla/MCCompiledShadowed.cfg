SPECIFICATION Spec
CONSTANTS
  Keywords <- MCKeywords
  Binaries <- MCBinaries
  Numeral <- MCNumeral
  Quoted <- MCQuoted
  Variables <- MCVariables
  Globals <- MCGlobals
  Sources <- ShadowedSources
  Previous <- MCPrevious
  MaxTests = 5
INVARIANT DoesWhatItSays
CHECK_DEADLOCK FALSE
