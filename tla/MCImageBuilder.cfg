SPECIFICATION Spec
CONSTANTS
  nil = nil
  Garbage = Garbage
  Sources <- MCSources
  Changes <- MCChanges
  Premade <- MCPremade
  Others <- MCOthers
  Meta <- MCMeta
  Object <- MCObject
  Class <- MCClass
  Undefined <- MCUndefined
  Method <- MCMethod
  Node <- MCNode
  NilName <- MCNil
  specialSymbols <- MCspecialSymbols
  Smalltalk <- MCSmalltalk
  Specials <- MCSpecials
  WebIDE <- MCWebIDE
  REPL <- MCREPL
  start <- MCstart
  ClassSize = 2
  MAX_GLOBALS = 20
INVARIANTS
  MessagesFound
  NamesFound
  SymbolsFound
  VariablesFit
CHECK_DEADLOCK FALSE
