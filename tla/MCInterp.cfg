SPECIFICATION FairSpec
CONSTANTS
  LookupMethod <- MCLookupMethod
  ParentClass <- MCParentClass
  Primitive <- MCPrimitive
  InitHeaps <- MCInitHeaps
  aProcess <- oMain
  nilObject <- oNil
  trueObject <- oTrue
  falseObject <- oFalse
  ArrayClass <- cArray
  ContextClass <- cContext
  BlockClass <- cBlock
  SmallIntClass <- cInt
  MethodClass <- cMethod
  badMethodSym <- sDNU
  binaryMessages <- MCBinaryMessages
  Programs <- CollectedPrograms
  Nested <- NestedProgram
  Slices <- Suspended
  Halting <- HaltingPrograms
  MaxCollections = 3
  SlicedCollections = 0
  MaxDepth = 9
INVARIANTS
  TypeOK
  AsDenoted
  RegistersCoherent
  RootsBalanced
  ResumedAfterSend
  NoStaleUse
PROPERTIES
  Terminates
CHECK_DEADLOCK FALSE
