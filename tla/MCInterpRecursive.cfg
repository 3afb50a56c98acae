SPECIFICATION FairSpec
CONSTANTS
  LookupMethod <- MCLookupMethod
  ParentClass <- MCParentClass
  Primitive <- MCPrimitive
  InitHeaps <- MCInitHeaps
  aProcess <- oMain
  nilObject <- oNil
  trueObject <- oTrue
  falseObject <- oFalse
  ArrayClass <- cArray
  ContextClass <- cContext
  BlockClass <- cBlock
  SmallIntClass <- cInt
  MethodClass <- cMethod
  badMethodSym <- sDNU
  binaryMessages <- MCBinaryMessages
  Programs <- RecursiveProgram
  Nested = {}
  Slices = {}
  Halting = {}
  MaxCollections = 0
  SlicedCollections = 0
  MaxDepth = 9
PROPERTIES
  Terminates
CHECK_DEADLOCK FALSE
