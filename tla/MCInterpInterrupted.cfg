SPECIFICATION FairSpec
CONSTANTS
  LookupMethod <- MCLookupMethod
  ParentClass <- MCParentClass
  Primitive <- MCPrimitive
  InitHeaps <- MCInitHeaps
  aProcess <- oMain
  nilObject <- oNil
  trueObject <- oTrue
  falseObject <- oFalse
  ArrayClass <- cArray
  ContextClass <- cContext
  BlockClass <- cBlock
  SmallIntClass <- cInt
  MethodClass <- cMethod
  badMethodSym <- sDNU
  binaryMessages <- MCBinaryMessages
  Programs = {}
  Nested = {}
  Slices <- Interrupted
  Halting = {}
  MaxCollections = 0
  SlicedCollections = 1
  MaxDepth = 9
INVARIANTS
  NoStaleUse
CHECK_DEADLOCK FALSE
