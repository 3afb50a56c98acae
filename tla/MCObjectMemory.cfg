SPECIFICATION Spec
CONSTANTS
  Plain = {}
  Junk = junk
  None = none
  Global = {g, h}
  Shapes <- SmallShapes
  MaxRoots = 1
  MaxObjects = 4
  BytesPerWord = 2
  spaceSize = 10
  STATICROOTLIMIT = 1
SYMMETRY Interchangeable
INVARIANTS
  TypeOK
  Packed
  StoppedForCause
PROPERTIES
  Implements
CHECK_DEADLOCK FALSE
