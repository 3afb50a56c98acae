SPECIFICATION Spec
CONSTANTS
  Files = {f, g}
  FILEMAX = 2
  nil = nil
  Object = Object
  NULL = NULL
  FileSize = 2
  MaxStreams = 3
  MaxStarts = 1
SYMMETRY Symmetric
INVARIANTS
  TypeOK
  OwnStreamAtFirst
CHECK_DEADLOCK FALSE
