\* What fails of the open files: TLC stops at the first, so uncomment one at a time.
SPECIFICATION Spec
CONSTANTS
  Files = {f, g}
  FILEMAX = 2
  nil = nil
  Object = Object
  NULL = NULL
  FileSize = 2
  MaxStreams = 3
  MaxStarts = 1
SYMMETRY Symmetric
INVARIANTS
  OpenedIsOpen
\*  SeekAnswersPosition
\*  StopsWhenFull
\*  OwnStream
CHECK_DEADLOCK FALSE
