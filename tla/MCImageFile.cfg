SPECIFICATION ImageSpec
CONSTANTS
  NullWord = NullWord
  globals = globals
  fielded = fielded
  binaried = binaried
  fourth = fourth
  Objects <- MCObjects
  globalsObject = globals
  Heaps <- MCHeaps
  IntMin <- Least
  MaxObjects = 3
  Cuts <- CutShort
INVARIANTS
  ImageTypeOK
  RoundTrip
  ImageStopsForCause
PROPERTIES
  Completes
CHECK_DEADLOCK FALSE
