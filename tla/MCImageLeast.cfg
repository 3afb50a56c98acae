SPECIFICATION ImageSpec
CONSTANTS
  NullWord = NullWord
  globals = globals
  fielded = fielded
  binaried = binaried
  fourth = fourth
  Objects <- MCObjects
  globalsObject = globals
  Heaps <- LeastHeaps
  IntMin <- Least
  MaxObjects = 3
  Cuts <- Whole
INVARIANTS
  WholeFileLoads
CHECK_DEADLOCK FALSE
