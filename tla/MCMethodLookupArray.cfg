SPECIFICATION Spec
CONSTANTS
  Object = Object
  Array = Array
  Other = Other
  m1 = m1
  m2 = m2
  m3 = m3
  m4 = m4
  nil = nil
  Garbage = Garbage
  Classes <- MCClasses
  Symbols <- MCSymbols
  Methods <- MCMethods
  parentClass <- MCParents
  Dictionaries <- MCDictionaries
  Layouts <- MCLayouts
  CacheSize = 2
  InsertSends <- MCInsertSends
  Additions <- ArrayAdditions
  Exchanges <- None
PROPERTIES
  SendsAgree
