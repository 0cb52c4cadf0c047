SPECIFICATION Spec
CONSTANTS
  t1 = t1
  t2 = t2
  s1 = s1
  JUNK = JUNK
  NULL = NULL
INVARIANTS
  NobodyIsStranded
  StreamsInOrder
  IOStaysInside
  HeapIsSound
  
  ContainersAreRight
  LibraryIsRight
PROPERTIES
  ImplementsSectors
  ImplementsMemory
CHECK_DEADLOCK FALSE
