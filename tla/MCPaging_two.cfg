\* Two processes with a stack page each and one frame: whoever runs has to evict
\* the other's page, at whatever point the other is.
SPECIFICATION FairSpec
CONSTANTS
  NULL = NULL
  JUNK = JUNK
  Proc = {p1, p2}
  Frame = {1}
  Slot = {1, 2}
  BinPage = {}
  StackTop = top
  StackPage = {}
  Writable = {}
  Image <- MCImage
  Value = {0}
INVARIANTS
  TypeOK
  FramesAccounted
PROPERTIES
  FaultsReturn
  ExitEnds
  SomeoneLeavesKernel
