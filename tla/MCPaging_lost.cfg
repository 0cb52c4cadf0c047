\* Two processes with a data page and a stack page each, in two frames: every
\* fault with both frames taken evicts a page of a process that may be running.
SPECIFICATION Spec
CONSTANTS
  NULL = NULL
  JUNK = JUNK
  Proc = {p1, p2}
  Frame = {1, 2}
  Slot = {1, 2}
  BinPage = {data}
  StackTop = top
  StackPage = {}
  Writable = {data}
  Image <- MCImage
  Value = {0, 1}
SYMMETRY Symmetry
PROPERTIES MemoryIsKept
