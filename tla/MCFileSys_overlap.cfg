\* Calls of two processes at the same time.
SPECIFICATION Spec
CONSTANTS
  p1 = p1
  p2 = p2
  a = a
  b = b
  NULL = NULL
  Proc = {p1, p2}
  Name = {a, b}
  ValidName = {a, b}
  Program = a
  SectorCount = 9
  BLOCK_SECTOR_SIZE = 2
  DirEntries = 2
  FileSize = {3}
  IoSize = {3}
  SeekPos = {2}
  LowMemory <- MCNone
  Overlap = TRUE
  MaxFd = 1
  MaxInode = 3
  MaxRestart = 0
SYMMETRY Symmetry
INVARIANT OneInodePerSector
