\* The calls of a process, where memory may run out in a directory search.
SPECIFICATION Spec
CONSTANTS
  p1 = p1
  a = a
  b = b
  NULL = NULL
  Proc = {p1}
  Name = {a, b}
  ValidName = {a, b}
  Program = a
  SectorCount = 9
  BLOCK_SECTOR_SIZE = 2
  DirEntries = 2
  FileSize = {3}
  IoSize = {3}
  SeekPos = {2}
  LowMemory = {"dir_read"}
  Overlap = FALSE
  MaxFd = 1
  MaxInode = 3
  MaxRestart = 0
PROPERTY FreeSlotsOnly
