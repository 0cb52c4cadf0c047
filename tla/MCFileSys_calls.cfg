\* The calls of a process, with low memory and restarts.
SPECIFICATION Spec
CONSTANTS
  p1 = p1
  a = a
  b = b
  NULL = NULL
  Proc = {p1}
  Name = {a, b}
  ValidName = {a, b}
  Program = a
  SectorCount = 9
  BLOCK_SECTOR_SIZE = 2
  DirEntries = 2
  FileSize = {3}
  IoSize = {3}
  SeekPos = {2}
  LowMemory <- MCLowMemory
  Overlap = FALSE
  MaxFd = 1
  MaxInode = 3
  MaxRestart = 1
INVARIANTS DiskConsistent LiveSectorsMarked OneInodePerSector InodeIsCurrent CountsAgree AssertionsHold
PROPERTIES ProgramUnchanged ImplementsFiles
