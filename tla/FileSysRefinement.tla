------------------------- MODULE FileSysRefinement --------------------------
(***************************************************************************)
(* What the file system promises to its callers: module Files.             *)
(***************************************************************************)
EXTENDS FileSys

\* A file is named by its inode's sector.
FileId == Sector \ SystemSectors

FileNamed(n) ==
  LET slot == lookup(n, DirEntries)
  IN  IF slot = 0 THEN NULL ELSE disk_entries[slot].inode_sector

Names == [n \in Name |-> FileNamed(n)]

Bytes ==
  LET live == LiveFiles
  IN  [f \in FileId |-> IF f \in live THEN Contents(f) ELSE NULL]

F == INSTANCE Files WITH Length <- FileSize, dir <- Names, bytes <- Bytes

\* The file system implements module Files: every call and every restart does to
\* names and contents what Files allows.
ImplementsFiles == F!Spec
=============================================================================
