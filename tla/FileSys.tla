------------------------------ MODULE FileSys -------------------------------
(***************************************************************************)
(* The file system: inodes (inode.c), open files (file.c), the root        *)
(* directory (directory.c), the free map (free-map.c, bitmap.c) and the    *)
(* calls on them (filesys.c, the file system calls of syscall.c, load()    *)
(* and process_exit()).                                                    *)
(*                                                                         *)
(* A step ends before each access to the disk and where two calls can meet *)
(* in memory, so a restart can find the disk as any step left it.  open,   *)
(* read, write and load() hold _lock_for_file; create, remove, close and   *)
(* exit hold nothing.  Overlap says whether calls of two processes may be  *)
(* in progress together.                                                   *)
(*                                                                         *)
(* The directory is one sector, and so is the free map file, whose inode   *)
(* is open all the time and not in the model's list.                       *)
(***************************************************************************)
EXTENDS Integers, Sequences, FiniteSets, FiniteSetsExt, KernelList

CONSTANTS
  Proc,
  Name,
  ValidName,          \* the names that are not too long
  Program,            \* the name of the file that fsutil_extract() put there
  SectorCount,        \* sectors of the file system device
  BLOCK_SECTOR_SIZE,
  DirEntries,         \* room in the root directory
  FileSize,           \* sizes that create() is called with
  IoSize,             \* sizes of reads and writes
  SeekPos,            \* positions that seek() is called with
  LowMemory,          \* the allocations that may fail
  Overlap,
  MaxFd,              \* bound: files that a process opens (fd_tab has room for 126)
  MaxInode,           \* bound: struct inodes in memory
  MaxRestart,         \* bound: times the machine stops
  NULL

FREE_MAP_SECTOR == 0
ROOT_DIR_SECTOR == 1
BITMAP_ERROR == -1

Sector == 0..SectorCount - 1
InodeId == 1..MaxInode
Byte == {0, 1}        \* a new file holds 0s, and programs write 1s
File == [inode : InodeId, pos : Nat, deny_write : BOOLEAN]

Allocation == {"inode", "dir", "file", "inode_disk", "bounce", "free_map", "dir_read",
               "dir_write"}

ASSUME NamesAssumption == ValidName \subseteq Name /\ Program \in ValidName
ASSUME SizesAssumption ==
  /\ BLOCK_SECTOR_SIZE \in Nat \ {0} /\ DirEntries \in Nat \ {0}
  /\ FileSize \subseteq Nat /\ IoSize \subseteq Nat /\ SeekPos \subseteq Nat
  /\ SectorCount \in Nat /\ SectorCount > 5
ASSUME BoundsAssumption == IsFiniteSet(Proc) /\ Proc # {} /\ MaxFd \in Nat
ASSUME NullAssumption ==    \* a null pointer points to nothing
  /\ NULL \notin InodeId /\ NULL \notin Sector /\ NULL \notin File
  /\ \A n \in FileSize \cup {BLOCK_SECTOR_SIZE} : NULL \notin [1..n -> Byte]
ASSUME RunAssumption == LowMemory \subseteq Allocation /\ Overlap \in BOOLEAN

VARIABLES
  disk_inode,      \* disk: struct inode_disk of the sectors that hold inodes
  disk_data,       \* disk: bytes of the sectors that hold files
  disk_entries,    \* disk: the root directory
  disk_free_map,   \* disk: the sectors that are marked in the free map file
  free_map,        \* the sectors that are marked in memory
  inode,           \* struct inodes
  open_inodes,
  fd_tab,          \* of each process: its open files, from descriptor 2 on
  exec_file,
  lock_for_file,   \* the holder of _lock_for_file
  pc, frame,       \* where a process continues, and its locals
  restarts

diskVars == <<disk_inode, disk_data, disk_entries, disk_free_map>>
fileVars == <<fd_tab, exec_file>>
inodeVars == <<inode, open_inodes>>
memVars == <<free_map, inodeVars, fileVars, lock_for_file>>
vars == <<diskVars, memVars, pc, frame, restarts>>
-----------------------------------------------------------------------------
bytes_to_sectors(size) == (size + BLOCK_SECTOR_SIZE - 1) \div BLOCK_SECTOR_SIZE

\* The sectors that hold the bytes of a file.
DataSectors(d) == d.start..d.start + bytes_to_sectors(d.length) - 1

InodeDisk == [start : Sector, length : FileSize \cup {BLOCK_SECTOR_SIZE}]
NoInodeDisk == [start |-> FREE_MAP_SECTOR, length |-> BLOCK_SECTOR_SIZE]

Zeros == [i \in 0..BLOCK_SECTOR_SIZE - 1 |-> 0]

NoEntry == [in_use |-> FALSE, name |-> NULL, inode_sector |-> FREE_MAP_SECTOR]

\* Memory that no struct inode occupies.
NoInode == [sector |-> FREE_MAP_SECTOR, open_cnt |-> 0, removed |-> FALSE,
            deny_write_cnt |-> 0, data |-> NoInodeDisk]

NoFrame ==
  [op |-> "none", name |-> NULL, size |-> 0, fd |-> 0, sector |-> 0, inode_sector |-> 0,
   start |-> 0, cnt |-> 0, dir |-> NULL, inode |-> NULL, closing |-> NULL, slot |-> 0,
   done |-> 0, bounce |-> FALSE, ret |-> "none"]

\* do_format(): the free map's inode and data, then the root directory's, and
\* then the file that fsutil_extract() creates for a program.
Format ==
  /\ disk_inode = [s \in Sector |->
       CASE s = ROOT_DIR_SECTOR -> [start |-> 3, length |-> BLOCK_SECTOR_SIZE]
         [] s = FREE_MAP_SECTOR -> [start |-> 2, length |-> BLOCK_SECTOR_SIZE]
         [] s = 4 -> [start |-> 5, length |-> BLOCK_SECTOR_SIZE]
         [] OTHER -> NoInodeDisk]
  /\ disk_data = [s \in Sector |-> Zeros]
  /\ disk_entries = [k \in 1..DirEntries |->
       IF k = 1 THEN [in_use |-> TRUE, name |-> Program, inode_sector |-> 4] ELSE NoEntry]
  /\ disk_free_map = 0..5

NoInodes == [i \in InodeId |-> NoInode]
NoFiles == [p \in Proc |-> <<>>]
NoPrograms == [p \in Proc |-> NULL]
NoProcesses == [p \in Proc |-> "none"]
NoFrames == [p \in Proc |-> NoFrame]

\* filesys_init() after do_format().
Init ==
  /\ Format
  /\ free_map = disk_free_map
  /\ inode = NoInodes /\ open_inodes = <<>>
  /\ fd_tab = NoFiles /\ exec_file = NoPrograms
  /\ lock_for_file = NULL
  /\ pc = NoProcesses /\ frame = NoFrames
  /\ restarts = 0

\* filesys_done() and power off, or a power failure, and filesys_init(), which
\* reads the free map file.
Restart ==
  /\ restarts < MaxRestart
  /\ restarts' = restarts + 1
  /\ free_map' = disk_free_map
  /\ inode' = NoInodes /\ open_inodes' = <<>>
  /\ fd_tab' = NoFiles /\ exec_file' = NoPrograms
  /\ lock_for_file' = NULL
  /\ pc' = NoProcesses /\ frame' = NoFrames
  /\ UNCHANGED diskVars
-----------------------------------------------------------------------------
(***************************************************************************)
(* Control.                                                                *)
(***************************************************************************)
At(p, label) == pc[p] = label

Goto(p, label, f) ==
  /\ pc' = [pc EXCEPT ![p] = label]
  /\ frame' = [frame EXCEPT ![p] = f]
  /\ UNCHANGED restarts

\* malloc() or calloc() of WHAT: whether it succeeds.
malloc(what) == IF what \in LowMemory THEN BOOLEAN ELSE {TRUE}

InCall(p) == pc[p] \notin {"none", "user"}

\* P enters the kernel.
MayCall(p, label) ==
  /\ At(p, label)
  /\ Overlap \/ \A q \in Proc : ~ InCall(q)

lock_acquire(p) == lock_for_file = NULL /\ lock_for_file' = p

\* The call of P is over.
Return(p, label) == Goto(p, label, NoFrame)

\* inode_open (SECTOR), inode_close (I) and free_map_allocate (CNT) are entered
\* with these, and go on at RET.
CallInodeOpen(p, f, sector, ret) ==
  Goto(p, "inode_open", [f EXCEPT !.sector = sector, !.ret = ret])

CallInodeClose(p, f, i, ret) ==
  Goto(p, "inode_close", [f EXCEPT !.closing = i, !.ret = ret])

CallAllocate(p, f, cnt, ret) ==
  Goto(p, "allocate", [f EXCEPT !.cnt = cnt, !.ret = ret])
-----------------------------------------------------------------------------
(***************************************************************************)
(* The free map.                                                           *)
(***************************************************************************)

\* bitmap_scan(): the first of CNT consecutive sectors that are not marked.
bitmap_scan(cnt) ==
  LET fits == {i \in 0..SectorCount - cnt : (i..i + cnt - 1) \cap free_map = {}}
  IN  IF fits = {} THEN BITMAP_ERROR ELSE Min(fits)

\* free_map_allocate() up to the marking: the scan and the marking are not one step.
allocate_scan(p) ==
  /\ At(p, "allocate")
  /\ LET start == bitmap_scan(frame[p].cnt) IN
     Goto(p, IF start = BITMAP_ERROR THEN frame[p].ret ELSE "allocate_mark",
          [frame[p] EXCEPT !.start = start])
  /\ UNCHANGED <<diskVars, memVars>>

\* Mutant: the free map file is not written.
allocate_mark_unwritten(p) ==
  /\ At(p, "allocate_mark")
  /\ free_map' = free_map \cup (frame[p].start..frame[p].start + frame[p].cnt - 1)
  /\ Goto(p, frame[p].ret, frame[p])
  /\ UNCHANGED <<diskVars, inodeVars, fileVars, lock_for_file>>

\* The rest: marks the sectors and writes the free map file, or takes the marks
\* away again if that fails.
allocate_mark(p) ==
  /\ At(p, "allocate_mark")
  /\ LET marked == free_map \cup (frame[p].start..frame[p].start + frame[p].cnt - 1) IN
     \E ok \in malloc("free_map") :
       IF ok THEN /\ free_map' = marked
                  /\ disk_free_map' = marked
                  /\ Goto(p, frame[p].ret, frame[p])
       ELSE /\ Goto(p, frame[p].ret, [frame[p] EXCEPT !.start = BITMAP_ERROR])
            /\ UNCHANGED <<free_map, disk_free_map>>
  /\ UNCHANGED <<disk_inode, disk_data, disk_entries, inodeVars, fileVars, lock_for_file>>

\* free_map_release(): nobody looks whether the file could be written.
free_map_release(S) ==
  /\ free_map' = free_map \ S
  /\ \E ok \in malloc("free_map") :
       disk_free_map' = IF ok THEN free_map' ELSE disk_free_map
-----------------------------------------------------------------------------
(***************************************************************************)
(* Inodes.                                                                 *)
(***************************************************************************)

\* Mutant of inode_open(): does not look for the inode among the open ones.
inode_open_again(p) ==
  /\ At(p, "inode_open")
  /\ Goto(p, "inode_alloc", frame[p])
  /\ UNCHANGED <<diskVars, memVars>>

\* inode_open() up to its malloc(): one more opener of the first struct inode of
\* the sector, if there is one.
inode_open(p) ==
  /\ At(p, "inode_open")
  /\ LET same == {k \in 1..Len(open_inodes) : inode[open_inodes[k]].sector = frame[p].sector}
         i == open_inodes[Min(same)]
     IN  IF same # {}
         THEN /\ inode' = [inode EXCEPT ![i].open_cnt = @ + 1]
              /\ Goto(p, frame[p].ret, [frame[p] EXCEPT !.inode = i])
         ELSE /\ \E ok \in malloc("inode") :
                   Goto(p, IF ok THEN "inode_alloc" ELSE frame[p].ret,
                        [frame[p] EXCEPT !.inode = NULL])
              /\ UNCHANGED inode
  /\ UNCHANGED <<diskVars, free_map, open_inodes, fileVars, lock_for_file>>

\* Mutant: the inode is not read.
inode_alloc_unread(p) ==
  /\ At(p, "inode_alloc")
  /\ \E i \in {j \in InodeId : inode[j] = NoInode}, d \in {disk_inode[s] : s \in Sector} :
       /\ inode' = [inode EXCEPT ![i] = [NoInode EXCEPT !.sector = frame[p].sector,
                                                        !.open_cnt = 1, !.data = d]]
       /\ open_inodes' = <<i>> \o open_inodes
       /\ Goto(p, frame[p].ret, [frame[p] EXCEPT !.inode = i])
  /\ UNCHANGED <<diskVars, free_map, fileVars, lock_for_file>>

\* A new struct inode is put on the list.  Its data is not read yet: it is what
\* was in that memory, here what another inode may have left.
inode_alloc(p) ==
  /\ At(p, "inode_alloc")
  /\ \E i \in {j \in InodeId : inode[j] = NoInode}, d \in {disk_inode[s] : s \in Sector} :
       /\ \A j \in InodeId : inode[j] = NoInode => i <= j
       /\ inode' = [inode EXCEPT ![i] = [NoInode EXCEPT !.sector = frame[p].sector,
                                                        !.open_cnt = 1, !.data = d]]
       /\ open_inodes' = <<i>> \o open_inodes
       /\ Goto(p, "inode_read", [frame[p] EXCEPT !.inode = i])
  /\ UNCHANGED <<diskVars, free_map, fileVars, lock_for_file>>

\* block_read() at the end of inode_open().
inode_read(p) ==
  /\ At(p, "inode_read")
  /\ inode' = [inode EXCEPT ![frame[p].inode].data = disk_inode[frame[p].sector]]
  /\ Goto(p, frame[p].ret, frame[p])
  /\ UNCHANGED <<diskVars, free_map, open_inodes, fileVars, lock_for_file>>

\* inode_close() up to the test of open_cnt.
inode_close(p) ==
  /\ At(p, "inode_close")
  /\ LET i == frame[p].closing IN
     IF i = NULL
     THEN Goto(p, frame[p].ret, frame[p]) /\ UNCHANGED inode
     ELSE /\ inode' = [inode EXCEPT ![i].open_cnt = @ - 1]
          /\ Goto(p, IF inode'[i].open_cnt = 0 THEN "inode_free" ELSE frame[p].ret, frame[p])
  /\ UNCHANGED <<diskVars, free_map, open_inodes, fileVars, lock_for_file>>

\* The last opener is gone: off the list, and the sectors are released first if
\* the file was removed.
inode_free(p) ==
  /\ At(p, "inode_free")
  /\ LET i == frame[p].closing IN
     /\ open_inodes' = list_remove(open_inodes, i)
     /\ IF inode[i].removed
        THEN Goto(p, "release_inode", frame[p]) /\ UNCHANGED inode
        ELSE Goto(p, frame[p].ret, frame[p]) /\ inode' = [inode EXCEPT ![i] = NoInode]
  /\ UNCHANGED <<diskVars, free_map, fileVars, lock_for_file>>

release_inode(p) ==
  /\ At(p, "release_inode")
  /\ free_map_release({inode[frame[p].closing].sector})
  /\ Goto(p, "release_data", frame[p])
  /\ UNCHANGED <<disk_inode, disk_data, disk_entries, inodeVars, fileVars, lock_for_file>>

release_data(p) ==
  /\ At(p, "release_data")
  /\ free_map_release(DataSectors(inode[frame[p].closing].data))
  /\ inode' = [inode EXCEPT ![frame[p].closing] = NoInode]
  /\ Goto(p, frame[p].ret, frame[p])
  /\ UNCHANGED <<disk_inode, disk_data, disk_entries, open_inodes, fileVars, lock_for_file>>
-----------------------------------------------------------------------------
(***************************************************************************)
(* The root directory, and create, open and remove.                        *)
(***************************************************************************)

\* The entries that a search reads: all, or those before a read that failed.
Readable == IF "dir_read" \in LowMemory THEN 0..DirEntries ELSE {DirEntries}

\* lookup() of the first K entries: the slot of NAME, or 0.
lookup(name, k) ==
  LET found == {j \in 1..k : disk_entries[j].in_use /\ disk_entries[j].name = name}
  IN  IF found = {} THEN 0 ELSE Min(found)

\* dir_add()'s search for a free slot, where a read that fails ends it too.
FreeSlot(k) == Min({j \in 1..k : ~ disk_entries[j].in_use} \cup {k + 1})

syscall_create(p) ==
  /\ MayCall(p, "user")
  /\ \E name \in Name, size \in FileSize :
       CallInodeOpen(p, [NoFrame EXCEPT !.op = "create", !.name = name, !.size = size],
                     ROOT_DIR_SECTOR, "dir_open")
  /\ UNCHANGED <<diskVars, memVars>>

syscall_remove(p) ==
  /\ MayCall(p, "user")
  /\ \E name \in Name :
       CallInodeOpen(p, [NoFrame EXCEPT !.op = "remove", !.name = name],
                     ROOT_DIR_SECTOR, "dir_open")
  /\ UNCHANGED <<diskVars, memVars>>

syscall_open(p) ==
  /\ MayCall(p, "user")
  /\ Len(fd_tab[p]) < MaxFd
  /\ lock_acquire(p)
  /\ \E name \in Name :
       CallInodeOpen(p, [NoFrame EXCEPT !.op = "open", !.name = name],
                     ROOT_DIR_SECTOR, "dir_open")
  /\ UNCHANGED <<diskVars, free_map, inodeVars, fileVars>>

\* load() of a new process.
load(p) ==
  /\ MayCall(p, "none")
  /\ lock_acquire(p)
  /\ \E name \in Name :
       CallInodeOpen(p, [NoFrame EXCEPT !.op = "load", !.name = name],
                     ROOT_DIR_SECTOR, "dir_open")
  /\ UNCHANGED <<diskVars, free_map, inodeVars, fileVars>>

\* dir_open(): it owns the inode, and closes it when it cannot use it.
dir_open(p) ==
  /\ At(p, "dir_open")
  /\ LET f == [frame[p] EXCEPT !.dir = frame[p].inode, !.inode = NULL] IN
     \E ok \in malloc("dir") :
       IF f.dir = NULL \/ ~ ok THEN CallInodeClose(p, [f EXCEPT !.dir = NULL], f.dir, "return")
       ELSE IF f.op = "create" THEN CallAllocate(p, f, 1, "inode_create")
       ELSE Goto(p, IF f.op = "remove" THEN "dir_remove" ELSE "dir_lookup", f)
  /\ UNCHANGED <<diskVars, memVars>>

\* dir_close() at the end of a call.
dir_close(p) ==
  /\ At(p, "dir_close")
  /\ CallInodeClose(p, frame[p], frame[p].dir, "return")
  /\ UNCHANGED <<diskVars, memVars>>

\* filesys_create() after its first allocation; inode_create() up to its own.
inode_create(p) ==
  /\ At(p, "inode_create")
  /\ LET f == [frame[p] EXCEPT !.inode_sector = frame[p].start] IN
     IF f.start = BITMAP_ERROR THEN Goto(p, "dir_close", frame[p])
     ELSE \E ok \in malloc("inode_disk") :
            IF ok THEN CallAllocate(p, f, bytes_to_sectors(f.size), "write_inode")
            ELSE Goto(p, "rollback", f)
  /\ UNCHANGED <<diskVars, memVars>>

write_inode(p) ==
  /\ At(p, "write_inode")
  /\ IF frame[p].start = BITMAP_ERROR
     THEN Goto(p, "rollback", frame[p]) /\ UNCHANGED disk_inode
     ELSE /\ disk_inode' = [disk_inode EXCEPT ![frame[p].inode_sector] =
                              [start |-> frame[p].start, length |-> frame[p].size]]
          /\ Goto(p, "write_zeros", frame[p])
  /\ UNCHANGED <<disk_data, disk_entries, disk_free_map, memVars>>

\* Mutant: the last sector is not cleared.
write_zeros_short(p) ==
  /\ At(p, "write_zeros")
  /\ IF frame[p].done + 1 < frame[p].cnt
     THEN /\ disk_data' = [disk_data EXCEPT ![frame[p].start + frame[p].done] = Zeros]
          /\ Goto(p, "write_zeros", [frame[p] EXCEPT !.done = @ + 1])
     ELSE Goto(p, "dir_add", frame[p]) /\ UNCHANGED disk_data
  /\ UNCHANGED <<disk_inode, disk_entries, disk_free_map, memVars>>

write_zeros(p) ==
  /\ At(p, "write_zeros")
  /\ IF frame[p].done < frame[p].cnt
     THEN /\ disk_data' = [disk_data EXCEPT ![frame[p].start + frame[p].done] = Zeros]
          /\ Goto(p, "write_zeros", [frame[p] EXCEPT !.done = @ + 1])
     ELSE Goto(p, "dir_add", frame[p]) /\ UNCHANGED disk_data
  /\ UNCHANGED <<disk_inode, disk_entries, disk_free_map, memVars>>

\* dir_add() up to its write: the name is valid and not in use, and there is room.
dir_add(p) ==
  /\ At(p, "dir_add")
  /\ \E k, l \in Readable :
       LET slot == FreeSlot(l) IN
       IF \/ frame[p].name \notin ValidName
          \/ lookup(frame[p].name, k) # 0
          \/ slot > DirEntries
       THEN Goto(p, "rollback", frame[p])
       ELSE Goto(p, "dir_write", [frame[p] EXCEPT !.slot = slot])
  /\ UNCHANGED <<diskVars, memVars>>

dir_write(p) ==
  /\ At(p, "dir_write")
  /\ \E ok \in malloc("dir_write") :
       IF ok THEN /\ disk_entries' = [disk_entries EXCEPT ![frame[p].slot] =
                       [in_use |-> TRUE, name |-> frame[p].name,
                        inode_sector |-> frame[p].inode_sector]]
                  /\ Goto(p, "dir_close", frame[p])
       ELSE Goto(p, "rollback", frame[p]) /\ UNCHANGED disk_entries
  /\ UNCHANGED <<disk_inode, disk_data, disk_free_map, memVars>>

\* filesys_create() has failed: the inode's sector is released.  The sectors of
\* the data, if there are any, stay marked.
rollback(p) ==
  /\ At(p, "rollback")
  /\ free_map_release({frame[p].inode_sector})
  /\ Goto(p, "dir_close", frame[p])
  /\ UNCHANGED <<disk_inode, disk_data, disk_entries, inodeVars, fileVars, lock_for_file>>

\* dir_lookup() up to inode_open(), in filesys_open().
dir_lookup(p) ==
  /\ At(p, "dir_lookup")
  /\ \E k \in Readable :
       LET slot == lookup(frame[p].name, k) IN
       IF slot = 0 THEN Goto(p, "lookup_done", frame[p])
       ELSE CallInodeOpen(p, frame[p], disk_entries[slot].inode_sector, "lookup_done")
  /\ UNCHANGED <<diskVars, memVars>>

lookup_done(p) ==
  /\ At(p, "lookup_done")
  /\ CallInodeClose(p, frame[p], frame[p].dir, "file_open")
  /\ UNCHANGED <<diskVars, memVars>>

\* dir_remove() up to inode_open().
dir_remove(p) ==
  /\ At(p, "dir_remove")
  /\ \E k \in Readable :
       LET slot == lookup(frame[p].name, k) IN
       IF slot = 0 THEN Goto(p, "dir_close", frame[p])
       ELSE CallInodeOpen(p, [frame[p] EXCEPT !.slot = slot], disk_entries[slot].inode_sector,
                          "erase_entry")
  /\ UNCHANGED <<diskVars, memVars>>

\* The entry is written back, not in use.
erase_entry(p) ==
  /\ At(p, "erase_entry")
  /\ IF frame[p].inode = NULL
     THEN Goto(p, "dir_close", frame[p]) /\ UNCHANGED disk_entries
     ELSE \E ok \in malloc("dir_write") :
       IF ok THEN /\ disk_entries' = [disk_entries EXCEPT ![frame[p].slot] =
                       [in_use |-> FALSE, name |-> frame[p].name,
                        inode_sector |-> frame[p].sector]]
                  /\ Goto(p, "inode_remove", frame[p])
       ELSE /\ CallInodeClose(p, frame[p], frame[p].inode, "dir_close")
            /\ UNCHANGED disk_entries
  /\ UNCHANGED <<disk_inode, disk_data, disk_free_map, memVars>>

\* Mutant: the blocks of the file are freed at once.
inode_remove_now(p) ==
  /\ At(p, "inode_remove")
  /\ LET i == frame[p].inode IN
     free_map' = free_map \ ({inode[i].sector} \cup DataSectors(inode[i].data))
  /\ CallInodeClose(p, frame[p], frame[p].inode, "dir_close")
  /\ UNCHANGED <<diskVars, inodeVars, fileVars, lock_for_file>>

inode_remove(p) ==
  /\ At(p, "inode_remove")
  /\ inode' = [inode EXCEPT ![frame[p].inode].removed = TRUE]
  /\ CallInodeClose(p, frame[p], frame[p].inode, "dir_close")
  /\ UNCHANGED <<diskVars, free_map, open_inodes, fileVars, lock_for_file>>
-----------------------------------------------------------------------------
(***************************************************************************)
(* Open files.                                                             *)
(***************************************************************************)
Unlock(p) == lock_for_file' = IF lock_for_file = p THEN NULL ELSE lock_for_file

\* file_open(), and the rest of open.
file_open(p) ==
  /\ At(p, "file_open")
  /\ LET i == frame[p].inode
         file == [inode |-> i, pos |-> 0, deny_write |-> FALSE]
     IN  \E ok \in malloc("file") :
           IF i = NULL \/ ~ ok
           THEN /\ CallInodeClose(p, [frame[p] EXCEPT !.inode = NULL], i, "return")
                /\ UNCHANGED <<fd_tab, lock_for_file>>
           ELSE /\ Unlock(p)
                /\ \/ /\ frame[p].op = "open"
                      /\ fd_tab' = [fd_tab EXCEPT ![p] = Append(@, file)]
                      /\ Return(p, "user")
                   \/ /\ frame[p].op = "load"
                      /\ Goto(p, "deny_write", frame[p])
                      /\ UNCHANGED fd_tab
  /\ UNCHANGED <<diskVars, free_map, inodeVars, exec_file>>

\* The rest of load(), after its lock_release(): file_deny_write().  The file is
\* kept open whether or not it can be executed.
deny_write(p) ==
  /\ At(p, "deny_write")
  /\ LET i == frame[p].inode IN
     /\ exec_file' = [exec_file EXCEPT ![p] = [inode |-> i, pos |-> 0, deny_write |-> TRUE]]
     /\ inode' = [inode EXCEPT ![i].deny_write_cnt = @ + 1]
  /\ \E loaded \in BOOLEAN : Return(p, IF loaded THEN "user" ELSE "exit")
  /\ UNCHANGED <<diskVars, free_map, open_inodes, fd_tab, lock_for_file>>

\* A call is over: close forgets its file, and a process that could not be loaded
\* exits.
return(p) ==
  /\ At(p, "return")
  /\ Unlock(p)
  /\ fd_tab' = IF frame[p].op = "close" THEN [fd_tab EXCEPT ![p][frame[p].fd] = NULL] ELSE fd_tab
  /\ Return(p, IF frame[p].op = "load" THEN "exit" ELSE "user")
  /\ UNCHANGED <<diskVars, free_map, inodeVars, exec_file>>

\* get_file(): a descriptor of an open file.
OpenFd(p) == {fd \in 1..Len(fd_tab[p]) : fd_tab[p][fd] # NULL}

syscall_read(p) ==
  /\ MayCall(p, "user")
  /\ lock_acquire(p)
  /\ \E fd \in OpenFd(p), size \in IoSize :
       Goto(p, "inode_read_at", [NoFrame EXCEPT !.fd = fd, !.size = size])
  /\ UNCHANGED <<diskVars, free_map, inodeVars, fileVars>>

syscall_write(p) ==
  /\ MayCall(p, "user")
  /\ lock_acquire(p)
  /\ \E fd \in OpenFd(p), size \in IoSize :
       Goto(p, "inode_write_at", [NoFrame EXCEPT !.fd = fd, !.size = size])
  /\ UNCHANGED <<diskVars, free_map, inodeVars, fileVars>>

\* One turn of the loops of inode_read_at() and inode_write_at(), which copy up
\* to the end of a sector, of the file or of the buffer.
Ofs(p) == fd_tab[p][frame[p].fd].pos + frame[p].done
Ino(p) == inode[fd_tab[p][frame[p].fd].inode]
chunk_size(p) ==
  Min({frame[p].size - frame[p].done, Ino(p).data.length - Ofs(p),
       BLOCK_SECTOR_SIZE - (Ofs(p) % BLOCK_SECTOR_SIZE)})

\* Whether the turn has the buffer it needs: none for a whole sector, and one
\* buffer serves all turns.
HasBounce(p) ==
  IF chunk_size(p) = BLOCK_SECTOR_SIZE \/ frame[p].bounce THEN {TRUE} ELSE malloc("bounce")

\* file_read() or file_write() moves the position, and the call returns.
EndIo(p) ==
  /\ fd_tab' = [fd_tab EXCEPT ![p][frame[p].fd].pos = Ofs(p)]
  /\ Unlock(p)
  /\ Return(p, "user")
  /\ UNCHANGED exec_file

NextTurn(p, label) ==
  /\ Goto(p, label, [frame[p] EXCEPT !.done = @ + chunk_size(p),
                                     !.bounce = @ \/ chunk_size(p) < BLOCK_SECTOR_SIZE])
  /\ UNCHANGED <<fileVars, lock_for_file>>

inode_read_at(p) ==
  /\ At(p, "inode_read_at")
  /\ IF chunk_size(p) <= 0 THEN EndIo(p)
     ELSE \E ok \in HasBounce(p) : IF ok THEN NextTurn(p, "inode_read_at") ELSE EndIo(p)
  /\ UNCHANGED <<diskVars, free_map, inodeVars>>

\* Sector S with a chunk of 1s in it.
Written(p, s) ==
  [b \in 0..BLOCK_SECTOR_SIZE - 1 |->
     LET first == Ofs(p) % BLOCK_SECTOR_SIZE
     IN  IF b \in first..first + chunk_size(p) - 1 THEN 1 ELSE disk_data[s][b]]

WriteTurn(p) ==
  LET s == Ino(p).data.start + Ofs(p) \div BLOCK_SECTOR_SIZE IN
  \E ok \in HasBounce(p) :
    IF ok THEN /\ disk_data' = [disk_data EXCEPT ![s] = Written(p, s)]
               /\ NextTurn(p, "inode_write_at")
    ELSE EndIo(p) /\ UNCHANGED disk_data

\* Mutant: writes are not denied.
inode_write_at_always(p) ==
  /\ At(p, "inode_write_at")
  /\ IF chunk_size(p) <= 0 THEN EndIo(p) /\ UNCHANGED disk_data ELSE WriteTurn(p)
  /\ UNCHANGED <<disk_inode, disk_entries, disk_free_map, free_map, inodeVars>>

inode_write_at(p) ==
  /\ At(p, "inode_write_at")
  /\ IF (frame[p].done = 0 /\ Ino(p).deny_write_cnt > 0) \/ chunk_size(p) <= 0
     THEN EndIo(p) /\ UNCHANGED disk_data
     ELSE WriteTurn(p)
  /\ UNCHANGED <<disk_inode, disk_entries, disk_free_map, free_map, inodeVars>>

syscall_seek(p) ==
  /\ MayCall(p, "user")
  /\ \E fd \in OpenFd(p), pos \in SeekPos : fd_tab' = [fd_tab EXCEPT ![p][fd].pos = pos]
  /\ UNCHANGED <<diskVars, free_map, inodeVars, exec_file, lock_for_file, pc, frame, restarts>>

syscall_close(p) ==
  /\ MayCall(p, "user")
  /\ \E fd \in OpenFd(p) :
       CallInodeClose(p, [NoFrame EXCEPT !.op = "close", !.fd = fd], fd_tab[p][fd].inode, "return")
  /\ UNCHANGED <<diskVars, memVars>>

syscall_exit(p) ==
  /\ MayCall(p, "user")
  /\ Return(p, "exit")
  /\ UNCHANGED <<diskVars, memVars>>

\* Mutant of process_exit(): the program's file stays open.
process_exit_keep(p) ==
  /\ At(p, "exit")
  /\ \/ /\ fd_tab[p] # <<>>
        /\ fd_tab' = [fd_tab EXCEPT ![p] = SubSeq(@, 1, Len(@) - 1)]
        /\ LET file == fd_tab[p][Len(fd_tab[p])] IN
           CallInodeClose(p, frame[p], IF file = NULL THEN NULL ELSE file.inode, "exit")
        /\ UNCHANGED <<inode, exec_file>>
     \/ /\ fd_tab[p] = <<>>
        /\ exec_file' = [exec_file EXCEPT ![p] = NULL]
        /\ Return(p, "none")
        /\ UNCHANGED <<inode, fd_tab>>
  /\ UNCHANGED <<diskVars, free_map, open_inodes, lock_for_file>>

\* Mutant: the program's file is closed while it denies writes.
process_exit_denied(p) ==
  /\ At(p, "exit")
  /\ \/ /\ fd_tab[p] # <<>>
        /\ fd_tab' = [fd_tab EXCEPT ![p] = SubSeq(@, 1, Len(@) - 1)]
        /\ LET file == fd_tab[p][Len(fd_tab[p])] IN
           CallInodeClose(p, frame[p], IF file = NULL THEN NULL ELSE file.inode, "exit")
        /\ UNCHANGED exec_file
     \/ /\ fd_tab[p] = <<>> /\ exec_file[p] # NULL
        /\ CallInodeClose(p, frame[p], exec_file[p].inode, "exit")
        /\ exec_file' = [exec_file EXCEPT ![p] = NULL]
        /\ UNCHANGED fd_tab
     \/ /\ fd_tab[p] = <<>> /\ exec_file[p] = NULL
        /\ Return(p, "none")
        /\ UNCHANGED fileVars
  /\ UNCHANGED <<diskVars, free_map, inodeVars, lock_for_file>>

\* process_exit(): closes the files, the last one first, and then the program's
\* file, which may be written to again.
process_exit(p) ==
  /\ At(p, "exit")
  /\ \/ /\ fd_tab[p] # <<>>
        /\ fd_tab' = [fd_tab EXCEPT ![p] = SubSeq(@, 1, Len(@) - 1)]
        /\ LET file == fd_tab[p][Len(fd_tab[p])] IN
           CallInodeClose(p, frame[p], IF file = NULL THEN NULL ELSE file.inode, "exit")
        /\ UNCHANGED <<inode, exec_file>>
     \/ /\ fd_tab[p] = <<>> /\ exec_file[p] # NULL
        /\ LET i == exec_file[p].inode IN
           /\ inode' = [inode EXCEPT ![i].deny_write_cnt = @ - 1]
           /\ CallInodeClose(p, frame[p], i, "exit")
        /\ exec_file' = [exec_file EXCEPT ![p] = NULL]
        /\ UNCHANGED fd_tab
     \/ /\ fd_tab[p] = <<>> /\ exec_file[p] = NULL
        /\ Return(p, "none")
        /\ UNCHANGED <<inode, fileVars>>
  /\ UNCHANGED <<diskVars, free_map, open_inodes, lock_for_file>>
-----------------------------------------------------------------------------
InodeStep(p) ==
  \/ inode_open(p) \/ inode_alloc(p) \/ inode_read(p)
  \/ inode_close(p) \/ inode_free(p) \/ release_inode(p) \/ release_data(p)

CreateStep(p) ==
  \/ syscall_create(p) \/ allocate_scan(p) \/ allocate_mark(p)
  \/ inode_create(p) \/ write_inode(p) \/ write_zeros(p)
  \/ dir_add(p) \/ dir_write(p) \/ rollback(p)

OpenStep(p) ==
  \/ syscall_open(p) \/ load(p) \/ dir_open(p) \/ dir_lookup(p) \/ lookup_done(p)
  \/ file_open(p) \/ deny_write(p) \/ dir_close(p) \/ return(p)

RemoveStep(p) ==
  \/ syscall_remove(p) \/ dir_remove(p) \/ erase_entry(p) \/ inode_remove(p)

FileStep(p) ==
  \/ syscall_read(p) \/ inode_read_at(p) \/ syscall_write(p) \/ inode_write_at(p)
  \/ syscall_seek(p) \/ syscall_close(p) \/ syscall_exit(p) \/ process_exit(p)

Next ==
  \/ \E p \in Proc :
       InodeStep(p) \/ CreateStep(p) \/ OpenStep(p) \/ RemoveStep(p) \/ FileStep(p)
  \/ Restart

Spec == Init /\ [][Next]_vars
-----------------------------------------------------------------------------
(***************************************************************************)
(* Properties.                                                             *)
(***************************************************************************)
Entries == {k \in 1..DirEntries : disk_entries[k].in_use}

\* The sectors of the file with the inode in sector F.
SectorsOf(f) == {f} \cup DataSectors(disk_inode[f])

SystemSectors == 0..3

\* What the disk holds after every write that a call makes, and so whenever the
\* machine stops: no name twice, and the files that the directory names have
\* sectors of their own, all marked in the free map file.
DiskConsistent ==
  /\ \A k \in Entries : LET s == SectorsOf(disk_entries[k].inode_sector) IN
       s \subseteq disk_free_map /\ s \cap SystemSectors = {}
  /\ \A j, k \in Entries : j # k =>
       /\ disk_entries[j].name # disk_entries[k].name
       /\ SectorsOf(disk_entries[j].inode_sector) \cap SectorsOf(disk_entries[k].inode_sector) = {}

\* dir_add() relies on "inode_read_at() will only return a short read at end of
\* file" (directory.c): no step puts one file in the place of another.
FreeSlotsOnly ==
  [][\A k \in Entries : disk_entries'[k].in_use => disk_entries'[k] = disk_entries[k]]_vars

OpenSectors == {inode[i].sector : i \in Elements(open_inodes)}
LiveFiles == (OpenSectors \ {ROOT_DIR_SECTOR}) \cup {disk_entries[k].inode_sector : k \in Entries}

\* inode_close() frees the blocks of a removed file only after the last opener:
\* files that have a name or are open keep their sectors to themselves.
LiveSectorsMarked ==
  /\ \A f \in LiveFiles : SectorsOf(f) \subseteq free_map
  /\ \A f, g \in LiveFiles : f # g => SectorsOf(f) \cap SectorsOf(g) = {}

\* The list of open inodes: "opening a single inode twice returns the same
\* struct inode" (inode.c).
OneInodePerSector ==
  \A i, j \in Elements(open_inodes) : inode[i].sector = inode[j].sector => i = j

\* An open inode's copy of the on-disk inode is the one on disk.
InodeIsCurrent ==
  \A i \in Elements(open_inodes) :
    \/ inode[i].data = disk_inode[inode[i].sector]
    \/ \E p \in Proc : At(p, "inode_read") /\ frame[p].inode = i

Refs(i) == {m \in Proc \X (1..MaxFd) : m[2] \in OpenFd(m[1]) /\ fd_tab[m[1]][m[2]].inode = i}
Runs(i) == {p \in Proc : exec_file[p] # NULL /\ exec_file[p].inode = i}

\* Between calls the open inodes are those of the open files, and their counts
\* are the numbers of files open on them and of programs running from them.
CountsAgree ==
  (\A p \in Proc : ~ InCall(p)) =>
    \A i \in InodeId :
      /\ inode[i].open_cnt = Cardinality(Refs(i)) + Cardinality(Runs(i))
      /\ inode[i].deny_write_cnt = Cardinality(Runs(i))
      /\ i \in Elements(open_inodes) <=> inode[i].open_cnt > 0

\* The ASSERTs of free_map_release(), inode_deny_write() and inode_allow_write():
\* what is released is marked, no more openers deny writes to an inode than have it
\* open, and one who will allow them again is among those who deny them.
AssertionsHold ==
  /\ \A p \in Proc :
       LET i == frame[p].closing IN
       /\ At(p, "release_inode") => inode[i].sector \in free_map
       /\ At(p, "release_data") => DataSectors(inode[i].data) \subseteq free_map
       /\ At(p, "rollback") => frame[p].inode_sector \in free_map
       /\ exec_file[p] # NULL => inode[exec_file[p].inode].deny_write_cnt > 0
  /\ \A i \in InodeId : inode[i].deny_write_cnt <= inode[i].open_cnt

Contents(f) ==
  [i \in 1..disk_inode[f].length |->
     disk_data[disk_inode[f].start + (i - 1) \div BLOCK_SECTOR_SIZE][(i - 1) % BLOCK_SECTOR_SIZE]]

\* file_deny_write() in load(): no step changes the program that a process runs.
ProgramUnchanged ==
  [][\A p \in Proc : exec_file[p] # NULL /\ exec_file'[p] = exec_file[p] =>
       LET f == inode[exec_file[p].inode].sector IN Contents(f)' = Contents(f)]_vars
=============================================================================
