------------------------- MODULE FileSysInvariants --------------------------
(***************************************************************************)
(* The two inductive invariants of the file system, for calls that do not  *)
(* overlap.  Each call takes many steps, fails at any of them, and the     *)
(* machine may stop between any two.  FileSysInv says at each point which  *)
(* sectors a call in progress has for itself and what it knows; UseInv     *)
(* says which struct inodes the calls and the processes refer to, and what *)
(* a new file holds before it has a name.                                  *)
(***************************************************************************)
EXTENDS FileSys

Label ==
  {"none", "user", "inode_open", "inode_alloc", "inode_read", "inode_close", "inode_free",
   "release_inode", "release_data", "allocate", "allocate_mark", "dir_open", "dir_close",
   "inode_create", "write_inode", "write_zeros", "dir_add", "dir_write", "rollback",
   "dir_lookup", "lookup_done", "dir_remove", "erase_entry", "inode_remove", "file_open",
   "deny_write", "return", "inode_read_at", "inode_write_at", "exit"}

OnDisk == [start : Nat, length : Nat]

Entry == [in_use : BOOLEAN, name : Name \cup {NULL}, inode_sector : Sector]

Inode == [sector : Sector, open_cnt : Int, removed : BOOLEAN, deny_write_cnt : Int,
          data : OnDisk]

OpenFile == [inode : InodeId, pos : Int, deny_write : BOOLEAN]

Locals ==
  [op : {"none", "create", "remove", "open", "load", "close"}, name : Name \cup {NULL},
   size : Nat, fd : Nat, sector : Sector, inode_sector : Sector, start : Nat \cup {BITMAP_ERROR},
   cnt : Nat, dir : InodeId \cup {NULL}, inode : InodeId \cup {NULL},
   closing : InodeId \cup {NULL}, slot : Nat, done : Int, bounce : BOOLEAN,
   ret : Label]

TypeInv ==
  /\ disk_inode \in [Sector -> OnDisk]
  /\ disk_entries \in [1..DirEntries -> Entry]
  /\ disk_free_map \subseteq Sector /\ free_map \subseteq Sector
  /\ inode \in [InodeId -> Inode]
  /\ open_inodes \in Seq(InodeId)
  /\ fd_tab \in [Proc -> Seq(OpenFile \cup {NULL})]
  /\ exec_file \in [Proc -> OpenFile \cup {NULL}]
  /\ pc \in [Proc -> Label]
  /\ frame \in [Proc -> Locals]

\* Calls do not overlap.
OneCall == \A p, q \in Proc : InCall(p) /\ InCall(q) => p = q

NamedSectors == {disk_entries[k].inode_sector : k \in Entries}

\* The sectors of the files that have a name or are open.
SectorsInv ==
  /\ SystemSectors \subseteq free_map \cap disk_free_map
  /\ \A f \in LiveFiles : /\ SectorsOf(f) \subseteq free_map \ SystemSectors
                          /\ f \notin DataSectors(disk_inode[f])
  /\ \A f, g \in LiveFiles : f # g => SectorsOf(f) \cap SectorsOf(g) = {}
  /\ \A f \in NamedSectors : SectorsOf(f) \subseteq disk_free_map
  /\ \A j, k \in Entries : j # k =>
       /\ disk_entries[j].name # disk_entries[k].name
       /\ disk_entries[j].inode_sector # disk_entries[k].inode_sector

\* The list of open inodes, and the struct inodes that are not on it.
OpenInv ==
  /\ NoDuplicates(open_inodes)
  /\ OneInodePerSector
  /\ InodeIsCurrent
  /\ \A i \in Elements(open_inodes) :
       /\ inode[i].sector # FREE_MAP_SECTOR
       /\ inode[i].removed => inode[i].sector \notin NamedSectors \cup {ROOT_DIR_SECTOR}
  /\ \A i \in InodeId : inode[i].open_cnt > 0 => i \in Elements(open_inodes)

Opening == {"inode_open", "inode_alloc", "inode_read"}
Closing == {"inode_close", "inode_free", "release_inode", "release_data"}
Allocating == {"allocate", "allocate_mark"}

\* The sectors that free_map_allocate() has found for P.
Found(p) == frame[p].start..frame[p].start + frame[p].cnt - 1

\* The sectors that the call of P has for itself: those of a file that is not in
\* the directory yet, and those of a removed file that are not released yet.
Claim(p) ==
  CASE pc[p] = "inode_create" /\ frame[p].start # BITMAP_ERROR -> {frame[p].start}
    [] pc[p] \in Allocating /\ frame[p].ret = "write_inode" -> {frame[p].inode_sector}
    [] pc[p] = "write_inode" ->
         {frame[p].inode_sector} \cup IF frame[p].start = BITMAP_ERROR THEN {} ELSE Found(p)
    [] pc[p] \in {"write_zeros", "dir_add", "dir_write"} -> SectorsOf(frame[p].inode_sector)
    [] pc[p] = "rollback" -> {frame[p].inode_sector}
    [] pc[p] = "release_inode" ->
         {inode[frame[p].closing].sector} \cup DataSectors(inode[frame[p].closing].data)
    [] pc[p] = "release_data" -> DataSectors(inode[frame[p].closing].data)
    [] OTHER -> {}

\* They are nobody else's.
ClaimInv(p) ==
  /\ Claim(p) \subseteq free_map \ SystemSectors
  /\ \A f \in LiveFiles : Claim(p) \cap SectorsOf(f) = {}
  /\ pc[p] \notin {"rollback", "release_inode", "release_data"} => Claim(p) \subseteq disk_free_map

\* Struct inode I is on the list, for sector S.
IsOpen(i, s) == i \in Elements(open_inodes) /\ inode[i].sector = s

Erasing(p) == pc[p] = "erase_entry" \/ (pc[p] \in Opening /\ frame[p].ret = "erase_entry")

\* What P relies on when it opens an inode.
OpeningInv(p) ==
  /\ pc[p] \in Opening =>
       /\ frame[p].ret \in {"dir_open", "lookup_done", "erase_entry"}
       /\ frame[p].ret = "dir_open" => frame[p].sector = ROOT_DIR_SECTOR
       /\ frame[p].ret # "dir_open" => frame[p].sector \in NamedSectors
  /\ pc[p] = "inode_alloc" => frame[p].sector \notin OpenSectors
  /\ pc[p] = "inode_read" => IsOpen(frame[p].inode, frame[p].sector)
  /\ Erasing(p) =>
       /\ frame[p].slot \in Entries
       /\ disk_entries[frame[p].slot].name = frame[p].name
       /\ disk_entries[frame[p].slot].inode_sector = frame[p].sector
  /\ pc[p] = "erase_entry" /\ frame[p].inode # NULL => IsOpen(frame[p].inode, frame[p].sector)
  /\ pc[p] = "inode_remove" =>
       /\ IsOpen(frame[p].inode, frame[p].sector)
       /\ frame[p].sector \notin NamedSectors \cup {ROOT_DIR_SECTOR}

\* When it closes one.
ClosingInv(p) ==
  /\ pc[p] \in Closing => frame[p].ret \in {"return", "file_open", "dir_close", "exit"}
  /\ pc[p] = "inode_free" =>
       frame[p].closing \in Elements(open_inodes) /\ inode[frame[p].closing].open_cnt = 0
  /\ pc[p] \in {"release_inode", "release_data"} =>
       frame[p].closing \in InodeId \ Elements(open_inodes)
  /\ pc[p] = "release_inode" =>
       inode[frame[p].closing].sector \notin DataSectors(inode[frame[p].closing].data)
  /\ pc[p] = "deny_write" => frame[p].inode \in InodeId
  /\ pc[p] \in {"inode_read_at", "inode_write_at"} => frame[p].fd \in OpenFd(p)

\* And when it creates a file.
CreateInv(p) ==
  /\ pc[p] \in Allocating =>
       \/ frame[p].ret = "inode_create" /\ frame[p].cnt = 1
       \/ frame[p].ret = "write_inode" /\ frame[p].cnt = bytes_to_sectors(frame[p].size)
  /\ pc[p] = "allocate_mark" =>
       frame[p].start # BITMAP_ERROR /\ Found(p) \subseteq Sector \ free_map
  /\ pc[p] = "inode_create" => frame[p].cnt = 1
  /\ pc[p] = "write_inode" =>
       /\ frame[p].cnt = bytes_to_sectors(frame[p].size)
       /\ frame[p].start # BITMAP_ERROR => frame[p].inode_sector \notin Found(p)
  /\ pc[p] \in {"write_zeros", "dir_add", "dir_write"} =>
       frame[p].inode_sector \notin DataSectors(disk_inode[frame[p].inode_sector])
  /\ pc[p] = "dir_write" =>
       /\ frame[p].slot \in (1..DirEntries) \ Entries
       /\ \A k \in Entries : disk_entries[k].name # frame[p].name

CallInv(p) == ClaimInv(p) /\ OpeningInv(p) /\ ClosingInv(p) /\ CreateInv(p)

FileSysInv == TypeInv /\ OneCall /\ SectorsInv /\ OpenInv /\ \A p \in Proc : CallInv(p)
-----------------------------------------------------------------------------
(***************************************************************************)
(* What the calls and the processes refer to.                              *)
(***************************************************************************)

\* The references to inodes that a call has in its locals: L is where it is and F
\* is its frame.
HoldsDir(l, f) ==
  \/ l \in Opening /\ f.ret # "dir_open"
  \/ l \in Allocating
  \/ l \in {"inode_create", "write_inode", "write_zeros", "dir_add", "dir_write", "rollback",
            "dir_lookup", "lookup_done", "dir_remove", "erase_entry", "inode_remove",
            "dir_close"}
  \/ l \in Closing /\ f.ret = "dir_close"

HoldsInode(l, f) ==
  \/ l \in {"inode_read", "dir_open", "lookup_done", "erase_entry", "inode_remove",
            "file_open", "deny_write"}
  \/ l \in Closing /\ f.ret = "file_open"

Points(x, i) == IF x = i THEN 1 ELSE 0

\* How many of them are to struct inode I.  close keeps the descriptor while it
\* closes the file: that is one less.
Held(l, f, i) ==
  (IF HoldsDir(l, f) THEN Points(f.dir, i) ELSE 0)
    + (IF HoldsInode(l, f) THEN Points(f.inode, i) ELSE 0)
    + (IF l = "inode_close" THEN Points(f.closing, i) ELSE 0)
    - (IF f.op = "close" THEN Points(f.closing, i) ELSE 0)

\* The counts of the open inodes, when nobody but P may be in a call.
CountInv(p) ==
  \A i \in InodeId :
    /\ inode[i].open_cnt = Cardinality(Refs(i)) + Cardinality(Runs(i)) + Held(pc[p], frame[p], i)
    /\ inode[i].deny_write_cnt = Cardinality(Runs(i))
    /\ i \in Elements(open_inodes) =>
         inode[i].open_cnt > 0 \/ (pc[p] = "inode_free" /\ frame[p].closing = i)

\* A struct inode that is not the root directory's.
NotRoot(i) == inode[i].sector # ROOT_DIR_SECTOR

\* What a process has open.
HandleInv(p) ==
  /\ Len(fd_tab[p]) <= MaxFd
  /\ \A fd \in OpenFd(p) : fd_tab[p][fd] \in File /\ NotRoot(fd_tab[p][fd].inode)
  /\ exec_file[p] # NULL => exec_file[p] \in File /\ NotRoot(exec_file[p].inode)

\* A call whose frame holds the inode of a file, not of the directory.
HoldsFile(l, f) ==
  \/ l = "inode_read" /\ f.ret = "lookup_done"
  \/ l \in {"lookup_done", "file_open", "deny_write"}
  \/ l \in Closing /\ f.ret = "file_open"

FileRefInv(p, l, f) ==
  /\ l = "dir_lookup" => f.inode = NULL
  /\ l \in {"none", "deny_write"} \/ f.op = "load" => exec_file[p] = NULL
  /\ HoldsFile(l, f) /\ f.inode # NULL => NotRoot(f.inode)
  /\ f.op = "open" => Len(fd_tab[p]) < MaxFd
  /\ f.op = "close" =>
       /\ l = "return" \/ (l \in Closing /\ f.ret = "return")
       /\ f.fd \in OpenFd(p) /\ fd_tab[p][f.fd].inode = f.closing
  /\ l = "inode_write_at" /\ f.done > 0 => inode[fd_tab[p][f.fd].inode].deny_write_cnt = 0

\* What create has written before the file gets its name.
NewFileInv(l, f) ==
  /\ f.done >= 0
  /\ l = "dir_open" \/ (l \in Opening /\ f.ret = "dir_open") => f.done = 0
  /\ l \in Allocating \cup {"inode_create", "write_inode"} => f.op = "create" /\ f.done = 0
  /\ f.op = "create" => f.size \in FileSize
  /\ l \in {"write_zeros", "dir_add", "dir_write"} =>
       /\ f.size \in FileSize /\ f.start \in Nat /\ f.cnt = bytes_to_sectors(f.size)
       /\ disk_inode[f.inode_sector] = [start |-> f.start, length |-> f.size]
       /\ \A k \in 0..f.done - 1 : disk_data[f.start + k] = Zeros
  /\ l \in {"dir_add", "dir_write"} => f.done >= f.cnt
  /\ l = "dir_write" => f.name \in ValidName

DataInv ==
  /\ disk_data \in [Sector -> [0..BLOCK_SECTOR_SIZE - 1 -> Byte]]
  /\ \A s \in Sector : disk_inode[s].length \in FileSize \cup {BLOCK_SECTOR_SIZE}

\* P is in a call and nobody else is, or nobody is.
Actor(p) == InCall(p) \/ \A q \in Proc : ~ InCall(q)

UseInv ==
  /\ DataInv
  /\ \A p \in Proc : /\ HandleInv(p)
                     /\ FileRefInv(p, pc[p], frame[p]) /\ NewFileInv(pc[p], frame[p])
  /\ \A p \in Proc : Actor(p) => CountInv(p)
-----------------------------------------------------------------------------
(***************************************************************************)
(* What the proofs take from arithmetic, from the lists of the kernel and  *)
(* from the theory of finite sets.  FileSysProofs proves it.               *)
(***************************************************************************)
LeastFact == \A S \in SUBSET Nat : S # {} => \E m \in S : \A n \in S : m <= n

ListFacts ==
  \A list \in Seq(InodeId) :
    /\ \A elem \in InodeId :
         /\ <<elem>> \o list \in Seq(InodeId)
         /\ Elements(<<elem>> \o list) = Elements(list) \cup {elem}
         /\ NoDuplicates(list) /\ elem \notin Elements(list) => NoDuplicates(<<elem>> \o list)
    /\ \A elem \in Elements(list) : NoDuplicates(list) =>
         /\ list_remove(list, elem) \in Seq(InodeId)
         /\ Elements(list_remove(list, elem)) = Elements(list) \ {elem}
         /\ NoDuplicates(list_remove(list, elem))

Counts(S) ==
  /\ Cardinality(S) \in Nat
  /\ S # {} => Cardinality(S) > 0
  /\ \A x : x \notin S => Cardinality(S \cup {x}) = Cardinality(S) + 1
  /\ \A x \in S : Cardinality(S \ {x}) = Cardinality(S) - 1

CountFacts ==
  /\ Cardinality({}) = 0
  /\ \A S \in SUBSET (Proc \X (1..MaxFd)) : Counts(S)
  /\ \A S \in SUBSET Proc : Counts(S)

Facts == LeastFact /\ ListFacts /\ CountFacts
=============================================================================
