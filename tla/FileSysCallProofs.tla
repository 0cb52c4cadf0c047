-------------------------- MODULE FileSysCallProofs -------------------------
(***************************************************************************)
(* The calls of the file system keep FileSysInv, step by step.             *)
(***************************************************************************)
EXTENDS FileSysInvariants, TLAPS

\* The prover of the leaves that name none.
USE ZenonT(60)
-----------------------------------------------------------------------------
(***************************************************************************)
(* Control.                                                                *)
(***************************************************************************)

\* Where a call has nothing of its own.
Plain == {"none", "user", "dir_open", "dir_close", "dir_lookup", "lookup_done", "dir_remove",
          "file_open", "return", "exit"}

\* A step of P changes where P is and its locals, and no other's.
LEMMA GotoFacts ==
  ASSUME TypeInv, NEW p \in Proc, NEW l \in Label, NEW f \in Locals, Goto(p, l, f)
  PROVE  /\ pc'[p] = l /\ frame'[p] = f
         /\ pc' \in [Proc -> Label] /\ frame' \in [Proc -> Locals]
         /\ \A q \in Proc \ {p} : pc'[q] = pc[q] /\ frame'[q] = frame[q]
  BY DEF Goto, TypeInv

\* The types of the locals, one by one.
LEMMA FrameFacts ==
  ASSUME TypeInv, NEW p \in Proc
  PROVE  /\ pc[p] \in Label /\ frame[p] \in Locals
         /\ frame[p].op \in {"none", "create", "remove", "open", "load", "close"}
         /\ frame[p].name \in Name \cup {NULL} /\ frame[p].size \in Nat /\ frame[p].fd \in Nat
         /\ frame[p].sector \in Sector /\ frame[p].inode_sector \in Sector
         /\ frame[p].start \in Nat \cup {BITMAP_ERROR} /\ frame[p].cnt \in Nat
         /\ frame[p].dir \in InodeId \cup {NULL} /\ frame[p].inode \in InodeId \cup {NULL}
         /\ frame[p].closing \in InodeId \cup {NULL} /\ frame[p].slot \in Nat
         /\ frame[p].done \in Int /\ frame[p].bounce \in BOOLEAN /\ frame[p].ret \in Label
<1>1. pc[p] \in Label /\ frame[p] \in Locals
  BY DEF TypeInv
<1> QED BY <1>1 DEF Locals

\* The locals of a process that is in no call have their types.
LEMMA NoFrameType ==
  NoFrame \in Locals /\ {FREE_MAP_SECTOR, ROOT_DIR_SECTOR} \subseteq Sector
<1>1. FREE_MAP_SECTOR \in Sector /\ ROOT_DIR_SECTOR \in Sector /\ 0 \in Sector /\ 0 \in Nat
      /\ 0 \in Int
  BY SMTT(20), SizesAssumption DEF Sector, FREE_MAP_SECTOR, ROOT_DIR_SECTOR
<1>2. "none" \in Label /\ "none" \in {"none", "create", "remove", "open", "load", "close"}
  BY DEF Label
<1> QED BY <1>1, <1>2 DEF NoFrame, Locals

\* The sectors that a call has, before and after a step.
LEMMA ClaimIs ==
  ASSUME NEW p
  PROVE  /\ pc[p] \in Plain \cup Opening \cup {"erase_entry", "inode_remove", "inode_close",
                              "inode_free", "deny_write", "inode_read_at", "inode_write_at"} =>
              Claim(p) = {}
         /\ pc[p] \in Allocating /\ frame[p].ret # "write_inode" => Claim(p) = {}
         /\ pc[p] = "inode_create" =>
              Claim(p) = IF frame[p].start = BITMAP_ERROR THEN {} ELSE {frame[p].start}
         /\ pc[p] \in Allocating /\ frame[p].ret = "write_inode" =>
              Claim(p) = {frame[p].inode_sector}
         /\ pc[p] = "write_inode" =>
              Claim(p) = {frame[p].inode_sector}
                           \cup IF frame[p].start = BITMAP_ERROR THEN {} ELSE Found(p)
         /\ pc[p] \in {"write_zeros", "dir_add", "dir_write"} =>
              Claim(p) = SectorsOf(frame[p].inode_sector)
         /\ pc[p] = "rollback" => Claim(p) = {frame[p].inode_sector}
         /\ pc[p] = "release_inode" =>
              Claim(p) = {inode[frame[p].closing].sector}
                           \cup DataSectors(inode[frame[p].closing].data)
         /\ pc[p] = "release_data" => Claim(p) = DataSectors(inode[frame[p].closing].data)
  BY DEF Claim, Plain, Opening, Allocating

\* A call that is not in progress has nothing to rely on.
LEMMA PlainCall ==
  ASSUME NEW p, pc'[p] \in Plain
  PROVE  CallInv(p)'
<1>1. Claim(p)' = {}
  BY DEF Claim, Plain, Allocating
<1> QED BY <1>1 DEF CallInv, ClaimInv, OpeningInv, ClosingInv, CreateInv, Plain, Opening,
                    Closing, Allocating, Erasing

\* A step of P leaves what the others rely on alone: they are not in a call.
LEMMA StepKeeps ==
  ASSUME FileSysInv, NEW p \in Proc, Actor(p),
         \A q \in Proc \ {p} : pc'[q] = pc[q],
         TypeInv', SectorsInv', OpenInv', CallInv(p)'
  PROVE  FileSysInv'
<1>1. \A q \in Proc \ {p} : ~ InCall(q) /\ ~ InCall(q)'
  BY DEF FileSysInv, OneCall, Actor, InCall
<1>2. \A q \in Proc \ {p} : CallInv(q)'
  <2>1. \A q \in Proc \ {p} : pc'[q] \in Plain
    BY <1>1 DEF InCall, Plain
  <2> QED BY <2>1, PlainCall
<1>3. OneCall'
  BY <1>1 DEF OneCall
<1> QED BY <1>2, <1>3 DEF FileSysInv

\* Outside inode_open() every open inode has its data.
LEMMA NobodyReads ==
  ASSUME FileSysInv, NEW p \in Proc, Actor(p), pc[p] # "inode_read"
  PROVE  \A i \in Elements(open_inodes) : inode[i].data = disk_inode[inode[i].sector]
<1>1. \A q \in Proc : pc[q] # "inode_read"
  BY DEF FileSysInv, OneCall, Actor, InCall
<1> QED BY <1>1 DEF FileSysInv, OpenInv, InodeIsCurrent, At

\* What the open inodes are and what they hold is as it was.  The counts may change,
\* and one that has no name any more may be removed.
StillOpen ==
  /\ UNCHANGED open_inodes
  /\ inode' \in [InodeId -> Inode]
  /\ \A i \in Elements(open_inodes) :
       /\ inode'[i].sector = inode[i].sector /\ inode'[i].data = inode[i].data
       /\ inode'[i].removed => inode[i].sector \notin NamedSectors \cup {ROOT_DIR_SECTOR}
  /\ \A i \in InodeId : inode'[i].open_cnt > 0 => i \in Elements(open_inodes)

FileTypes ==
  /\ fd_tab' \in [Proc -> Seq(OpenFile \cup {NULL})]
  /\ exec_file' \in [Proc -> OpenFile \cup {NULL}]

\* Descriptors and programs that do not change keep their types.
LEMMA SameFiles ==
  ASSUME UNCHANGED fileVars, TypeInv
  PROVE  FileTypes
  BY DEF FileTypes, TypeInv, fileVars

\* Struct inodes that do not change stay open.
LEMMA SameInodes ==
  ASSUME UNCHANGED inodeVars, FileSysInv
  PROVE  StillOpen
  BY DEF StillOpen, FileSysInv, TypeInv, OpenInv, inodeVars

\* The list of open inodes has struct inodes only.
LEMMA OpenIds ==
  ASSUME TypeInv
  PROVE  Elements(open_inodes) \subseteq InodeId
  BY SMTT(20) DEF TypeInv, Elements, Range

\* The open sectors, when the list and the sectors of its inodes do not change.
LEMMA SameSectors ==
  ASSUME Elements(open_inodes)' = Elements(open_inodes),
         \A i \in Elements(open_inodes) : inode'[i].sector = inode[i].sector
  PROVE  OpenSectors' = OpenSectors
  BY DEF OpenSectors

\* The list of open inodes, in a step that may write to the disk.
LEMMA OpenKept ==
  ASSUME FileSysInv, NEW p \in Proc, Actor(p), pc[p] # "inode_read", StillOpen,
         \A i \in Elements(open_inodes) :
           /\ disk_inode'[inode[i].sector] = disk_inode[inode[i].sector]
           /\ inode'[i].removed => inode[i].sector \notin NamedSectors'
  PROVE  /\ OpenInv' /\ OpenSectors' = OpenSectors
         /\ \A i \in InodeId : \A s : IsOpen(i, s)' <=> IsOpen(i, s)
<1> USE DEF FileSysInv
<1>1. Elements(open_inodes)' = Elements(open_inodes) /\ Elements(open_inodes) \subseteq InodeId
  BY OpenIds DEF StillOpen
<1> USE <1>1
<1>2. OpenSectors' = OpenSectors
  <2>1. \A i \in Elements(open_inodes) : inode'[i].sector = inode[i].sector
    BY DEF StillOpen
  <2> QED BY <2>1 DEF OpenSectors
<1>3. \A i \in InodeId : \A s : IsOpen(i, s)' <=> IsOpen(i, s)
  BY DEF IsOpen, StillOpen
<1>4. \A i \in Elements(open_inodes) : inode[i].data = disk_inode[inode[i].sector]
  BY NobodyReads
<1>5. InodeIsCurrent'
  BY <1>4 DEF InodeIsCurrent, StillOpen
<1>6. OneInodePerSector'
  BY DEF OneInodePerSector, StillOpen, OpenInv
<1>7. NoDuplicates(open_inodes)'
  BY DEF StillOpen, OpenInv
<1>8. \A i \in Elements(open_inodes)' :
        /\ inode'[i].sector # FREE_MAP_SECTOR
        /\ inode'[i].removed => inode'[i].sector \notin NamedSectors' \cup {ROOT_DIR_SECTOR}
  BY DEF StillOpen, OpenInv
<1>9. \A i \in InodeId : inode'[i].open_cnt > 0 => i \in Elements(open_inodes)'
  BY DEF StillOpen
<1> QED BY <1>2, <1>3, <1>5, <1>6, <1>7, <1>8, <1>9 DEF OpenInv

\* The sectors, in a step that leaves names and inodes on disk as they were.
LEMMA SectorsKept ==
  ASSUME SectorsInv, UNCHANGED <<disk_inode, disk_entries>>, LiveFiles' \subseteq LiveFiles,
         SystemSectors \subseteq free_map' \cap disk_free_map',
         \A g \in LiveFiles' : SectorsOf(g) \subseteq free_map',
         \A g \in NamedSectors : SectorsOf(g) \subseteq disk_free_map'
  PROVE  /\ Entries' = Entries /\ NamedSectors' = NamedSectors
         /\ \A s : SectorsOf(s)' = SectorsOf(s)
         /\ SectorsInv'
<1>1. Entries' = Entries /\ NamedSectors' = NamedSectors
  BY DEF Entries, NamedSectors
<1>2. /\ \A s : SectorsOf(s)' = SectorsOf(s)
      /\ \A s : DataSectors(disk_inode[s])' = DataSectors(disk_inode[s])
      /\ SystemSectors' = SystemSectors
  BY DEF SectorsOf, DataSectors, SystemSectors
<1>3. SectorsInv'
  BY <1>1, <1>2 DEF SectorsInv
<1> QED BY <1>1, <1>2, <1>3

\* A step that changes neither files nor open inodes; it may change the free map.
LEMMA MapStep ==
  ASSUME FileSysInv, NEW p \in Proc, Actor(p), pc[p] # "inode_read",
         UNCHANGED <<disk_inode, disk_entries>>, StillOpen, FileTypes,
         free_map' \subseteq Sector, disk_free_map' \subseteq Sector,
         SystemSectors \subseteq free_map' \cap disk_free_map',
         \A g \in LiveFiles : SectorsOf(g) \subseteq free_map',
         \A g \in NamedSectors : SectorsOf(g) \subseteq disk_free_map',
         NEW l \in Label, NEW f \in Locals, Goto(p, l, f)
  PROVE  /\ pc'[p] = l /\ frame'[p] = f /\ \A q \in Proc \ {p} : pc'[q] = pc[q]
         /\ LiveFiles' = LiveFiles /\ OpenSectors' = OpenSectors /\ Entries' = Entries
         /\ NamedSectors' = NamedSectors /\ \A s : SectorsOf(s)' = SectorsOf(s)
         /\ \A i \in InodeId : \A s : IsOpen(i, s)' <=> IsOpen(i, s)
         /\ TypeInv' /\ SectorsInv' /\ OpenInv'
<1>1. /\ pc'[p] = l /\ frame'[p] = f /\ \A q \in Proc \ {p} : pc'[q] = pc[q]
      /\ pc' \in [Proc -> Label] /\ frame' \in [Proc -> Locals]
  BY GotoFacts DEF FileSysInv
<1>2. Entries' = Entries /\ NamedSectors' = NamedSectors
  BY DEF Entries, NamedSectors
<1>3. /\ OpenInv' /\ OpenSectors' = OpenSectors
      /\ \A i \in InodeId : \A s : IsOpen(i, s)' <=> IsOpen(i, s)
  <2>1. \A i \in Elements(open_inodes) :
           /\ disk_inode'[inode[i].sector] = disk_inode[inode[i].sector]
           /\ inode'[i].removed => inode[i].sector \notin NamedSectors'
    BY <1>2 DEF StillOpen
  <2> QED BY <2>1, OpenKept
<1>4. LiveFiles' = LiveFiles
  BY <1>2, <1>3 DEF LiveFiles, NamedSectors
<1>5. /\ \A s : SectorsOf(s)' = SectorsOf(s)
      /\ SectorsInv'
  <2>1. SectorsInv
    BY DEF FileSysInv
  <2> QED BY <1>4, <2>1, SectorsKept
<1>6. TypeInv'
  BY <1>1 DEF FileSysInv, TypeInv, StillOpen, FileTypes
<1> QED BY <1>1, <1>2, <1>3, <1>4, <1>5, <1>6

\* A step that does not change the free map either.
LEMMA Quiet ==
  ASSUME FileSysInv, NEW p \in Proc, Actor(p), pc[p] # "inode_read",
         UNCHANGED <<disk_inode, disk_entries, disk_free_map, free_map>>, StillOpen, FileTypes,
         NEW l \in Label, NEW f \in Locals, Goto(p, l, f)
  PROVE  /\ pc'[p] = l /\ frame'[p] = f /\ \A q \in Proc \ {p} : pc'[q] = pc[q]
         /\ LiveFiles' = LiveFiles /\ OpenSectors' = OpenSectors /\ Entries' = Entries
         /\ NamedSectors' = NamedSectors /\ \A s : SectorsOf(s)' = SectorsOf(s)
         /\ \A i \in InodeId : \A s : IsOpen(i, s)' <=> IsOpen(i, s)
         /\ TypeInv' /\ SectorsInv' /\ OpenInv'
<1>1. /\ free_map' \subseteq Sector /\ disk_free_map' \subseteq Sector
      /\ SystemSectors \subseteq free_map' \cap disk_free_map'
      /\ \A g \in LiveFiles : SectorsOf(g) \subseteq free_map'
      /\ \A g \in NamedSectors : SectorsOf(g) \subseteq disk_free_map'
  BY DEF FileSysInv, SectorsInv, TypeInv
<1> QED BY <1>1, MapStep

\* Such a step keeps the invariant if the call goes on with no more sectors than
\* it had.
LEMMA QuietCall ==
  ASSUME FileSysInv, NEW p \in Proc, Actor(p), pc[p] # "inode_read",
         UNCHANGED <<disk_inode, disk_entries, disk_free_map, free_map>>, StillOpen, FileTypes,
         NEW l \in Label, NEW f \in Locals, Goto(p, l, f),
         Claim(p)' \subseteq Claim(p),
         pc[p] \notin {"rollback", "release_inode", "release_data"},
         OpeningInv(p)', ClosingInv(p)', CreateInv(p)'
  PROVE  FileSysInv'
<1>1. ClaimInv(p)
  BY DEF FileSysInv, CallInv
<1>2. /\ LiveFiles' = LiveFiles /\ \A s : SectorsOf(s)' = SectorsOf(s)
      /\ \A q \in Proc \ {p} : pc'[q] = pc[q]
      /\ TypeInv' /\ SectorsInv' /\ OpenInv'
  BY Quiet
<1>3. SystemSectors' = SystemSectors
  BY DEF SystemSectors
<1>4. ClaimInv(p)'
  BY <1>1, <1>2, <1>3 DEF ClaimInv
<1> QED BY <1>2, <1>4, StepKeeps DEF CallInv

\* A step that goes to a place where a call has nothing of its own, and changes
\* nothing else, keeps the invariant.
LEMMA QuietPlain ==
  ASSUME FileSysInv, NEW p \in Proc, Actor(p), pc[p] # "inode_read",
         UNCHANGED <<disk_inode, disk_entries, disk_free_map, free_map>>, StillOpen, FileTypes,
         NEW l \in Plain, NEW f \in Locals, Goto(p, l, f)
  PROVE  FileSysInv'
<1>1. l \in Label
  BY DEF Plain, Label
<1>2. /\ pc'[p] = l /\ \A q \in Proc \ {p} : pc'[q] = pc[q]
      /\ TypeInv' /\ SectorsInv' /\ OpenInv'
  BY <1>1, Quiet
<1>3. CallInv(p)'
  BY <1>2, PlainCall
<1> QED BY <1>2, <1>3, StepKeeps

\* So does one that goes on to close an inode.
LEMMA QuietClose ==
  ASSUME FileSysInv, NEW p \in Proc, Actor(p), pc[p] # "inode_read",
         UNCHANGED <<disk_inode, disk_entries, disk_free_map, free_map>>, StillOpen, FileTypes,
         NEW f \in Locals, NEW i \in InodeId \cup {NULL},
         NEW ret \in {"return", "file_open", "dir_close", "exit"}, CallInodeClose(p, f, i, ret)
  PROVE  FileSysInv'
<1> DEFINE g == [f EXCEPT !.closing = i, !.ret = ret]
<1>1. "inode_close" \in Label /\ ret \in Label
  BY DEF Label
<1>2. g \in Locals /\ g.ret = ret
  BY <1>1 DEF Locals
<1>3. Goto(p, "inode_close", g)
  BY DEF CallInodeClose
<1> HIDE DEF g
<1>4. /\ pc'[p] = "inode_close" /\ frame'[p] = g /\ \A q \in Proc \ {p} : pc'[q] = pc[q]
      /\ TypeInv' /\ SectorsInv' /\ OpenInv'
  BY <1>1, <1>2, <1>3, Quiet
<1> USE <1>4
<1>5. Claim(p)' = {}
  BY DEF Claim, Allocating
<1>6. frame'[p].ret \in {"return", "file_open", "dir_close", "exit"}
  BY <1>2
<1>7. CallInv(p)'
  BY <1>5, <1>6 DEF CallInv, ClaimInv, OpeningInv, ClosingInv, CreateInv, Opening, Closing,
     Allocating, Erasing
<1> QED BY <1>7, StepKeeps

\* So does one that goes on to open the root directory or a file that has a name.
LEMMA QuietInodeOpen ==
  ASSUME FileSysInv, NEW p \in Proc, Actor(p), pc[p] # "inode_read",
         UNCHANGED <<disk_inode, disk_entries, disk_free_map, free_map>>, StillOpen, FileTypes,
         NEW f \in Locals, NEW s \in Sector, NEW ret \in {"dir_open", "lookup_done", "erase_entry"},
         ret = "dir_open" => s = ROOT_DIR_SECTOR, ret # "dir_open" => s \in NamedSectors,
         ret = "erase_entry" => /\ f.slot \in Entries /\ disk_entries[f.slot].name = f.name
                                /\ disk_entries[f.slot].inode_sector = s,
         CallInodeOpen(p, f, s, ret)
  PROVE  FileSysInv'
<1> DEFINE g == [f EXCEPT !.sector = s, !.ret = ret]
<1>1. "inode_open" \in Label /\ ret \in Label
  BY DEF Label
<1>2. g \in Locals /\ g.ret = ret /\ g.sector = s /\ g.slot = f.slot /\ g.name = f.name
  BY <1>1 DEF Locals
<1>3. Goto(p, "inode_open", g)
  BY DEF CallInodeOpen
<1> HIDE DEF g
<1>4. /\ pc'[p] = "inode_open" /\ frame'[p] = g /\ \A q \in Proc \ {p} : pc'[q] = pc[q]
      /\ Entries' = Entries /\ NamedSectors' = NamedSectors
      /\ TypeInv' /\ SectorsInv' /\ OpenInv'
  BY <1>1, <1>2, <1>3, Quiet
<1> USE <1>4
<1>5. Claim(p)' = {}
  BY DEF Claim, Allocating
<1>6. /\ frame'[p].ret = ret /\ frame'[p].sector = s /\ frame'[p].slot = f.slot
      /\ frame'[p].name = f.name
  BY <1>2
<1>7. OpeningInv(p)'
  BY <1>6 DEF OpeningInv, Opening, Erasing
<1>8. CallInv(p)'
  BY <1>5, <1>7 DEF CallInv, ClaimInv, ClosingInv, CreateInv, Closing, Allocating
<1> QED BY <1>8, StepKeeps

-----------------------------------------------------------------------------
(***************************************************************************)
(* The calls' beginnings and ends, and open files.                         *)
(***************************************************************************)

\* A process in a call is the actor.
LEMMA InACall ==
  ASSUME NEW p \in Proc, pc[p] \notin {"none", "user"}
  PROVE  Actor(p)
  BY DEF Actor, InCall

\* Which of the three sizes chunk_size() takes does not matter here.
LEMMA ChunkType ==
  ASSUME TypeInv, NEW p \in Proc, frame[p].fd \in OpenFd(p)
  PROVE  Ofs(p) \in Int /\ chunk_size(p) \in Int
<1>1. fd_tab[p][frame[p].fd] \in OpenFile
  <2>1. fd_tab[p] \in Seq(OpenFile \cup {NULL})
    BY DEF TypeInv
  <2>2. \A k \in 1..Len(fd_tab[p]) : fd_tab[p][k] \in OpenFile \cup {NULL}
    BY SMTT(20), <2>1
  <2> QED BY <2>2 DEF OpenFd
<1>2. /\ fd_tab[p][frame[p].fd].pos \in Int /\ fd_tab[p][frame[p].fd].inode \in InodeId
  BY <1>1 DEF OpenFile
<1>3. Ino(p).data.length \in Int
  <2>1. Ino(p) \in Inode
    BY <1>2 DEF Ino, TypeInv
  <2>2. Ino(p).data \in OnDisk
    BY <2>1 DEF Inode
  <2>3. Ino(p).data.length \in Nat
    BY <2>2 DEF OnDisk
  <2> QED BY SMTT(20), <2>3
<1>4. Ofs(p) \in Int /\ frame[p].size \in Int /\ frame[p].done \in Int
  BY SMTT(20), <1>2, FrameFacts DEF Ofs
<1> DEFINE a == frame[p].size - frame[p].done
           b == Ino(p).data.length - Ofs(p)
           c == BLOCK_SECTOR_SIZE - (Ofs(p) % BLOCK_SECTOR_SIZE)
<1>5. a \in Int /\ b \in Int /\ c \in Int
  BY SMTT(20), <1>3, <1>4, SizesAssumption
<1>6. chunk_size(p) = Min({a, b, c})
  BY DEF chunk_size
<1> HIDE DEF a, b, c
<1>7. \E x \in {a, b, c} : \A y \in {a, b, c} : x <= y
  BY SMTT(20), <1>5
<1>8. Min({a, b, c}) \in {a, b, c}
  BY <1>7 DEF Min
<1> QED BY <1>4, <1>5, <1>6, <1>8

\* A call begins, which changes nothing but the locals.
LEMMA BeginCalls ==
  ASSUME FileSysInv, ~ Overlap, NEW p \in Proc,
         \/ syscall_create(p) \/ syscall_remove(p) \/ syscall_open(p) \/ load(p)
         \/ syscall_close(p) \/ syscall_exit(p) \/ syscall_read(p) \/ syscall_write(p)
  PROVE  FileSysInv'
<1> USE DEF diskVars, memVars, fileVars, inodeVars
<1>1. /\ Actor(p) /\ pc[p] # "inode_read"
      /\ UNCHANGED <<disk_inode, disk_entries, disk_free_map, free_map, inodeVars, fileVars>>
  <2>1. UNCHANGED <<disk_inode, disk_entries, disk_free_map, free_map, inodeVars, fileVars>>
    BY DEF syscall_create, syscall_remove, syscall_open, load, syscall_close, syscall_exit,
           syscall_read, syscall_write
  <2>2. \E l \in {"none", "user"} : MayCall(p, l)
    BY DEF syscall_create, syscall_remove, syscall_open, load, syscall_close, syscall_exit,
           syscall_read, syscall_write
  <2> QED BY <2>1, <2>2 DEF MayCall, At, Actor
<1> USE <1>1
<1>2. TypeInv /\ StillOpen /\ FileTypes
  BY SameFiles, SameInodes DEF FileSysInv
<1> USE <1>2
<1>3. CASE syscall_create(p) \/ syscall_remove(p) \/ syscall_open(p) \/ load(p)
  <2>1. ASSUME NEW op \in {"create", "remove", "open", "load"}, NEW name \in Name, NEW size \in Nat
        PROVE  /\ [NoFrame EXCEPT !.op = op, !.name = name, !.size = size] \in Locals
               /\ [NoFrame EXCEPT !.op = op, !.name = name] \in Locals
    BY NoFrameType DEF Locals
  <2>2. PICK f \in Locals : CallInodeOpen(p, f, ROOT_DIR_SECTOR, "dir_open")
    <3>1. CASE syscall_create(p)
      BY <2>1, <3>1, SizesAssumption DEF syscall_create
    <3>2. 0 \in Nat
      BY SMTT(20)
    <3>3. CASE syscall_remove(p) \/ syscall_open(p) \/ load(p)
      BY <2>1, <3>2, <3>3 DEF syscall_remove, syscall_open, load
    <3> QED BY <1>3, <3>1, <3>3
  <2> QED BY <2>2, QuietInodeOpen, NoFrameType
<1>4. CASE syscall_close(p)
  <2>1. PICK fd \in OpenFd(p) : CallInodeClose(p, [NoFrame EXCEPT !.op = "close", !.fd = fd],
                                               fd_tab[p][fd].inode, "return")
    BY <1>4 DEF syscall_close
  <2>2. fd \in Nat /\ fd_tab[p][fd] \in OpenFile
    BY SMTT(20) DEF OpenFd, TypeInv
  <2>3. fd_tab[p][fd].inode \in InodeId
    BY <2>2 DEF OpenFile
  <2>4. [NoFrame EXCEPT !.op = "close", !.fd = fd] \in Locals
    BY <2>2, NoFrameType DEF Locals
  <2> QED BY <2>1, <2>3, <2>4, QuietClose
<1>5. CASE syscall_exit(p)
  BY <1>5, QuietPlain, NoFrameType DEF syscall_exit, Return, Plain
<1>6. CASE syscall_read(p) \/ syscall_write(p)
  <2>1. PICK l \in {"inode_read_at", "inode_write_at"}, fd \in OpenFd(p), size \in Nat :
          Goto(p, l, [NoFrame EXCEPT !.fd = fd, !.size = size])
    BY <1>6, SizesAssumption DEF syscall_read, syscall_write
  <2>2. fd \in Nat
    BY SMTT(20) DEF OpenFd
  <2>3. /\ [NoFrame EXCEPT !.fd = fd, !.size = size] \in Locals
        /\ [NoFrame EXCEPT !.fd = fd, !.size = size].fd = fd
    BY <2>2, NoFrameType DEF Locals
  <2>4. l \in Label
    BY DEF Label
  <2>5. pc'[p] = l /\ frame'[p].fd = fd
    <3>1. pc'[p] = l /\ frame'[p] = [NoFrame EXCEPT !.fd = fd, !.size = size]
      BY <2>1, <2>3, <2>4, Quiet
    <3> QED BY <2>3, <3>1
  <2>6. Claim(p)' = {}
    BY <2>5 DEF Claim, Allocating
  <2>7. fd \in OpenFd(p)'
    BY DEF OpenFd
  <2>8. OpeningInv(p)' /\ ClosingInv(p)' /\ CreateInv(p)'
    BY <2>5, <2>7 DEF OpeningInv, ClosingInv, CreateInv, Opening, Closing, Allocating, Erasing
  <2>9. pc[p] \notin {"rollback", "release_inode", "release_data"}
    BY <1>6 DEF syscall_read, syscall_write, MayCall, At
  <2> QED BY <2>1, <2>3, <2>4, <2>6, <2>8, <2>9, QuietCall
<1> QED BY <1>3, <1>4, <1>5, <1>6

\* Replacing an element of a sequence leaves a sequence.
LEMMA ReplaceAt ==
  ASSUME NEW S, NEW list \in Seq(S), NEW k, NEW e \in S
  PROVE  [list EXCEPT ![k] = e] \in Seq(S)
<1> DEFINE r == [list EXCEPT ![k] = e]
<1>1. Len(list) \in Nat /\ list \in [1..Len(list) -> S]
  BY SMTT(20)
<1>2. r \in [1..Len(list) -> S]
  BY <1>1
<1> HIDE DEF r
<1>3. r \in Seq(S)
  BY SMTT(20), <1>1, <1>2
<1> QED BY <1>3 DEF r

\* A change of deny_write_cnt.
LEMMA CountsOnly ==
  ASSUME FileSysInv, UNCHANGED open_inodes, NEW i \in InodeId,
         \/ inode' = [inode EXCEPT ![i].deny_write_cnt = @ + 1]
         \/ inode' = [inode EXCEPT ![i].deny_write_cnt = @ - 1]
  PROVE  StillOpen
<1>1. inode \in [InodeId -> Inode] /\ inode[i] \in Inode
  BY DEF FileSysInv, TypeInv
<1> USE <1>1
<1>2. PICK n \in Int : inode' = [inode EXCEPT ![i] = [inode[i] EXCEPT !.deny_write_cnt = n]]
  <2>1. inode[i].deny_write_cnt \in Int
    BY DEF Inode
  <2>2. inode[i].deny_write_cnt + 1 \in Int /\ inode[i].deny_write_cnt - 1 \in Int
    BY SMTT(20), <2>1
  <2> QED BY <2>2
<1> DEFINE new == [inode[i] EXCEPT !.deny_write_cnt = n]
<1>3. /\ new \in Inode /\ new.sector = inode[i].sector /\ new.data = inode[i].data
      /\ new.removed = inode[i].removed /\ new.open_cnt = inode[i].open_cnt
  BY DEF Inode
<1>4. inode' = [inode EXCEPT ![i] = new]
  BY <1>2
<1> HIDE DEF new
<1>5. inode' \in [InodeId -> Inode]
  BY <1>3, <1>4
<1>6. \A j \in InodeId : /\ inode'[j].sector = inode[j].sector /\ inode'[j].data = inode[j].data
                         /\ inode'[j].removed = inode[j].removed
                         /\ inode'[j].open_cnt = inode[j].open_cnt
  BY <1>3, <1>4
<1>7. \A j \in InodeId : inode'[j].open_cnt > 0 => j \in Elements(open_inodes)
  BY <1>6 DEF FileSysInv, OpenInv
<1>8. \A j \in Elements(open_inodes) :
        /\ inode'[j].sector = inode[j].sector /\ inode'[j].data = inode[j].data
        /\ inode'[j].removed => inode[j].sector \notin NamedSectors \cup {ROOT_DIR_SECTOR}
  <2>1. TypeInv /\ OpenInv
    BY DEF FileSysInv
  <2> QED BY <1>6, <2>1, OpenIds DEF OpenInv
<1> QED BY <1>5, <1>7, <1>8 DEF StillOpen

\* A change of a file's position.
LEMMA SeekTypes ==
  ASSUME TypeInv, NEW p \in Proc, NEW fd \in OpenFd(p), NEW pos \in Int,
         fd_tab' = [fd_tab EXCEPT ![p][fd].pos = pos], UNCHANGED exec_file
  PROVE  FileTypes
<1>1. fd_tab[p] \in Seq(OpenFile \cup {NULL}) /\ fd_tab \in [Proc -> Seq(OpenFile \cup {NULL})]
  BY DEF TypeInv
<1> USE <1>1
<1>2. fd_tab[p][fd] \in OpenFile
  BY SMTT(20) DEF OpenFd
<1> DEFINE file == [fd_tab[p][fd] EXCEPT !.pos = pos]
<1>3. file \in OpenFile
  BY <1>2 DEF OpenFile
<1>4. fd_tab' = [fd_tab EXCEPT ![p] = [fd_tab[p] EXCEPT ![fd] = file]]
  OBVIOUS
<1> HIDE DEF file
<1>5. [fd_tab[p] EXCEPT ![fd] = file] \in Seq(OpenFile \cup {NULL})
  BY <1>3, ReplaceAt
<1> QED BY <1>4, <1>5 DEF FileTypes, TypeInv

\* The ends of calls, and the steps that read and write files.
LEMMA FileCalls ==
  ASSUME FileSysInv, ~ Overlap, NEW p \in Proc,
         \/ return(p) \/ file_open(p) \/ deny_write(p) \/ syscall_seek(p) \/ process_exit(p)
  PROVE  FileSysInv'
<1> USE DEF diskVars, memVars, fileVars, inodeVars
<1>1. TypeInv /\ fd_tab[p] \in Seq(OpenFile \cup {NULL})
  BY DEF FileSysInv, TypeInv
<1> USE <1>1
<1>2. /\ pc[p] # "inode_read" /\ Actor(p)
      /\ UNCHANGED <<disk_inode, disk_entries, disk_free_map, free_map, open_inodes>>
  <2>1. CASE ~ syscall_seek(p)
    BY <2>1, InACall DEF return, file_open, deny_write, process_exit, At
  <2>2. CASE syscall_seek(p)
    BY <2>2 DEF syscall_seek, MayCall, At, Actor
  <2> QED BY <2>1, <2>2
<1> USE <1>2
<1>3. ASSUME UNCHANGED inode PROVE StillOpen
  BY <1>3, SameInodes
<1> USE <1>3
<1>4. ASSUME NEW s \in Seq(OpenFile \cup {NULL}), fd_tab' = [fd_tab EXCEPT ![p] = s],
             exec_file' \in [Proc -> OpenFile \cup {NULL}]
      PROVE  FileTypes
  BY <1>4 DEF FileTypes, TypeInv
<1>5. CASE return(p)
  <2>1. FileTypes
    <3>1. CASE frame[p].op = "close"
      <4>1. [fd_tab[p] EXCEPT ![frame[p].fd] = NULL] \in Seq(OpenFile \cup {NULL})
        BY ReplaceAt
      <4>2. fd_tab' = [fd_tab EXCEPT ![p] = [fd_tab[p] EXCEPT ![frame[p].fd] = NULL]]
        BY <1>5, <3>1 DEF return, TypeInv
      <4> QED BY <1>4, <1>5, <4>1, <4>2 DEF return, TypeInv
    <3>2. CASE frame[p].op # "close"
      BY <1>5, <3>2 DEF return, TypeInv, FileTypes
    <3> QED BY <3>1, <3>2
  <2> QED BY <1>5, <2>1, QuietPlain, NoFrameType DEF return, Return, Plain
<1>6. CASE file_open(p)
  <2>1. StillOpen
    BY <1>6 DEF file_open
  <2> USE <2>1
  <2>2. CASE /\ CallInodeClose(p, [frame[p] EXCEPT !.inode = NULL], frame[p].inode, "return")
             /\ UNCHANGED fd_tab
    <3>1. [frame[p] EXCEPT !.inode = NULL] \in Locals /\ frame[p].inode \in InodeId \cup {NULL}
      BY FrameFacts DEF Locals
    <3>2. FileTypes
      BY <1>6, <2>2, SameFiles DEF file_open
    <3> QED BY <2>2, <3>1, <3>2, QuietClose
  <2>3. CASE /\ frame[p].inode # NULL
             /\ fd_tab' = [fd_tab EXCEPT ![p] = Append(@, [inode |-> frame[p].inode, pos |-> 0,
                                                           deny_write |-> FALSE])]
             /\ Return(p, "user")
    <3>1. [inode |-> frame[p].inode, pos |-> 0, deny_write |-> FALSE] \in OpenFile
      <4>1. frame[p].inode \in InodeId /\ 0 \in Int
        BY SMTT(20), <2>3, FrameFacts
      <4> QED BY <4>1 DEF OpenFile
    <3> DEFINE file == [inode |-> frame[p].inode, pos |-> 0, deny_write |-> FALSE]
    <3>2. Append(fd_tab[p], file) \in Seq(OpenFile \cup {NULL})
      BY SMTT(20), <1>4, <3>1 DEF TypeInv
    <3>3. fd_tab' = [fd_tab EXCEPT ![p] = Append(fd_tab[p], file)]
      BY <2>3
    <3>4. FileTypes
      BY <1>4, <1>6, <3>2, <3>3 DEF file_open, TypeInv
    <3> QED BY <2>3, <3>4, QuietPlain, NoFrameType DEF Return, Plain
  <2>4. CASE frame[p].inode # NULL /\ UNCHANGED fd_tab /\ Goto(p, "deny_write", frame[p])
    <3>1. "deny_write" \in Label /\ frame[p] \in Locals
      BY FrameFacts DEF Label
    <3>2. FileTypes
      BY <1>6, <2>4, SameFiles DEF file_open
    <3>3. pc'[p] = "deny_write" /\ frame'[p] = frame[p]
      BY <2>4, <3>1, <3>2, Quiet
    <3>4. Claim(p)' = {}
      BY <3>3 DEF Claim, Allocating
    <3>5. frame[p].inode \in InodeId
      BY <2>4, FrameFacts
    <3>6. OpeningInv(p)' /\ ClosingInv(p)' /\ CreateInv(p)'
      BY <3>3, <3>5 DEF OpeningInv, ClosingInv, CreateInv, Opening, Closing, Allocating, Erasing
    <3>7. pc[p] \notin {"rollback", "release_inode", "release_data"}
      BY <1>6 DEF file_open, At
    <3> QED BY <2>4, <3>1, <3>2, <3>4, <3>6, <3>7, QuietCall
  <2> QED BY <1>6, <2>2, <2>3, <2>4 DEF file_open
<1>7. CASE deny_write(p)
  <2>1. frame[p].inode \in InodeId
    BY <1>7 DEF deny_write, At, FileSysInv, CallInv, ClosingInv
  <2>2. inode' = [inode EXCEPT ![frame[p].inode].deny_write_cnt = @ + 1]
    BY <1>7 DEF deny_write
  <2>3. StillOpen
    BY <2>1, <2>2, CountsOnly
  <2>4. [inode |-> frame[p].inode, pos |-> 0, deny_write |-> TRUE] \in OpenFile
    <3>1. 0 \in Int
      BY SMTT(20)
    <3> QED BY <2>1, <3>1 DEF OpenFile
  <2>5. FileTypes
    BY <1>7, <2>4 DEF deny_write, FileTypes, TypeInv
  <2> QED BY <1>7, <2>3, <2>5, QuietPlain, NoFrameType DEF deny_write, Return, Plain
<1>8. CASE syscall_seek(p)
  <2>1. PICK fd \in OpenFd(p), pos \in Int : fd_tab' = [fd_tab EXCEPT ![p][fd].pos = pos]
    <3>1. SeekPos \subseteq Int
      BY SMTT(20), SizesAssumption
    <3> QED BY <1>8, <3>1 DEF syscall_seek
  <2>2. FileTypes
    BY <1>8, <2>1, SeekTypes DEF syscall_seek, TypeInv
  <2>3. StillOpen
    BY <1>8 DEF syscall_seek
  <2>4. /\ UNCHANGED <<pc, frame>> /\ pc[p] \in {"user"}
    BY <1>8 DEF syscall_seek, MayCall, At
  <2>5. Goto(p, "user", frame[p])
    BY <1>8, <2>4 DEF Goto, TypeInv, syscall_seek
  <2> QED BY <2>2, <2>3, <2>5, QuietPlain, FrameFacts DEF Plain
<1>9. CASE process_exit(p)
  <2>1. frame[p] \in Locals
    BY FrameFacts
  <2>2. CASE fd_tab[p] # <<>> /\ UNCHANGED <<inode, exec_file>>
             /\ fd_tab' = [fd_tab EXCEPT ![p] = SubSeq(@, 1, Len(@) - 1)]
             /\ LET file == fd_tab[p][Len(fd_tab[p])] IN
                CallInodeClose(p, frame[p], IF file = NULL THEN NULL ELSE file.inode, "exit")
    <3> DEFINE file == fd_tab[p][Len(fd_tab[p])]
               i == IF file = NULL THEN NULL ELSE file.inode
    <3>1. file \in OpenFile \cup {NULL} /\ SubSeq(fd_tab[p], 1, Len(fd_tab[p]) - 1) \in Seq(OpenFile \cup {NULL})
      BY SMTT(20), <2>2
    <3>2. i \in InodeId \cup {NULL}
      BY <3>1 DEF OpenFile
    <3>3. FileTypes
      BY <1>4, <2>2, <3>1 DEF TypeInv
    <3> QED BY <2>1, <2>2, <3>2, <3>3, QuietClose
  <2>3. CASE /\ exec_file[p] # NULL /\ UNCHANGED fd_tab
             /\ inode' = [inode EXCEPT ![exec_file[p].inode].deny_write_cnt = @ - 1]
             /\ exec_file' = [exec_file EXCEPT ![p] = NULL]
             /\ CallInodeClose(p, frame[p], exec_file[p].inode, "exit")
    <3>1. exec_file[p].inode \in InodeId
      BY <2>3 DEF TypeInv, OpenFile
    <3>2. StillOpen
      BY <2>3, <3>1, CountsOnly
    <3>3. FileTypes
      BY <2>3 DEF FileTypes, TypeInv
    <3> QED BY <2>1, <2>3, <3>1, <3>2, <3>3, QuietClose
  <2>4. CASE Return(p, "none") /\ UNCHANGED <<inode, fileVars>>
    BY <2>4, SameFiles, QuietPlain, NoFrameType DEF Return, Plain
  <2> QED BY <1>9, <2>2, <2>3, <2>4 DEF process_exit
<1> QED BY <1>5, <1>6, <1>7, <1>8, <1>9

\* One more opener, or one less, of an inode that is on the list.
LEMMA OpenerCount ==
  ASSUME FileSysInv, UNCHANGED open_inodes, NEW i \in InodeId,
         \/ inode' = [inode EXCEPT ![i].open_cnt = @ + 1] /\ i \in Elements(open_inodes)
         \/ inode' = [inode EXCEPT ![i].open_cnt = @ - 1]
  PROVE  StillOpen /\ inode'[i].open_cnt \in {inode[i].open_cnt + 1, inode[i].open_cnt - 1}
<1>1. inode \in [InodeId -> Inode] /\ inode[i] \in Inode
  BY DEF FileSysInv, TypeInv
<1> USE <1>1
<1>2. inode[i].open_cnt \in Int
  BY DEF Inode
<1>3. PICK n \in {inode[i].open_cnt + 1, inode[i].open_cnt - 1} :
        /\ inode' = [inode EXCEPT ![i] = [inode[i] EXCEPT !.open_cnt = n]]
        /\ n = inode[i].open_cnt + 1 => i \in Elements(open_inodes)
  <2>1. inode[i].open_cnt + 1 # inode[i].open_cnt - 1
    BY SMTT(20), <1>2
  <2> QED BY <2>1
<1>4. n \in Int /\ (n > 0 => n = inode[i].open_cnt + 1 \/ inode[i].open_cnt > 0)
  BY SMTT(20), <1>2
<1> DEFINE new == [inode[i] EXCEPT !.open_cnt = n]
<1>5. /\ new \in Inode /\ new.sector = inode[i].sector /\ new.data = inode[i].data
      /\ new.removed = inode[i].removed /\ new.open_cnt = n
  BY <1>4 DEF Inode
<1>6. inode' = [inode EXCEPT ![i] = new]
  BY <1>3
<1> HIDE DEF new
<1>7. inode' \in [InodeId -> Inode] /\ inode'[i].open_cnt = n
  BY <1>5, <1>6
<1>8. \A j \in InodeId : /\ inode'[j].sector = inode[j].sector /\ inode'[j].data = inode[j].data
                         /\ inode'[j].removed = inode[j].removed
                         /\ j # i => inode'[j].open_cnt = inode[j].open_cnt
  BY <1>5, <1>6
<1>9. TypeInv /\ OpenInv
  BY DEF FileSysInv
<1>10. \A j \in InodeId : inode'[j].open_cnt > 0 => j \in Elements(open_inodes)
  BY <1>3, <1>4, <1>7, <1>8, <1>9 DEF OpenInv
<1>11. \A j \in Elements(open_inodes) :
        /\ inode'[j].sector = inode[j].sector /\ inode'[j].data = inode[j].data
        /\ inode'[j].removed => inode[j].sector \notin NamedSectors \cup {ROOT_DIR_SECTOR}
  BY <1>8, <1>9, OpenIds DEF OpenInv
<1> QED BY <1>3, <1>7, <1>10, <1>11 DEF StillOpen

\* A turn of a read or write of a file.
LEMMA FileIo ==
  ASSUME FileSysInv, NEW p \in Proc, inode_read_at(p) \/ inode_write_at(p)
  PROVE  FileSysInv'
<1> USE DEF diskVars, memVars, fileVars, inodeVars
<1>1. /\ Actor(p) /\ pc[p] \in {"inode_read_at", "inode_write_at"}
      /\ UNCHANGED <<disk_inode, disk_entries, disk_free_map, free_map, inodeVars>>
  BY InACall DEF inode_read_at, inode_write_at, At
<1> USE <1>1
<1>2. EndIo(p) \/ NextTurn(p, pc[p])
  BY DEF inode_read_at, inode_write_at, WriteTurn, At
<1>3. TypeInv /\ StillOpen /\ frame[p].fd \in OpenFd(p) /\ frame[p] \in Locals
  BY SameInodes, FrameFacts DEF FileSysInv, CallInv, ClosingInv
<1> USE <1>3
<1>4. Ofs(p) \in Int /\ chunk_size(p) \in Int
  BY ChunkType
<1>5. CASE EndIo(p)
  <2>1. FileTypes
    BY <1>4, <1>5, SeekTypes DEF EndIo
  <2> QED BY <1>5, <2>1, QuietPlain, NoFrameType DEF EndIo, Return, Plain
<1>6. CASE NextTurn(p, pc[p])
  <2> DEFINE g == [frame[p] EXCEPT !.done = @ + chunk_size(p),
                                   !.bounce = @ \/ chunk_size(p) < BLOCK_SECTOR_SIZE]
  <2>1. frame[p].done + chunk_size(p) \in Int
    BY SMTT(20), <1>4, FrameFacts
  <2>2. (frame[p].bounce \/ chunk_size(p) < BLOCK_SECTOR_SIZE) \in BOOLEAN
    OBVIOUS
  <2>3. g \in Locals /\ g.fd = frame[p].fd
    BY <2>1, <2>2 DEF Locals
  <2>4. Goto(p, pc[p], g) /\ pc[p] \in Label /\ FileTypes
    BY <1>6, SameFiles, FrameFacts DEF NextTurn
  <2> HIDE DEF g
  <2>5. pc'[p] = pc[p] /\ frame'[p] = g
    BY <2>3, <2>4, Quiet
  <2>6. frame'[p].fd \in OpenFd(p)'
    BY <1>6, <2>3, <2>5 DEF OpenFd, NextTurn
  <2>7. Claim(p)' = {}
    BY <2>5 DEF Claim, Allocating
  <2>8. OpeningInv(p)' /\ ClosingInv(p)' /\ CreateInv(p)'
    BY <2>5, <2>6 DEF OpeningInv, ClosingInv, CreateInv, Opening, Closing, Allocating, Erasing
  <2> QED BY <2>3, <2>4, <2>7, <2>8, QuietCall
<1> QED BY <1>2, <1>5, <1>6
-----------------------------------------------------------------------------
(***************************************************************************)
(* inode_open().                                                           *)
(***************************************************************************)

\* Where its caller goes on, with an open inode or none.
LEMMA OpenedCall ==
  ASSUME FileSysInv, NEW p \in Proc, pc[p] \in Opening,
         UNCHANGED disk_entries, pc'[p] = frame[p].ret,
         frame'[p].slot = frame[p].slot, frame'[p].name = frame[p].name,
         frame'[p].sector = frame[p].sector,
         (frame[p].inode # NULL => IsOpen(frame[p].inode, frame[p].sector))'
  PROVE  CallInv(p)'
<1>1. OpeningInv(p)
  BY DEF FileSysInv, CallInv
<1>2. CASE frame[p].ret \in {"dir_open", "lookup_done"}
  <2>1. pc'[p] \in Plain
    BY <1>2 DEF Plain
  <2> QED BY <2>1, PlainCall
<1>3. CASE frame[p].ret = "erase_entry"
  <2>1. Claim(p)' = {}
    BY <1>3 DEF Claim, Allocating
  <2>2. Entries' = Entries
    BY DEF Entries
  <2>4. OpeningInv(p)'
    BY <1>1, <1>3, <2>2 DEF OpeningInv, Opening, Erasing
  <2> QED BY <1>3, <2>1, <2>4 DEF CallInv, ClaimInv, ClosingInv, CreateInv, Closing, Allocating
<1> QED BY <1>1, <1>2, <1>3 DEF OpeningInv

\* inode_open(): the sector is searched for in the list of open inodes.
LEMMA InodeOpen ==
  ASSUME Facts, FileSysInv, NEW p \in Proc, inode_open(p)
  PROVE  FileSysInv'
<1> USE DEF diskVars, memVars, fileVars, inodeVars
<1>1. /\ Actor(p) /\ pc[p] = "inode_open"
      /\ UNCHANGED <<disk_inode, disk_entries, disk_free_map, free_map, open_inodes, fileVars>>
  BY InACall DEF inode_open, At
<1> USE <1>1
<1>2. TypeInv /\ FileTypes /\ frame[p] \in Locals /\ frame[p].ret \in Label
  BY SameFiles, FrameFacts DEF FileSysInv
<1> USE <1>2
<1> DEFINE same == {k \in 1..Len(open_inodes) : inode[open_inodes[k]].sector = frame[p].sector}
           g(j) == [frame[p] EXCEPT !.inode = j]
<1>3. /\ \A j \in InodeId \cup {NULL} :
           /\ g(j) \in Locals /\ g(j).inode = j /\ g(j).slot = frame[p].slot
           /\ g(j).name = frame[p].name /\ g(j).sector = frame[p].sector /\ g(j).ret = frame[p].ret
      /\ same \subseteq Nat /\ DOMAIN open_inodes = 1..Len(open_inodes)
  <2>1. same \subseteq Nat /\ DOMAIN open_inodes = 1..Len(open_inodes)
    BY SMTT(20) DEF TypeInv
  <2> QED BY <2>1 DEF Locals
<1> USE <1>3
<1>4. CASE same # {}
  <2>1. PICK i : /\ i = open_inodes[Min(same)]
                 /\ inode' = [inode EXCEPT ![i].open_cnt = @ + 1] /\ Goto(p, frame[p].ret, g(i))
    BY <1>4 DEF inode_open
  <2>2. i \in Elements(open_inodes) /\ inode[i].sector = frame[p].sector
    <3>1. PICK m \in same : \A n \in same : m <= n
      BY <1>4 DEF Facts, LeastFact
    <3>2. Min(same) \in same
      BY <3>1 DEF Min
    <3> QED BY <2>1, <3>2 DEF Elements, Range
  <2>3. i \in InodeId
    BY <2>2, OpenIds
  <2>4. StillOpen
    BY <2>1, <2>2, <2>3, OpenerCount
  <2>5. g(i) \in Locals
    BY <2>3
  <2>6. /\ pc'[p] = frame[p].ret /\ frame'[p] = g(i) /\ \A q \in Proc \ {p} : pc'[q] = pc[q]
        /\ TypeInv' /\ SectorsInv' /\ OpenInv'
    BY <2>1, <2>4, <2>5, Quiet
  <2> HIDE DEF g
  <2>7. /\ frame'[p].slot = frame[p].slot /\ frame'[p].name = frame[p].name
        /\ frame'[p].sector = frame[p].sector /\ frame'[p].inode = i
    <3>1. PICK e : e = g(i)
      OBVIOUS
    <3>2. /\ e.slot = frame[p].slot /\ e.name = frame[p].name /\ e.sector = frame[p].sector
          /\ e.inode = i
      BY <2>3, <3>1
    <3>3. frame'[p] = e
      BY <2>6, <3>1
    <3> QED BY <3>2, <3>3
  <2>8. (frame[p].inode # NULL => IsOpen(frame[p].inode, frame[p].sector))'
    BY <2>2, <2>4, <2>7 DEF IsOpen, StillOpen
  <2>9. CallInv(p)'
    BY <2>6, <2>7, <2>8, OpenedCall DEF Opening
  <2> QED BY <2>6, <2>9, StepKeeps
<1>5. CASE same = {}
  <2>1. PICK ok \in BOOLEAN : Goto(p, IF ok THEN "inode_alloc" ELSE frame[p].ret, g(NULL))
    BY <1>5 DEF inode_open, malloc
  <2>2. UNCHANGED inode
    BY <1>5 DEF inode_open
  <2>3. frame[p].sector \notin OpenSectors
    <3>1. \A i \in Elements(open_inodes) : inode[i].sector # frame[p].sector
      <4>1. SUFFICES ASSUME NEW i \in Elements(open_inodes), inode[i].sector = frame[p].sector
                     PROVE  FALSE
        OBVIOUS
      <4>2. PICK k \in 1..Len(open_inodes) : open_inodes[k] = i
        BY DEF Elements, Range
      <4>3. k \in same
        BY <4>1, <4>2
      <4> QED BY <1>5, <4>3
    <3> QED BY <3>1 DEF OpenSectors
  <2> DEFINE l == IF ok THEN "inode_alloc" ELSE frame[p].ret
  <2>4. l \in Label /\ StillOpen /\ g(NULL) \in Locals
    BY <2>2, SameInodes DEF Label
  <2>5. /\ pc'[p] = l /\ frame'[p] = g(NULL) /\ \A q \in Proc \ {p} : pc'[q] = pc[q]
        /\ Entries' = Entries /\ NamedSectors' = NamedSectors /\ OpenSectors' = OpenSectors
        /\ TypeInv' /\ SectorsInv' /\ OpenInv'
    BY <2>1, <2>4, Quiet
  <2> USE <2>5
  <2> HIDE DEF g
  <2>6. /\ frame'[p].slot = frame[p].slot /\ frame'[p].name = frame[p].name
        /\ frame'[p].sector = frame[p].sector /\ frame'[p].ret = frame[p].ret
        /\ frame'[p].inode = NULL
    <3>1. PICK e : e = g(NULL)
      OBVIOUS
    <3>2. /\ e.slot = frame[p].slot /\ e.name = frame[p].name /\ e.sector = frame[p].sector
          /\ e.ret = frame[p].ret /\ e.inode = NULL
      BY <3>1
    <3>3. frame'[p] = e
      BY <3>1
    <3> QED BY <3>2, <3>3
  <2>7. CASE ~ ok
    <3>1. CallInv(p)'
      BY <2>6, <2>7, OpenedCall DEF Opening
    <3> QED BY <3>1, StepKeeps
  <2>8. CASE ok
    <3>1. pc'[p] = "inode_alloc"
      BY <2>8
    <3>2. Claim(p)' = {}
      BY <3>1 DEF Claim, Allocating
    <3>3. OpeningInv(p)
      BY DEF FileSysInv, CallInv
    <3>4. OpeningInv(p)'
      BY <2>3, <2>6, <3>1, <3>3 DEF OpeningInv, Opening, Erasing
    <3>5. CallInv(p)'
      BY <3>1, <3>2, <3>4 DEF CallInv, ClaimInv, ClosingInv, CreateInv, Closing, Allocating
    <3> QED BY <3>5, StepKeeps
  <2> QED BY <2>7, <2>8
<1> QED BY <1>4, <1>5

\* It is not there: a new struct inode is put on the list, with its data not read.
LEMMA InodeAlloc ==
  ASSUME Facts, FileSysInv, NEW p \in Proc, inode_alloc(p)
  PROVE  FileSysInv'
<1> USE DEF diskVars, memVars, fileVars, inodeVars
<1>1. /\ Actor(p) /\ pc[p] = "inode_alloc"
      /\ UNCHANGED <<disk_inode, disk_entries, disk_free_map, free_map, fileVars>>
  BY InACall DEF inode_alloc, At
<1> USE <1>1
<1>2. /\ TypeInv /\ SectorsInv /\ OpenInv /\ OpeningInv(p)
      /\ FileTypes /\ frame[p] \in Locals /\ frame[p].sector \in Sector
  BY SameFiles, FrameFacts DEF FileSysInv, CallInv
<1> USE <1>2
<1>3. PICK i \in InodeId, d \in OnDisk :
        /\ inode[i] = NoInode
        /\ inode' = [inode EXCEPT ![i] = [NoInode EXCEPT !.sector = frame[p].sector,
                                                         !.open_cnt = 1, !.data = d]]
        /\ open_inodes' = <<i>> \o open_inodes
        /\ Goto(p, "inode_read", [frame[p] EXCEPT !.inode = i])
  BY DEF inode_alloc, TypeInv
<1> DEFINE new == [NoInode EXCEPT !.sector = frame[p].sector, !.open_cnt = 1, !.data = d]
           g == [frame[p] EXCEPT !.inode = i]
<1>4. /\ new \in Inode /\ new.sector = frame[p].sector /\ ~ new.removed
      /\ NoInode.sector = FREE_MAP_SECTOR
  <2>1. 0 \in Int /\ 1 \in Int
    BY SMTT(20)
  <2> QED BY <2>1 DEF NoInode, Inode
<1>5. /\ g \in Locals /\ g.inode = i /\ g.slot = frame[p].slot
      /\ g.name = frame[p].name /\ g.sector = frame[p].sector /\ g.ret = frame[p].ret
  BY DEF Locals
<1>6. inode' = [inode EXCEPT ![i] = new] /\ Goto(p, "inode_read", g) /\ "inode_read" \in Label
  BY <1>3 DEF Label
<1> HIDE DEF new, g
<1>7. /\ inode' \in [InodeId -> Inode] /\ inode'[i] = new
      /\ \A j \in InodeId \ {i} : inode'[j] = inode[j]
  BY <1>4, <1>6 DEF TypeInv
<1>8. i \notin Elements(open_inodes) /\ Elements(open_inodes) \subseteq InodeId
  BY <1>3, <1>4, OpenIds DEF OpenInv
<1>9. /\ open_inodes' \in Seq(InodeId) /\ NoDuplicates(open_inodes)'
      /\ Elements(open_inodes)' = Elements(open_inodes) \cup {i}
  BY <1>3, <1>8 DEF TypeInv, OpenInv, Facts, ListFacts
<1>10. \A j \in Elements(open_inodes) : inode'[j] = inode[j]
  BY <1>7, <1>8
<1>11. frame[p].sector \notin OpenSectors /\ frame[p].sector \in NamedSectors \cup {ROOT_DIR_SECTOR}
  BY DEF OpeningInv, Opening
<1>12. OpenSectors' = OpenSectors \cup {frame[p].sector}
  <2>1. OpenSectors' = {inode'[j].sector : j \in Elements(open_inodes) \cup {i}}
    BY <1>9 DEF OpenSectors
  <2> QED BY <1>4, <1>7, <1>10, <2>1 DEF OpenSectors
<1>13. Entries' = Entries /\ NamedSectors' = NamedSectors
  BY DEF Entries, NamedSectors
<1>14. LiveFiles' = LiveFiles
  BY <1>11, <1>12, <1>13 DEF LiveFiles, NamedSectors
<1>15. SectorsInv'
  BY <1>14, SectorsKept DEF SectorsInv
<1>16. /\ pc'[p] = "inode_read" /\ frame'[p] = g /\ \A q \in Proc \ {p} : pc'[q] = pc[q]
       /\ pc' \in [Proc -> Label] /\ frame' \in [Proc -> Locals]
  BY <1>5, <1>6, GotoFacts
<1>17. TypeInv'
  BY <1>7, <1>9, <1>16 DEF TypeInv, FileTypes
<1>18. /\ frame'[p].slot = frame[p].slot /\ frame'[p].name = frame[p].name
       /\ frame'[p].sector = frame[p].sector /\ frame'[p].ret = frame[p].ret
       /\ frame'[p].inode = i
  BY <1>5, <1>16
<1>19. frame[p].sector # FREE_MAP_SECTOR
  <2>1. NamedSectors \subseteq LiveFiles
    BY DEF NamedSectors, LiveFiles
  <2>2. \A s \in NamedSectors : s \notin SystemSectors
    BY <2>1 DEF SectorsInv, SectorsOf
  <2>3. FREE_MAP_SECTOR \in SystemSectors /\ ROOT_DIR_SECTOR # FREE_MAP_SECTOR
    BY SMTT(20) DEF FREE_MAP_SECTOR, ROOT_DIR_SECTOR, SystemSectors
  <2> QED BY <1>11, <2>2, <2>3
<1>20. OpenInv'
  <2>1. OneInodePerSector'
    <3>1. \A j \in Elements(open_inodes) : inode[j].sector # frame[p].sector
      BY <1>11 DEF OpenSectors
    <3> QED BY <1>4, <1>7, <1>9, <1>10, <3>1 DEF OneInodePerSector, OpenInv
  <2>2. InodeIsCurrent'
    <3>1. \A j \in Elements(open_inodes) : inode[j].data = disk_inode[inode[j].sector]
      BY NobodyReads
    <3>2. At(p, "inode_read")' /\ frame'[p].inode = i
      BY <1>16, <1>18 DEF At
    <3> QED BY <1>9, <1>10, <3>1, <3>2 DEF InodeIsCurrent
  <2>3. \A j \in Elements(open_inodes)' :
          /\ inode'[j].sector # FREE_MAP_SECTOR
          /\ inode'[j].removed => inode'[j].sector \notin NamedSectors' \cup {ROOT_DIR_SECTOR}
    BY <1>4, <1>7, <1>9, <1>10, <1>13, <1>19 DEF OpenInv
  <2>4. \A j \in InodeId : inode'[j].open_cnt > 0 => j \in Elements(open_inodes)'
    BY <1>7, <1>9 DEF OpenInv
  <2> QED BY <1>9, <2>1, <2>2, <2>3, <2>4 DEF OpenInv
<1>21. CallInv(p)'
  <2>1. Claim(p)' = {}
    BY <1>16 DEF Claim, Allocating
  <2>2. IsOpen(frame[p].inode, frame[p].sector)'
    BY <1>4, <1>7, <1>9, <1>18 DEF IsOpen
  <2>3. OpeningInv(p)'
    BY <1>13, <1>16, <1>18, <2>2 DEF OpeningInv, Opening, Erasing
  <2> QED BY <1>16, <2>1, <2>3 DEF CallInv, ClaimInv, ClosingInv, CreateInv, Closing, Allocating
<1> QED BY <1>15, <1>16, <1>17, <1>20, <1>21, StepKeeps

\* Its data is read.
LEMMA InodeRead ==
  ASSUME FileSysInv, NEW p \in Proc, inode_read(p)
  PROVE  FileSysInv'
<1> USE DEF diskVars, memVars, fileVars, inodeVars
<1>1. /\ Actor(p) /\ pc[p] = "inode_read"
      /\ UNCHANGED <<disk_inode, disk_entries, disk_free_map, free_map, open_inodes, fileVars>>
  BY InACall DEF inode_read, At
<1> USE <1>1
<1>2. /\ TypeInv /\ SectorsInv /\ OpenInv /\ OpeningInv(p)
      /\ FileTypes /\ frame[p] \in Locals /\ frame[p].ret \in Label
      /\ Elements(open_inodes) \subseteq InodeId
  BY SameFiles, FrameFacts, OpenIds DEF FileSysInv, CallInv
<1> USE <1>2
<1>3. PICK i \in Elements(open_inodes) : i = frame[p].inode /\ inode[i].sector = frame[p].sector
  BY DEF OpeningInv, IsOpen
<1> USE <1>3
<1> DEFINE new == [inode[i] EXCEPT !.data = disk_inode[frame[p].sector]]
<1>4. /\ new \in Inode /\ new.sector = frame[p].sector /\ new.removed = inode[i].removed
      /\ new.open_cnt = inode[i].open_cnt /\ new.data = disk_inode[frame[p].sector]
  <2>1. disk_inode[frame[p].sector] \in OnDisk /\ inode[i] \in Inode
    BY FrameFacts DEF TypeInv
  <2> QED BY <2>1 DEF Inode
<1>5. inode' = [inode EXCEPT ![i] = new] /\ Goto(p, frame[p].ret, frame[p])
  BY DEF inode_read, TypeInv
<1> HIDE DEF new
<1>6. /\ inode' \in [InodeId -> Inode] /\ inode'[i] = new
      /\ \A j \in InodeId \ {i} : inode'[j] = inode[j]
  BY <1>4, <1>5 DEF TypeInv
<1>7. /\ \A j \in Elements(open_inodes) : inode'[j].sector = inode[j].sector
                                          /\ inode'[j].removed = inode[j].removed
      /\ \A j \in InodeId : inode'[j].open_cnt = inode[j].open_cnt
      /\ Elements(open_inodes)' = Elements(open_inodes)
  BY <1>4, <1>6
<1> USE <1>7
<1>8. OpenSectors' = OpenSectors
  BY SameSectors
<1>9. Entries' = Entries /\ NamedSectors' = NamedSectors
  BY DEF Entries, NamedSectors
<1>10. LiveFiles' = LiveFiles
  BY <1>8, <1>9 DEF LiveFiles, NamedSectors
<1>11. SectorsInv'
  BY <1>10, SectorsKept DEF SectorsInv
<1>12. /\ pc'[p] = frame[p].ret /\ frame'[p] = frame[p] /\ \A q \in Proc \ {p} : pc'[q] = pc[q]
       /\ pc' \in [Proc -> Label] /\ frame' \in [Proc -> Locals]
  BY <1>5, GotoFacts
<1> USE <1>12
<1>13. TypeInv'
  BY <1>6 DEF TypeInv, FileTypes
<1>14. InodeIsCurrent'
  <2>1. \A q \in Proc \ {p} : pc[q] # "inode_read"
    BY DEF FileSysInv, OneCall, InCall
  <2>2. \A j \in Elements(open_inodes) \ {i} : inode[j].data = disk_inode[inode[j].sector]
    BY <2>1 DEF OpenInv, InodeIsCurrent, At
  <2>3. \A j \in Elements(open_inodes) : inode'[j].data = disk_inode[inode'[j].sector]
    BY <1>4, <1>6, <2>2
  <2> QED BY <2>3 DEF InodeIsCurrent
<1>15. OpenInv'
  <2>1. OneInodePerSector'
    BY DEF OneInodePerSector, OpenInv
  <2> QED BY <1>9, <1>14, <2>1 DEF OpenInv
<1>16. (frame[p].inode # NULL => IsOpen(frame[p].inode, frame[p].sector))'
  BY DEF IsOpen
<1>17. CallInv(p)'
  BY <1>16, OpenedCall DEF Opening
<1> QED BY <1>11, <1>13, <1>15, <1>17, StepKeeps
-----------------------------------------------------------------------------
(***************************************************************************)
(* inode_close() and the release of sectors.                               *)
(***************************************************************************)

\* Where the caller of inode_close() goes on.
LEMMA Returns ==
  {"return", "file_open", "dir_close", "exit"} \subseteq Plain
  BY DEF Plain

\* Memory that no struct inode occupies has the types of one, and no openers.
LEMMA NoInodeType ==
  NoInode \in Inode /\ NoInode.open_cnt = 0 /\ NoInodeDisk \in OnDisk
<1>1. 0 \in Int /\ FREE_MAP_SECTOR \in Sector /\ FREE_MAP_SECTOR \in Nat
      /\ BLOCK_SECTOR_SIZE \in Nat
  BY SMTT(20), NoFrameType, SizesAssumption DEF FREE_MAP_SECTOR
<1>2. NoInodeDisk \in OnDisk
  BY <1>1 DEF NoInodeDisk, OnDisk
<1> QED BY <1>1, <1>2 DEF NoInode, Inode

\* inode_close(): one opener less.
LEMMA InodeClose ==
  ASSUME FileSysInv, NEW p \in Proc, inode_close(p)
  PROVE  FileSysInv'
<1> USE DEF diskVars, memVars, fileVars, inodeVars
<1>1. /\ Actor(p) /\ pc[p] = "inode_close"
      /\ UNCHANGED <<disk_inode, disk_entries, disk_free_map, free_map, open_inodes, fileVars>>
  BY InACall DEF inode_close, At
<1> USE <1>1
<1>2. /\ TypeInv /\ OpenInv /\ ClosingInv(p) /\ FileTypes /\ frame[p] \in Locals
      /\ frame[p].closing \in InodeId \cup {NULL}
  BY SameFiles, FrameFacts DEF FileSysInv, CallInv
<1> USE <1>2
<1>3. frame[p].ret \in {"return", "file_open", "dir_close", "exit"} /\ frame[p].ret \in Plain
  BY Returns DEF ClosingInv, Closing
<1>4. CASE frame[p].closing = NULL
  BY <1>3, <1>4, SameInodes, QuietPlain DEF inode_close
<1>5. CASE frame[p].closing # NULL
  <2>1. PICK i \in InodeId :
          /\ i = frame[p].closing
          /\ inode' = [inode EXCEPT ![i].open_cnt = @ - 1]
          /\ Goto(p, IF inode'[i].open_cnt = 0 THEN "inode_free" ELSE frame[p].ret, frame[p])
    BY <1>5 DEF inode_close
  <2> USE <2>1
  <2>2. StillOpen
    BY OpenerCount
  <2>3. CASE inode'[i].open_cnt # 0
    BY <1>3, <2>2, <2>3, QuietPlain
  <2>4. CASE inode'[i].open_cnt = 0
    <3>1. i \in Elements(open_inodes)
      <4>1. inode'[i].open_cnt = inode[i].open_cnt - 1 /\ inode[i].open_cnt \in Int
        BY DEF TypeInv, Inode
      <4>2. inode[i].open_cnt > 0
        BY SMTT(20), <2>4, <4>1
      <4> QED BY <4>2 DEF OpenInv
    <3>2. "inode_free" \in Label /\ Goto(p, "inode_free", frame[p])
      BY <2>4 DEF Label
    <3>3. pc'[p] = "inode_free" /\ frame'[p] = frame[p]
      BY <2>2, <3>2, Quiet
    <3>4. Claim(p)' = {}
      BY <3>3 DEF Claim, Allocating
    <3>5. OpeningInv(p)' /\ ClosingInv(p)' /\ CreateInv(p)'
      BY <1>3, <2>4, <3>1, <3>3
         DEF OpeningInv, ClosingInv, CreateInv, Opening, Closing, Allocating, Erasing
    <3> QED BY <2>2, <3>2, <3>4, <3>5, QuietCall
  <2> QED BY <2>3, <2>4
<1> QED BY <1>4, <1>5

\* The last one: the struct inode is taken off the list.  A removed file's sectors
\* are the closer's from here on.
LEMMA InodeFree ==
  ASSUME Facts, FileSysInv, NEW p \in Proc, inode_free(p)
  PROVE  FileSysInv'
<1> USE DEF diskVars, memVars, fileVars, inodeVars
<1>1. /\ Actor(p) /\ pc[p] = "inode_free"
      /\ UNCHANGED <<disk_inode, disk_entries, disk_free_map, free_map, fileVars>>
  BY InACall DEF inode_free, At
<1> USE <1>1
<1>2. /\ TypeInv /\ SectorsInv /\ OpenInv /\ ClosingInv(p)
      /\ FileTypes /\ frame[p] \in Locals /\ frame[p].ret \in Label
      /\ Elements(open_inodes) \subseteq InodeId
  BY SameFiles, FrameFacts, OpenIds DEF FileSysInv, CallInv
<1> USE <1>2
<1>3. /\ frame[p].ret \in {"return", "file_open", "dir_close", "exit"} /\ frame[p].ret \in Plain
      /\ frame[p].closing \in Elements(open_inodes) /\ inode[frame[p].closing].open_cnt = 0
  BY Returns DEF ClosingInv, Closing
<1>4. PICK i \in Elements(open_inodes) :
        /\ i = frame[p].closing /\ inode[i].open_cnt = 0
        /\ open_inodes' = list_remove(open_inodes, i)
        /\ \/ /\ inode[i].removed
              /\ Goto(p, "release_inode", frame[p]) /\ UNCHANGED inode
           \/ /\ ~ inode[i].removed
              /\ Goto(p, frame[p].ret, frame[p]) /\ inode' = [inode EXCEPT ![i] = NoInode]
  BY <1>3 DEF inode_free
<1>5. /\ open_inodes' \in Seq(InodeId) /\ NoDuplicates(open_inodes)'
      /\ Elements(open_inodes)' = Elements(open_inodes) \ {i}
  BY <1>4 DEF TypeInv, OpenInv, Facts, ListFacts
<1>6. NoInode \in Inode /\ NoInode.open_cnt = 0
  BY NoInodeType
<1>7. /\ inode' \in [InodeId -> Inode] /\ \A j \in InodeId \ {i} : inode'[j] = inode[j]
      /\ inode'[i].open_cnt = 0
  BY <1>4, <1>6 DEF TypeInv
<1>8. PICK l \in Label : Goto(p, l, frame[p])
  BY <1>4 DEF Label
<1>9. /\ pc'[p] = l /\ frame'[p] = frame[p] /\ \A q \in Proc \ {p} : pc'[q] = pc[q]
      /\ pc' \in [Proc -> Label] /\ frame' \in [Proc -> Locals]
  BY <1>8, GotoFacts
<1>10. TypeInv'
  BY <1>5, <1>7, <1>9 DEF TypeInv, FileTypes
<1>11. \A j \in Elements(open_inodes)' : j \in Elements(open_inodes) \ {i} /\ inode'[j] = inode[j]
  BY <1>5, <1>7
<1>12. OpenSectors' \subseteq OpenSectors
  BY <1>11 DEF OpenSectors
<1>13. Entries' = Entries /\ NamedSectors' = NamedSectors
  BY DEF Entries, NamedSectors
<1>14. LiveFiles' \subseteq LiveFiles
  BY <1>12, <1>13 DEF LiveFiles, NamedSectors
<1>15. SectorsInv' /\ \A s : SectorsOf(s)' = SectorsOf(s)
  BY <1>14, SectorsKept DEF SectorsInv
<1>16. \A j \in Elements(open_inodes) : inode[j].data = disk_inode[inode[j].sector]
  BY NobodyReads
<1>17. OpenInv'
  <2>1. OneInodePerSector'
    BY <1>11 DEF OneInodePerSector, OpenInv
  <2>2. InodeIsCurrent'
    BY <1>11, <1>16 DEF InodeIsCurrent
  <2>3. \A j \in Elements(open_inodes)' :
          /\ inode'[j].sector # FREE_MAP_SECTOR
          /\ inode'[j].removed => inode'[j].sector \notin NamedSectors' \cup {ROOT_DIR_SECTOR}
    BY <1>11, <1>13 DEF OpenInv
  <2>4. \A j \in InodeId : inode'[j].open_cnt > 0 => j \in Elements(open_inodes)'
    <3>1. ~ (inode'[i].open_cnt > 0)
      BY SMTT(20), <1>7
    <3> QED BY <1>5, <1>7, <3>1 DEF OpenInv
  <2> QED BY <1>5, <2>1, <2>2, <2>3, <2>4 DEF OpenInv
<1>18. CASE ~ inode[i].removed
  <2>1. CallInv(p)'
    <3>1. Goto(p, frame[p].ret, frame[p])
      BY <1>4, <1>18
    <3>2. pc'[p] \in Plain
      BY <1>3, <3>1, GotoFacts
    <3> QED BY <3>2, PlainCall
  <2> QED BY <1>9, <1>10, <1>15, <1>17, <2>1, StepKeeps
<1>19. CASE inode[i].removed
  <2>1. pc'[p] = "release_inode" /\ inode' = inode
    <3>1. Goto(p, "release_inode", frame[p]) /\ "release_inode" \in Label
      BY <1>4, <1>19 DEF Label
    <3> QED BY <1>4, <1>19, <3>1, GotoFacts
  <2> USE <2>1
  <2> DEFINE s == inode[i].sector
  <2>2. s \notin NamedSectors \cup {ROOT_DIR_SECTOR} /\ s \in LiveFiles
    BY <1>4, <1>19 DEF OpenInv, LiveFiles, OpenSectors
  <2> USE <2>2
  <2>3. s \notin LiveFiles'
    <3>1. \A j \in Elements(open_inodes)' : inode'[j].sector # s
      BY <1>4, <1>11 DEF OpenInv, OneInodePerSector
    <3>2. s \notin OpenSectors'
      BY <3>1 DEF OpenSectors
    <3> QED BY <1>13, <3>2 DEF LiveFiles, NamedSectors
  <2>4. Claim(p)' = SectorsOf(s) /\ s \notin DataSectors(inode[i].data)
    <3>1. Claim(p)' = {inode'[i].sector} \cup DataSectors(inode'[i].data)
      BY <1>4, <1>9 DEF Claim, Allocating
    <3>2. inode[i].data = disk_inode[s]
      BY <1>16
    <3> QED BY <3>1, <3>2 DEF SectorsOf, SectorsInv
  <2>5. ClaimInv(p)'
    <3>1. SectorsOf(s) \subseteq free_map \ SystemSectors
      BY DEF SectorsInv
    <3>2. \A f \in LiveFiles' : f \in LiveFiles /\ f # s
      BY <1>14, <2>3
    <3>3. \A f \in LiveFiles' : SectorsOf(s) \cap SectorsOf(f) = {}
      BY <3>2 DEF SectorsInv
    <3>4. SystemSectors' = SystemSectors
      BY DEF SystemSectors
    <3> QED BY <1>15, <2>4, <3>1, <3>3, <3>4 DEF ClaimInv
  <2>6. ClosingInv(p)'
    BY <1>3, <1>4, <1>5, <1>9, <2>4 DEF ClosingInv, Closing
  <2>7. CallInv(p)'
    BY <2>5, <2>6 DEF CallInv, OpeningInv, CreateInv, Opening, Allocating, Erasing
  <2> QED BY <1>9, <1>10, <1>15, <1>17, <2>7, StepKeeps
<1> QED BY <1>18, <1>19

\* The release of sectors that the call has for itself: no file loses any.
LEMMA ReleaseStep ==
  ASSUME FileSysInv, NEW p \in Proc, Actor(p), pc[p] \in {"release_inode", "release_data", "rollback"},
         NEW S, S \subseteq Claim(p), free_map_release(S),
         UNCHANGED <<disk_inode, disk_entries, fileVars>>, StillOpen,
         NEW l \in Label, NEW f \in Locals, Goto(p, l, f)
  PROVE  /\ pc'[p] = l /\ frame'[p] = f /\ \A q \in Proc \ {p} : pc'[q] = pc[q]
         /\ LiveFiles' = LiveFiles /\ \A s : SectorsOf(s)' = SectorsOf(s)
         /\ TypeInv' /\ SectorsInv' /\ OpenInv'
<1>1. /\ TypeInv /\ SectorsInv /\ ClaimInv(p)
      /\ free_map' = free_map \ S /\ disk_free_map' \in {disk_free_map, free_map'}
  BY DEF FileSysInv, CallInv, free_map_release
<1> USE <1>1
<1>2. NamedSectors \subseteq LiveFiles
  BY DEF NamedSectors, LiveFiles
<1>3. /\ SystemSectors \subseteq free_map' /\ \A g \in LiveFiles : SectorsOf(g) \subseteq free_map'
  BY DEF SectorsInv, ClaimInv
<1>4. /\ SystemSectors \subseteq disk_free_map'
      /\ \A g \in NamedSectors : SectorsOf(g) \subseteq disk_free_map'
  BY <1>2, <1>3 DEF SectorsInv
<1>5. free_map' \subseteq Sector /\ disk_free_map' \subseteq Sector
  BY DEF TypeInv
<1>6. FileTypes /\ pc[p] # "inode_read"
  BY SameFiles
<1> QED BY <1>3, <1>4, <1>5, <1>6, MapStep

\* free_map_release(), of a removed file and of a creation that failed.
LEMMA Release ==
  ASSUME FileSysInv, NEW p \in Proc, release_inode(p) \/ release_data(p) \/ rollback(p)
  PROVE  FileSysInv'
<1> USE DEF diskVars, memVars, fileVars, inodeVars
<1>1. /\ Actor(p) /\ pc[p] \in {"release_inode", "release_data", "rollback"}
      /\ UNCHANGED <<disk_inode, disk_entries, fileVars>>
  BY InACall DEF release_inode, release_data, rollback, At
<1> USE <1>1
<1>2. /\ TypeInv /\ SectorsInv /\ OpenInv /\ ClosingInv(p) /\ ClaimInv(p) /\ frame[p] \in Locals
  BY FrameFacts DEF FileSysInv, CallInv
<1> USE <1>2
<1>3. CASE release_inode(p)
  <2> DEFINE i == frame[p].closing
             s == inode[i].sector
             data == DataSectors(inode[i].data)
  <2>1. pc[p] = "release_inode" /\ Claim(p) = {s} \cup data
    BY <1>3, ClaimIs DEF release_inode, At
  <2> USE <2>1
  <2>2. UNCHANGED inodeVars /\ StillOpen
    BY <1>3, SameInodes DEF release_inode
  <2>3. /\ {s} \subseteq Claim(p) /\ free_map_release({s}) /\ Goto(p, "release_data", frame[p])
        /\ "release_data" \in Label
    BY <1>3 DEF release_inode, Label
  <2>4. /\ pc'[p] = "release_data" /\ frame'[p] = frame[p] /\ \A q \in Proc \ {p} : pc'[q] = pc[q]
        /\ LiveFiles' = LiveFiles /\ \A t : SectorsOf(t)' = SectorsOf(t)
        /\ TypeInv' /\ SectorsInv' /\ OpenInv'
    BY <2>2, <2>3, ReleaseStep
  <2> USE <2>4
  <2>5. Claim(p)' = data
    <3>1. Claim(p)' = DataSectors(inode[frame[p].closing].data)'
      BY DEF Claim, Allocating
    <3> QED BY <2>2, <3>1
  <2>6. s \notin data /\ frame[p].ret \in {"return", "file_open", "dir_close", "exit"}
        /\ frame[p].closing \in InodeId \ Elements(open_inodes)
    BY DEF ClosingInv, Closing
  <2>7. ClaimInv(p)'
    <3>1. data \subseteq free_map' \ SystemSectors
      BY <2>3, <2>6 DEF ClaimInv, free_map_release
    <3>2. \A g \in LiveFiles : data \cap SectorsOf(g) = {}
      BY DEF ClaimInv
    <3>3. SystemSectors' = SystemSectors
      BY DEF SystemSectors
    <3> HIDE DEF data
    <3> QED BY <2>5, <3>1, <3>2, <3>3 DEF ClaimInv
  <2>8. CallInv(p)'
    BY <2>2, <2>6, <2>7 DEF CallInv, OpeningInv, ClosingInv, CreateInv, Opening, Closing,
       Allocating, Erasing
  <2> QED BY <2>8, StepKeeps
<1>4. CASE release_data(p)
  <2>1. PICK i \in InodeId \ Elements(open_inodes) :
          i = frame[p].closing /\ inode' = [inode EXCEPT ![i] = NoInode]
    BY <1>4 DEF release_data, ClosingInv, At
  <2>2. frame[p].ret \in Plain /\ frame[p].ret \in Label
    <3>1. frame[p].ret \in {"return", "file_open", "dir_close", "exit"}
      BY <1>4 DEF release_data, ClosingInv, Closing, At
    <3> QED BY <3>1, Returns, FrameFacts
  <2>3. StillOpen
    <3>1. inode' \in [InodeId -> Inode] /\ inode'[i] = NoInode
      BY <2>1, NoInodeType DEF TypeInv
    <3>2. \A j \in InodeId \ {i} : inode'[j] = inode[j]
      BY <2>1 DEF TypeInv
    <3>3. ~ (NoInode.open_cnt > 0)
      BY SMTT(20), NoInodeType
    <3>4. \A j \in InodeId : inode'[j].open_cnt > 0 => j \in Elements(open_inodes)
      BY <3>1, <3>2, <3>3 DEF OpenInv
    <3>5. \A j \in Elements(open_inodes) :
            /\ inode'[j] = inode[j]
            /\ inode[j].removed => inode[j].sector \notin NamedSectors \cup {ROOT_DIR_SECTOR}
      BY <2>1, <3>2, OpenIds DEF OpenInv
    <3> QED BY <1>4, <3>1, <3>4, <3>5 DEF StillOpen, release_data
  <2>4. /\ DataSectors(inode[frame[p].closing].data) \subseteq Claim(p)
        /\ free_map_release(DataSectors(inode[frame[p].closing].data))
        /\ Goto(p, frame[p].ret, frame[p])
    BY <1>4, ClaimIs DEF release_data, At
  <2>5. /\ pc'[p] = frame[p].ret /\ \A q \in Proc \ {p} : pc'[q] = pc[q]
        /\ TypeInv' /\ SectorsInv' /\ OpenInv'
    BY <2>2, <2>3, <2>4, ReleaseStep
  <2>6. CallInv(p)'
    <3>1. pc'[p] \in Plain
      BY <2>2, <2>5
    <3> QED BY <3>1, PlainCall
  <2> QED BY <2>5, <2>6, StepKeeps
<1>5. CASE rollback(p)
  <2>1. StillOpen /\ "dir_close" \in Label
    BY <1>5, SameInodes DEF rollback, Label
  <2>2. /\ {frame[p].inode_sector} \subseteq Claim(p)
        /\ free_map_release({frame[p].inode_sector})
        /\ Goto(p, "dir_close", frame[p])
    BY <1>5, ClaimIs DEF rollback, At
  <2>3. /\ pc'[p] = "dir_close" /\ \A q \in Proc \ {p} : pc'[q] = pc[q]
        /\ TypeInv' /\ SectorsInv' /\ OpenInv'
    BY <2>1, <2>2, ReleaseStep
  <2>4. CallInv(p)'
    <3>1. pc'[p] \in Plain
      BY <2>3 DEF Plain
    <3> QED BY <3>1, PlainCall
  <2> QED BY <2>3, <2>4, StepKeeps
<1> QED BY <1>3, <1>4, <1>5
-----------------------------------------------------------------------------
(***************************************************************************)
(* create.                                                                 *)
(***************************************************************************)

\* A number of bytes takes a number of sectors.
LEMMA SectorsOfBytes ==
  ASSUME NEW n \in Nat
  PROVE  bytes_to_sectors(n) \in Nat
<1>1. n + BLOCK_SECTOR_SIZE - 1 \in Nat /\ BLOCK_SECTOR_SIZE \in Nat /\ BLOCK_SECTOR_SIZE > 0
  BY SMTT(20), SizesAssumption
<1> QED BY SMTT(20), <1>1 DEF bytes_to_sectors

\* What bitmap_scan() finds is on the device and not marked.
LEMMA ScanFinds ==
  ASSUME Facts, NEW cnt \in Nat, NEW start, start = bitmap_scan(cnt), start # BITMAP_ERROR
  PROVE  start \in Nat /\ start..start + cnt - 1 \subseteq Sector \ free_map
<1> DEFINE fits == {i \in 0..SectorCount - cnt : (i..i + cnt - 1) \cap free_map = {}}
<1>1. fits # {} /\ start = Min(fits)
  BY DEF bitmap_scan
<1>2. fits \subseteq Nat
  BY SMTT(20), SizesAssumption
<1>3. PICK m \in fits : \A n \in fits : m <= n
  BY <1>1, <1>2 DEF Facts, LeastFact
<1>4. start \in fits
  BY <1>1, <1>3 DEF Min
<1>5. start..start + cnt - 1 \subseteq Sector
  BY SMTT(20), <1>4, SizesAssumption DEF Sector
<1> QED BY <1>2, <1>4, <1>5

\* Where the caller of free_map_allocate() goes on without sectors.
LEMMA AllocateFails ==
  ASSUME FileSysInv, NEW p \in Proc, pc[p] \in Allocating,
         UNCHANGED <<disk_inode, disk_entries, disk_free_map, free_map, inodeVars, fileVars>>,
         Goto(p, frame[p].ret, [frame[p] EXCEPT !.start = BITMAP_ERROR])
  PROVE  FileSysInv'
<1> DEFINE g == [frame[p] EXCEPT !.start = BITMAP_ERROR]
<1>1. /\ TypeInv /\ CreateInv(p) /\ frame[p] \in Locals /\ frame[p].ret \in Label
      /\ StillOpen /\ FileTypes /\ Actor(p)
  BY SameFiles, SameInodes, InACall, FrameFacts DEF FileSysInv, CallInv, Allocating
<1> USE <1>1
<1>2. /\ g \in Locals /\ g.start = BITMAP_ERROR /\ g.inode_sector = frame[p].inode_sector
      /\ g.cnt = frame[p].cnt /\ g.size = frame[p].size
  BY DEF Locals
<1> USE <1>2
<1> HIDE DEF g
<1>3. pc[p] \notin {"inode_read", "rollback", "release_inode", "release_data"}
  BY DEF Allocating
<1>4. Goto(p, frame[p].ret, g)
  BY DEF g
<1>5. pc'[p] = frame[p].ret /\ frame'[p] = g
  BY <1>3, <1>4, Quiet
<1> USE <1>5
<1>6. CASE frame[p].ret = "inode_create"
  <2>1. Claim(p)' = {}
    <3>1. pc'[p] = "inode_create" /\ frame'[p].start = BITMAP_ERROR
      BY <1>6
    <3> QED BY <3>1 DEF Claim, Allocating
  <2>2. OpeningInv(p)' /\ ClosingInv(p)' /\ CreateInv(p)'
    BY <1>6
       DEF OpeningInv, ClosingInv, CreateInv, Opening, Closing, Allocating, Erasing
  <2> QED BY <1>3, <1>4, <2>1, <2>2, QuietCall
<1>7. CASE frame[p].ret = "write_inode"
  <2>1. Claim(p)' = {frame[p].inode_sector}
    <3>1. pc'[p] = "write_inode" /\ frame'[p].start = BITMAP_ERROR
          /\ frame'[p].inode_sector = frame[p].inode_sector
      BY <1>7
    <3> QED BY <3>1 DEF Claim, Allocating
  <2>2. OpeningInv(p)' /\ ClosingInv(p)' /\ CreateInv(p)'
    BY <1>7
       DEF OpeningInv, ClosingInv, CreateInv, Opening, Closing, Allocating, Erasing
  <2>3. Claim(p) = {frame[p].inode_sector}
    BY <1>7, ClaimIs
  <2> QED BY <1>3, <1>4, <2>1, <2>2, <2>3, QuietCall
<1> QED BY <1>6, <1>7 DEF CreateInv

\* free_map_allocate() finds sectors that are not marked.
LEMMA AllocateScan ==
  ASSUME Facts, FileSysInv, NEW p \in Proc, allocate_scan(p)
  PROVE  FileSysInv'
<1> USE DEF diskVars, memVars, fileVars, inodeVars
<1>1. /\ Actor(p) /\ pc[p] = "allocate"
      /\ UNCHANGED <<disk_inode, disk_entries, disk_free_map, free_map, inodeVars, fileVars>>
  BY InACall DEF allocate_scan, At
<1> USE <1>1
<1>2. PICK start : /\ start = bitmap_scan(frame[p].cnt)
                   /\ Goto(p, IF start = BITMAP_ERROR THEN frame[p].ret ELSE "allocate_mark",
                           [frame[p] EXCEPT !.start = start])
  BY DEF allocate_scan
<1>3. CASE start = BITMAP_ERROR
  BY <1>2, <1>3, AllocateFails DEF Allocating
<1>4. CASE start # BITMAP_ERROR
  <2> DEFINE g == [frame[p] EXCEPT !.start = start]
  <2>1. /\ TypeInv /\ CreateInv(p) /\ frame[p] \in Locals /\ frame[p].cnt \in Nat
        /\ StillOpen /\ FileTypes /\ "allocate_mark" \in Label
    BY SameFiles, SameInodes, FrameFacts DEF FileSysInv, CallInv, Label
  <2> USE <2>1
  <2>2. start \in Nat /\ start..start + frame[p].cnt - 1 \subseteq Sector \ free_map
    BY <1>2, <1>4, ScanFinds
  <2>3. /\ g \in Locals /\ g.start = start /\ g.inode_sector = frame[p].inode_sector
        /\ g.cnt = frame[p].cnt /\ g.size = frame[p].size /\ g.ret = frame[p].ret
    BY <2>2 DEF Locals
  <2>4. Goto(p, "allocate_mark", g)
    BY <1>2, <1>4
  <2> HIDE DEF g
  <2>5. pc'[p] = "allocate_mark" /\ frame'[p] = g
    BY <2>3, <2>4, Quiet
  <2>6. /\ frame'[p].start = start /\ frame'[p].inode_sector = frame[p].inode_sector
        /\ frame'[p].cnt = frame[p].cnt /\ frame'[p].size = frame[p].size
        /\ frame'[p].ret = frame[p].ret
    BY <2>3, <2>5
  <2>7. Claim(p)' = Claim(p)
    BY <2>5, <2>6 DEF Claim, Allocating
  <2>8. Found(p)' = start..start + frame[p].cnt - 1
    BY <2>6 DEF Found
  <2>9. OpeningInv(p)' /\ ClosingInv(p)' /\ CreateInv(p)'
    BY <1>4, <2>2, <2>5, <2>6, <2>8
       DEF OpeningInv, ClosingInv, CreateInv, Opening, Closing, Allocating, Erasing
  <2> QED BY <2>3, <2>4, <2>7, <2>9, QuietCall
<1> QED BY <1>3, <1>4

\* It marks them and writes the free map, or gives them up again.
LEMMA AllocateMark ==
  ASSUME FileSysInv, NEW p \in Proc, allocate_mark(p)
  PROVE  FileSysInv'
<1> USE DEF diskVars, memVars, fileVars, inodeVars
<1>1. /\ Actor(p) /\ pc[p] = "allocate_mark"
      /\ UNCHANGED <<disk_inode, disk_entries, inodeVars, fileVars>>
  BY InACall DEF allocate_mark, At
<1> USE <1>1
<1>2. /\ TypeInv /\ SectorsInv /\ CreateInv(p) /\ ClaimInv(p) /\ StillOpen /\ FileTypes
      /\ frame[p] \in Locals /\ frame[p].ret \in Label /\ frame[p].start \in Nat
      /\ frame[p].start # BITMAP_ERROR /\ Found(p) \subseteq Sector \ free_map
  BY SameFiles, SameInodes, FrameFacts DEF FileSysInv, CallInv, CreateInv
<1> USE <1>2
<1>3. CASE Goto(p, frame[p].ret, [frame[p] EXCEPT !.start = BITMAP_ERROR])
           /\ UNCHANGED <<free_map, disk_free_map>>
  BY <1>3, AllocateFails DEF Allocating
<1>4. CASE /\ free_map' = free_map \cup Found(p) /\ disk_free_map' = free_map \cup Found(p)
           /\ Goto(p, frame[p].ret, frame[p])
  <2>1. /\ free_map' \subseteq Sector /\ disk_free_map' \subseteq Sector
        /\ SystemSectors \subseteq free_map' \cap disk_free_map'
        /\ \A g \in LiveFiles : SectorsOf(g) \subseteq free_map'
        /\ \A g \in NamedSectors : SectorsOf(g) \subseteq disk_free_map'
    <3>1. NamedSectors \subseteq LiveFiles
      BY DEF NamedSectors, LiveFiles
    <3> QED BY <1>4, <3>1 DEF SectorsInv, TypeInv
  <2>2. /\ pc'[p] = frame[p].ret /\ frame'[p] = frame[p] /\ \A q \in Proc \ {p} : pc'[q] = pc[q]
        /\ LiveFiles' = LiveFiles /\ \A s : SectorsOf(s)' = SectorsOf(s)
        /\ TypeInv' /\ SectorsInv' /\ OpenInv'
    BY <1>4, <2>1, MapStep
  <2> USE <2>2
  <2>3. Claim(p)' \subseteq Claim(p) \cup Found(p) /\ CreateInv(p)'
        /\ pc'[p] \in {"inode_create", "write_inode"}
    <3>1. CASE frame[p].ret = "inode_create" /\ frame[p].cnt = 1
      <4>1. frame[p].start \in Found(p)
        BY SMTT(20), <3>1 DEF Found
      <4>2. Claim(p)' = {frame[p].start}
        BY <3>1 DEF Claim, Allocating
      <4> QED BY <3>1, <4>1, <4>2 DEF CreateInv, Allocating
    <3>2. CASE frame[p].ret = "write_inode" /\ frame[p].cnt = bytes_to_sectors(frame[p].size)
      <4>1. Found(p)' = Found(p)
        BY DEF Found
      <4>2. Claim(p)' = {frame[p].inode_sector} \cup Found(p)
        BY <3>2, <4>1 DEF Claim, Allocating
      <4>3. Claim(p) = {frame[p].inode_sector}
        BY <3>2, ClaimIs DEF Allocating
      <4>4. frame[p].inode_sector \notin Found(p)
        BY <4>3 DEF ClaimInv
      <4>5. CreateInv(p)'
        BY <3>2, <4>1, <4>4 DEF CreateInv, Allocating
      <4> QED BY <3>2, <4>2, <4>3, <4>5
    <3> QED BY <3>1, <3>2 DEF CreateInv, Allocating
  <2>4. ClaimInv(p)'
    <3>1. Claim(p) \cup Found(p) \subseteq free_map' \ SystemSectors
      BY <1>4 DEF ClaimInv, SectorsInv
    <3>2. \A g \in LiveFiles : (Claim(p) \cup Found(p)) \cap SectorsOf(g) = {}
      BY DEF ClaimInv, SectorsInv
    <3>3. SystemSectors' = SystemSectors /\ disk_free_map' = free_map'
      BY <1>4 DEF SystemSectors
    <3> QED BY <2>3, <3>1, <3>2, <3>3 DEF ClaimInv
  <2>5. CallInv(p)'
    BY <2>3, <2>4 DEF CallInv, OpeningInv, ClosingInv, Opening, Closing, Erasing
  <2> QED BY <2>5, StepKeeps
<1> QED BY <1>3, <1>4 DEF allocate_mark, Found

\* filesys_create() has the sector of the inode, or fails.
LEMMA InodeCreate ==
  ASSUME FileSysInv, NEW p \in Proc, inode_create(p)
  PROVE  FileSysInv'
<1> USE DEF diskVars, memVars, fileVars, inodeVars
<1>1. /\ Actor(p) /\ pc[p] = "inode_create"
      /\ UNCHANGED <<disk_inode, disk_entries, disk_free_map, free_map, inodeVars, fileVars>>
  BY InACall DEF inode_create, At
<1> USE <1>1
<1>2. /\ TypeInv /\ ClaimInv(p) /\ StillOpen /\ FileTypes
      /\ frame[p] \in Locals /\ frame[p].size \in Nat
  BY SameFiles, SameInodes, FrameFacts DEF FileSysInv, CallInv
<1> USE <1>2
<1>3. CASE frame[p].start = BITMAP_ERROR
  <2>1. [frame[p] EXCEPT !.inode_sector = frame[p].start].start = frame[p].start
    BY DEF Locals
  <2> QED BY <1>3, <2>1, QuietPlain DEF inode_create, Plain
<1>4. CASE frame[p].start # BITMAP_ERROR
  <2> DEFINE f == [frame[p] EXCEPT !.inode_sector = frame[p].start]
             g == [f EXCEPT !.cnt = bytes_to_sectors(f.size), !.ret = "write_inode"]
  <2>1. Claim(p) = {frame[p].start} /\ frame[p].start \in Sector
    <3>1. Claim(p) = {frame[p].start}
      BY <1>4, ClaimIs
    <3> QED BY <3>1 DEF ClaimInv, TypeInv
  <2>2. f \in Locals /\ f.start = frame[p].start /\ f.inode_sector = frame[p].start
        /\ f.size = frame[p].size
    BY <2>1 DEF Locals
  <2> USE <2>2
  <2>3. bytes_to_sectors(f.size) \in Nat /\ "write_inode" \in Label
        /\ "allocate" \in Label /\ "rollback" \in Label
    BY SectorsOfBytes DEF Label
  <2> USE <2>3
  <2>4. Goto(p, "allocate", g) \/ Goto(p, "rollback", f)
    BY <1>4 DEF inode_create, CallAllocate
  <2> HIDE DEF f
  <2>5. /\ g \in Locals /\ g.inode_sector = frame[p].start /\ g.ret = "write_inode"
        /\ g.cnt = bytes_to_sectors(g.size)
    BY DEF Locals
  <2> HIDE DEF g
  <2>6. CASE Goto(p, "allocate", g)
    <3>1. pc'[p] = "allocate" /\ frame'[p] = g
      BY <2>5, <2>6, Quiet
    <3>2. /\ frame'[p].inode_sector = frame[p].start /\ frame'[p].ret = "write_inode"
          /\ frame'[p].cnt = bytes_to_sectors(frame'[p].size)
      BY <2>5, <3>1
    <3>3. Claim(p)' = Claim(p)
      BY <2>1, <3>1, <3>2 DEF Claim, Allocating
    <3>4. OpeningInv(p)' /\ ClosingInv(p)' /\ CreateInv(p)'
      BY <3>1, <3>2 DEF OpeningInv, ClosingInv, CreateInv, Opening, Closing, Allocating, Erasing,
         bytes_to_sectors
    <3> QED BY <2>5, <2>6, <3>3, <3>4, QuietCall
  <2>7. CASE Goto(p, "rollback", f)
    <3>1. pc'[p] = "rollback" /\ frame'[p] = f
      BY <2>7, Quiet
    <3>2. Claim(p)' = Claim(p)
      BY <2>1, <3>1 DEF Claim, Allocating
    <3>3. OpeningInv(p)' /\ ClosingInv(p)' /\ CreateInv(p)'
      BY <3>1 DEF OpeningInv, ClosingInv, CreateInv, Opening, Closing, Allocating, Erasing
    <3> QED BY <2>7, <3>2, <3>3, QuietCall
  <2> QED BY <2>4, <2>6, <2>7
<1> QED BY <1>3, <1>4

\* Inodes, open or named, are in sectors of the disk.
LEMMA LiveSectors ==
  ASSUME TypeInv
  PROVE  /\ LiveFiles \subseteq Sector /\ \A i \in Elements(open_inodes) : inode[i].sector \in Sector
<1>1. \A i \in Elements(open_inodes) : inode[i].sector \in Sector
  BY OpenIds DEF TypeInv, Inode
<1>2. \A k \in Entries : disk_entries[k].inode_sector \in Sector
  BY DEF TypeInv, Entry, Entries
<1> QED BY <1>1, <1>2 DEF LiveFiles, OpenSectors

\* The sector that a call has for a new inode is no file's, and not open.
LEMMA NewSector ==
  ASSUME FileSysInv, NEW p \in Proc, NEW s \in Claim(p)
  PROVE  /\ s \notin LiveFiles /\ s # ROOT_DIR_SECTOR /\ s \in Sector
         /\ \A i \in Elements(open_inodes) : inode[i].sector # s
<1>1. ClaimInv(p) /\ TypeInv
  BY DEF FileSysInv, CallInv
<1>2. s \notin LiveFiles
  BY <1>1 DEF ClaimInv, SectorsOf
<1>3. s # ROOT_DIR_SECTOR
  <2>1. ROOT_DIR_SECTOR \in SystemSectors
    BY SMTT(20) DEF ROOT_DIR_SECTOR, SystemSectors
  <2> QED BY <1>1, <2>1 DEF ClaimInv
<1>4. \A i \in Elements(open_inodes) : inode[i].sector \in LiveFiles \cup {ROOT_DIR_SECTOR}
  BY DEF LiveFiles, OpenSectors
<1> QED BY <1>1, <1>2, <1>3, <1>4 DEF ClaimInv, TypeInv

\* inode_create() writes the inode, when it has sectors for the data.
LEMMA WriteInode ==
  ASSUME FileSysInv, NEW p \in Proc, write_inode(p)
  PROVE  FileSysInv'
<1> USE DEF diskVars, memVars, fileVars, inodeVars
<1>1. /\ Actor(p) /\ pc[p] = "write_inode"
      /\ UNCHANGED <<disk_entries, disk_free_map, free_map, inodeVars, fileVars>>
  BY InACall DEF write_inode, At
<1> USE <1>1
<1>2. /\ TypeInv /\ SectorsInv /\ ClaimInv(p) /\ CreateInv(p) /\ StillOpen /\ FileTypes
      /\ frame[p] \in Locals /\ frame[p].size \in Nat
      /\ {"rollback", "write_zeros"} \subseteq Label
  BY SameFiles, SameInodes, FrameFacts DEF FileSysInv, CallInv, Label
<1> USE <1>2
<1> DEFINE s == frame[p].inode_sector
<1>3. CASE frame[p].start = BITMAP_ERROR
  <2>1. UNCHANGED disk_inode /\ Goto(p, "rollback", frame[p]) /\ Claim(p) = {s}
    BY <1>3, ClaimIs DEF write_inode
  <2>2. pc'[p] = "rollback" /\ frame'[p] = frame[p]
    BY <2>1, Quiet
  <2>3. Claim(p)' = {s}
    BY <2>2 DEF Claim, Allocating
  <2>4. OpeningInv(p)' /\ ClosingInv(p)' /\ CreateInv(p)'
    BY <2>2 DEF OpeningInv, ClosingInv, CreateInv, Opening, Closing, Allocating, Erasing
  <2> QED BY <2>1, <2>3, <2>4, QuietCall
<1>4. CASE frame[p].start # BITMAP_ERROR
  <2> DEFINE d == [start |-> frame[p].start, length |-> frame[p].size]
  <2>1. d \in OnDisk /\ DataSectors(d) = Found(p)
    <3>1. frame[p].start \in Nat
      BY <1>4, FrameFacts
    <3>2. d \in OnDisk
      BY <3>1 DEF OnDisk
    <3> QED BY <3>2 DEF CreateInv, DataSectors, Found
  <2>2. disk_inode' = [disk_inode EXCEPT ![s] = d] /\ Goto(p, "write_zeros", frame[p])
    BY <1>4 DEF write_inode
  <2> HIDE DEF d
  <2>3. Claim(p) = {s} \cup Found(p) /\ s \notin Found(p)
    BY <1>4, ClaimIs DEF CreateInv
  <2>4. /\ s \notin LiveFiles /\ s # ROOT_DIR_SECTOR /\ s \in Sector
        /\ \A i \in Elements(open_inodes) : inode[i].sector # s
    BY <2>3, NewSector
  <2>5. /\ disk_inode' \in [Sector -> OnDisk] /\ disk_inode'[s] = d
        /\ \A t \in Sector \ {s} : disk_inode'[t] = disk_inode[t]
    BY <2>1, <2>2, <2>4 DEF TypeInv
  <2> USE <2>5
  <2>6. Entries' = Entries /\ NamedSectors' = NamedSectors
    BY DEF Entries, NamedSectors
  <2>7. OpenInv' /\ OpenSectors' = OpenSectors
    <3>1. \A i \in Elements(open_inodes) :
            /\ disk_inode'[inode[i].sector] = disk_inode[inode[i].sector]
            /\ inode'[i].removed => inode[i].sector \notin NamedSectors'
      BY <2>4, <2>6, LiveSectors DEF StillOpen
    <3> QED BY <3>1, OpenKept
  <2>8. LiveFiles' = LiveFiles
    BY <2>6, <2>7 DEF LiveFiles, NamedSectors
  <2>9. /\ \A t \in LiveFiles : /\ SectorsOf(t)' = SectorsOf(t)
                                /\ DataSectors(disk_inode[t])' = DataSectors(disk_inode[t])
        /\ SystemSectors' = SystemSectors
    <3>1. \A t \in LiveFiles : disk_inode'[t] = disk_inode[t]
      BY <2>4, LiveSectors
    <3> QED BY <3>1 DEF SectorsOf, DataSectors, SystemSectors
  <2>10. SectorsInv'
    <3>1. NamedSectors \subseteq LiveFiles
      BY DEF NamedSectors, LiveFiles
    <3> QED BY <2>6, <2>8, <2>9, <3>1 DEF SectorsInv
  <2>11. /\ pc'[p] = "write_zeros" /\ frame'[p] = frame[p] /\ \A q \in Proc \ {p} : pc'[q] = pc[q]
         /\ pc' \in [Proc -> Label] /\ frame' \in [Proc -> Locals]
    BY <2>2, GotoFacts
  <2> USE <2>11
  <2>12. TypeInv'
    BY DEF TypeInv, StillOpen, FileTypes
  <2>13. CallInv(p)'
    <3>1. DataSectors(disk_inode[frame[p].inode_sector])' = Found(p)
      <4>1. DataSectors(disk_inode[frame[p].inode_sector])' = DataSectors(d)
        BY DEF DataSectors, bytes_to_sectors
      <4> QED BY <2>1, <4>1
    <3>2. Claim(p)' = Claim(p)
      BY <2>3, <3>1 DEF Claim, Allocating, SectorsOf
    <3>3. ClaimInv(p)'
      BY <2>8, <2>9, <3>2 DEF ClaimInv
    <3>4. CreateInv(p)'
      BY <2>3, <3>1 DEF CreateInv, Allocating
    <3> QED BY <3>3, <3>4 DEF CallInv, OpeningInv, ClosingInv, Opening, Closing, Erasing
  <2> QED BY <2>7, <2>10, <2>12, <2>13, StepKeeps
<1> QED BY <1>3, <1>4

\* create has failed, and gives up what it has.
LEMMA GiveUp ==
  ASSUME FileSysInv, NEW p \in Proc, pc[p] \in {"dir_add", "dir_write"},
         UNCHANGED <<disk_inode, disk_entries, disk_free_map, free_map, inodeVars, fileVars>>,
         Goto(p, "rollback", frame[p])
  PROVE  FileSysInv'
<1>1. /\ TypeInv /\ StillOpen /\ FileTypes /\ Actor(p) /\ frame[p] \in Locals
      /\ "rollback" \in Label /\ pc[p] # "inode_read"
  BY SameFiles, SameInodes, InACall, FrameFacts DEF FileSysInv, Label
<1>2. pc'[p] = "rollback" /\ frame'[p] = frame[p]
  BY <1>1, Quiet
<1>3. Claim(p)' \subseteq Claim(p)
  <2>1. Claim(p)' = {frame[p].inode_sector}
    BY <1>2 DEF Claim, Allocating
  <2>2. Claim(p) = SectorsOf(frame[p].inode_sector)
    BY ClaimIs
  <2> QED BY <2>1, <2>2 DEF SectorsOf
<1>4. OpeningInv(p)' /\ ClosingInv(p)' /\ CreateInv(p)'
  BY <1>2 DEF OpeningInv, ClosingInv, CreateInv, Opening, Closing, Allocating, Erasing
<1>5. pc[p] \notin {"rollback", "release_inode", "release_data"}
  OBVIOUS
<1> QED BY <1>1, <1>3, <1>4, <1>5, QuietCall

\* And the sectors of the data, one by one.
LEMMA WriteZeros ==
  ASSUME FileSysInv, NEW p \in Proc, write_zeros(p)
  PROVE  FileSysInv'
<1> USE DEF diskVars, memVars, fileVars, inodeVars
<1>1. /\ Actor(p) /\ pc[p] = "write_zeros"
      /\ UNCHANGED <<disk_inode, disk_entries, disk_free_map, free_map, inodeVars, fileVars>>
  BY InACall DEF write_zeros, At
<1> USE <1>1
<1>2. /\ TypeInv /\ CreateInv(p) /\ StillOpen /\ FileTypes
      /\ frame[p] \in Locals /\ frame[p].done \in Int
  BY SameFiles, SameInodes, FrameFacts DEF FileSysInv, CallInv
<1> USE <1>2
<1>3. PICK l \in {"write_zeros", "dir_add"}, f \in Locals :
        f.inode_sector = frame[p].inode_sector /\ Goto(p, l, f)
  <2> DEFINE g == [frame[p] EXCEPT !.done = @ + 1]
  <2>1. frame[p].done + 1 \in Int
    BY SMTT(20)
  <2>2. g \in Locals /\ g.inode_sector = frame[p].inode_sector
    BY <2>1 DEF Locals
  <2> QED BY <2>2 DEF write_zeros
<1>4. l \in Label
  BY DEF Label
<1>5. /\ pc'[p] = l /\ frame'[p] = f /\ \A s : SectorsOf(s)' = SectorsOf(s)
  BY <1>3, <1>4, Quiet
<1>6. frame'[p].inode_sector = frame[p].inode_sector
  BY <1>3, <1>5
<1>7. Claim(p)' = Claim(p)
  <2>1. Claim(p) = SectorsOf(frame[p].inode_sector)
    BY ClaimIs
  <2>2. Claim(p)' = SectorsOf(frame[p].inode_sector)'
    BY <1>5 DEF Claim, Allocating
  <2>3. SectorsOf(frame[p].inode_sector)' = SectorsOf(frame[p].inode_sector)
    BY <1>6 DEF SectorsOf, DataSectors
  <2> QED BY <2>1, <2>2, <2>3
<1>8. OpeningInv(p)' /\ ClosingInv(p)' /\ CreateInv(p)'
  BY <1>5, <1>6 DEF OpeningInv, ClosingInv, CreateInv, Opening, Closing, Allocating,
     Erasing, DataSectors
<1> QED BY <1>3, <1>4, <1>7, <1>8, QuietCall

\* lookup() of the whole directory: an entry of the name, if there is one.
LEMMA LookupFinds ==
  ASSUME Facts, NEW name
  PROVE  LET slot == lookup(name, DirEntries)
         IN  /\ slot = 0 => \A k \in Entries : disk_entries[k].name # name
             /\ slot # 0 => slot \in Entries /\ disk_entries[slot].name = name
<1> DEFINE found == {j \in 1..DirEntries : disk_entries[j].in_use /\ disk_entries[j].name = name}
           slot == lookup(name, DirEntries)
<1>1. CASE found = {}
  <2>1. slot = 0
    BY <1>1 DEF lookup
  <2>2. \A k \in Entries : disk_entries[k].name # name
    <3>1. \A k \in Entries : disk_entries[k].name = name => k \in found
      BY DEF Entries
    <3> QED BY <1>1, <3>1
  <2> QED BY <2>1, <2>2
<1>2. CASE found # {}
  <2>1. slot = Min(found)
    BY <1>2 DEF lookup
  <2>2. found \subseteq Nat /\ 0 \notin found
    BY SMTT(20)
  <2>3. PICK m \in found : \A n \in found : m <= n
    BY <1>2, <2>2 DEF Facts, LeastFact
  <2>4. slot \in found
    BY <2>1, <2>3 DEF Min
  <2> QED BY <2>2, <2>4 DEF Entries
<1> QED BY <1>1, <1>2

\* What dir_add()'s search finds is a slot that is not in use.
LEMMA FreeSlotFinds ==
  ASSUME Facts, NEW slot, slot = FreeSlot(DirEntries), ~ (slot > DirEntries)
  PROVE  slot \in (1..DirEntries) \ Entries /\ slot \in Nat
<1> DEFINE free == {j \in 1..DirEntries : ~ disk_entries[j].in_use}
           all == free \cup {DirEntries + 1}
<1>1. all \subseteq Nat /\ all # {} /\ DirEntries + 1 > DirEntries
  BY SMTT(20), SizesAssumption
<1>2. PICK m \in all : \A n \in all : m <= n
  BY <1>1 DEF Facts, LeastFact
<1>3. slot \in all
  BY <1>2 DEF FreeSlot, Min
<1>4. slot \in free
  BY <1>1, <1>3
<1> QED BY <1>1, <1>3, <1>4 DEF Entries

\* dir_add() looks for the name and for a free slot.
LEMMA DirAdd ==
  ASSUME Facts, FileSysInv, "dir_read" \notin LowMemory, NEW p \in Proc, dir_add(p)
  PROVE  FileSysInv'
<1> USE DEF diskVars, memVars, fileVars, inodeVars
<1>1. /\ Actor(p) /\ pc[p] = "dir_add"
      /\ UNCHANGED <<disk_inode, disk_entries, disk_free_map, free_map, inodeVars, fileVars>>
  BY InACall DEF dir_add, At
<1> USE <1>1
<1>2. /\ TypeInv /\ CreateInv(p) /\ StillOpen /\ FileTypes /\ frame[p] \in Locals
      /\ "dir_write" \in Label
  BY SameFiles, SameInodes, FrameFacts DEF FileSysInv, CallInv, Label
<1> USE <1>2
<1>3. CASE Goto(p, "rollback", frame[p])
  BY <1>3, GiveUp
<1>4. CASE ~ Goto(p, "rollback", frame[p])
  <2>1. PICK slot : /\ slot = FreeSlot(DirEntries) /\ ~ (slot > DirEntries)
                    /\ lookup(frame[p].name, DirEntries) = 0
                    /\ Goto(p, "dir_write", [frame[p] EXCEPT !.slot = slot])
    BY <1>4 DEF dir_add, Readable
  <2>2. slot \in (1..DirEntries) \ Entries /\ slot \in Nat
    BY <2>1, FreeSlotFinds
  <2>3. \A k \in Entries : disk_entries[k].name # frame[p].name
    BY <2>1, LookupFinds
  <2> DEFINE g == [frame[p] EXCEPT !.slot = slot]
  <2>4. /\ g \in Locals /\ g.slot = slot /\ g.inode_sector = frame[p].inode_sector
        /\ g.name = frame[p].name
    BY <2>2 DEF Locals
  <2>5. Goto(p, "dir_write", g)
    BY <2>1
  <2> HIDE DEF g
  <2>6. pc'[p] = "dir_write" /\ frame'[p] = g /\ Entries' = Entries
    BY <2>4, <2>5, Quiet
  <2>7. /\ frame'[p].inode_sector = frame[p].inode_sector /\ frame'[p].slot = slot
        /\ frame'[p].name = frame[p].name
    BY <2>4, <2>6
  <2>8. Claim(p)' = Claim(p)
    <3>1. Claim(p) = SectorsOf(frame[p].inode_sector)
      BY ClaimIs
    <3>2. Claim(p)' = SectorsOf(frame[p].inode_sector)'
      BY <2>6 DEF Claim, Allocating
    <3>3. SectorsOf(frame[p].inode_sector)' = SectorsOf(frame[p].inode_sector)
      BY <2>7 DEF SectorsOf, DataSectors
    <3> QED BY <3>1, <3>2, <3>3
  <2>9. OpeningInv(p)' /\ ClosingInv(p)' /\ CreateInv(p)'
    BY <2>2, <2>3, <2>6, <2>7 DEF OpeningInv, ClosingInv, CreateInv, Opening, Closing,
       Allocating, Erasing, DataSectors
  <2> QED BY <2>4, <2>5, <2>8, <2>9, QuietCall
<1> QED BY <1>3, <1>4

\* It writes the entry: the sectors are the file's now.
LEMMA DirWrite ==
  ASSUME FileSysInv, NEW p \in Proc, dir_write(p)
  PROVE  FileSysInv'
<1> USE DEF diskVars, memVars, fileVars, inodeVars
<1>1. /\ Actor(p) /\ pc[p] = "dir_write"
      /\ UNCHANGED <<disk_inode, disk_free_map, free_map, inodeVars, fileVars>>
  BY InACall DEF dir_write, At
<1> USE <1>1
<1>2. /\ TypeInv /\ SectorsInv /\ ClaimInv(p) /\ CreateInv(p) /\ StillOpen /\ FileTypes
      /\ frame[p] \in Locals /\ "dir_close" \in Label
      /\ frame[p].name \in Name \cup {NULL} /\ frame[p].inode_sector \in Sector
  BY SameFiles, SameInodes, FrameFacts DEF FileSysInv, CallInv, Label
<1> USE <1>2
<1>3. CASE Goto(p, "rollback", frame[p]) /\ UNCHANGED disk_entries
  BY <1>3, GiveUp
<1>4. CASE /\ disk_entries' = [disk_entries EXCEPT ![frame[p].slot] =
                [in_use |-> TRUE, name |-> frame[p].name, inode_sector |-> frame[p].inode_sector]]
           /\ Goto(p, "dir_close", frame[p])
  <2> DEFINE e == [in_use |-> TRUE, name |-> frame[p].name, inode_sector |-> frame[p].inode_sector]
             s == frame[p].inode_sector
             k == frame[p].slot
  <2>1. /\ k \in (1..DirEntries) \ Entries /\ s \notin DataSectors(disk_inode[s])
        /\ \A j \in Entries : disk_entries[j].name # frame[p].name
    BY DEF CreateInv
  <2>2. e \in Entry /\ e.in_use /\ e.name = frame[p].name /\ e.inode_sector = s
    BY DEF Entry
  <2>3. disk_entries' = [disk_entries EXCEPT ![k] = e]
    BY <1>4
  <2> HIDE DEF e
  <2>4. /\ disk_entries' \in [1..DirEntries -> Entry] /\ disk_entries'[k] = e
        /\ \A j \in 1..DirEntries : j # k => disk_entries'[j] = disk_entries[j]
    BY <2>1, <2>2, <2>3 DEF TypeInv
  <2>5. Entries' = Entries \cup {k} /\ \A j \in Entries : disk_entries'[j] = disk_entries[j]
    BY <2>1, <2>2, <2>4 DEF Entries
  <2>6. NamedSectors' = NamedSectors \cup {s}
    <3>1. NamedSectors' = {disk_entries'[j].inode_sector : j \in Entries \cup {k}}
      BY <2>5 DEF NamedSectors
    <3> QED BY <2>2, <2>4, <2>5, <3>1 DEF NamedSectors
  <2>7. Claim(p) = SectorsOf(s) /\ s \in Claim(p)
    BY ClaimIs DEF SectorsOf
  <2>8. /\ s \notin LiveFiles /\ s # ROOT_DIR_SECTOR
        /\ \A i \in Elements(open_inodes) : inode[i].sector # s
    BY <2>7, NewSector
  <2>9. OpenInv' /\ OpenSectors' = OpenSectors
    <3>1. \A i \in Elements(open_inodes) :
            /\ disk_inode'[inode[i].sector] = disk_inode[inode[i].sector]
            /\ inode'[i].removed => inode[i].sector \notin NamedSectors'
      BY <2>6, <2>8 DEF StillOpen
    <3> QED BY <3>1, OpenKept
  <2>10. LiveFiles' = LiveFiles \cup {s} /\ NamedSectors \subseteq LiveFiles
    <3>1. LiveFiles = (OpenSectors \ {ROOT_DIR_SECTOR}) \cup NamedSectors
      BY DEF LiveFiles, NamedSectors
    <3>2. LiveFiles' = (OpenSectors' \ {ROOT_DIR_SECTOR}) \cup NamedSectors'
      BY DEF LiveFiles, NamedSectors
    <3> QED BY <2>6, <2>9, <3>1, <3>2
  <2>11. /\ \A t : SectorsOf(t)' = SectorsOf(t)
         /\ \A t : DataSectors(disk_inode[t])' = DataSectors(disk_inode[t])
         /\ SystemSectors' = SystemSectors
    BY DEF SectorsOf, DataSectors, SystemSectors
  <2>12. SectorsInv'
    <3>1. /\ SectorsOf(s) \subseteq free_map \ SystemSectors /\ SectorsOf(s) \subseteq disk_free_map
          /\ \A f \in LiveFiles : SectorsOf(s) \cap SectorsOf(f) = {}
      BY <2>7 DEF ClaimInv
    <3>2. /\ \A f \in LiveFiles' : /\ SectorsOf(f)' \subseteq free_map' \ SystemSectors'
                                   /\ f \notin DataSectors(disk_inode[f])'
          /\ SystemSectors' \subseteq free_map' \cap disk_free_map'
      BY <2>1, <2>10, <2>11, <3>1 DEF SectorsInv
    <3>3. \A f, g \in LiveFiles' : f # g => SectorsOf(f) \cap SectorsOf(g) = {}
      BY <2>10, <3>1 DEF SectorsInv
    <3>4. \A f \in NamedSectors' : SectorsOf(f)' \subseteq disk_free_map'
      BY <2>6, <2>11, <3>1 DEF SectorsInv
    <3>5. \A j \in Entries : disk_entries[j].inode_sector # s
      BY <2>8, <2>10 DEF NamedSectors
    <3>6. \A i, j \in Entries' : i # j =>
            /\ disk_entries'[i].name # disk_entries'[j].name
            /\ disk_entries'[i].inode_sector # disk_entries'[j].inode_sector
      <4>1. \A j \in Entries : disk_entries'[j] = disk_entries[j] /\ j # k
        BY <2>1, <2>5
      <4>2. /\ disk_entries'[k].name = frame[p].name /\ disk_entries'[k].inode_sector = s
        BY <2>2, <2>4
      <4>3. \A j \in Entries : /\ disk_entries'[k].name # disk_entries'[j].name
                               /\ disk_entries'[k].inode_sector # disk_entries'[j].inode_sector
        BY <2>1, <3>5, <4>1, <4>2
      <4>4. \A i, j \in Entries : i # j =>
              /\ disk_entries'[i].name # disk_entries'[j].name
              /\ disk_entries'[i].inode_sector # disk_entries'[j].inode_sector
        BY <4>1 DEF SectorsInv
      <4> QED BY <2>5, <4>3, <4>4
    <3> QED BY <2>11, <3>2, <3>3, <3>4, <3>6 DEF SectorsInv
  <2>13. /\ pc'[p] = "dir_close" /\ \A q \in Proc \ {p} : pc'[q] = pc[q]
         /\ pc' \in [Proc -> Label] /\ frame' \in [Proc -> Locals]
    BY <1>4, GotoFacts
  <2>14. TypeInv'
    BY <2>4, <2>13 DEF TypeInv, StillOpen, FileTypes
  <2>15. CallInv(p)'
    <3>1. pc'[p] \in Plain
      BY <2>13 DEF Plain
    <3> QED BY <3>1, PlainCall
  <2> QED BY <2>9, <2>12, <2>13, <2>14, <2>15, StepKeeps
<1> QED BY <1>3, <1>4 DEF dir_write
-----------------------------------------------------------------------------
(***************************************************************************)
(* open and remove.                                                        *)
(***************************************************************************)

\* The steps that open, search and close the directory.
LEMMA DirectoryCalls ==
  ASSUME Facts, FileSysInv, "dir_read" \notin LowMemory, NEW p \in Proc,
         dir_open(p) \/ dir_close(p) \/ lookup_done(p) \/ dir_lookup(p) \/ dir_remove(p)
  PROVE  FileSysInv'
<1> USE DEF diskVars, memVars, fileVars, inodeVars
<1>1. /\ Actor(p) /\ pc[p] \in Plain \ {"none", "user"}
      /\ UNCHANGED <<disk_inode, disk_entries, disk_free_map, free_map, inodeVars, fileVars>>
  BY InACall DEF dir_open, dir_close, lookup_done, dir_lookup, dir_remove, At, Plain
<1> USE <1>1
<1>2. /\ TypeInv /\ StillOpen /\ FileTypes /\ frame[p] \in Locals /\ pc[p] # "inode_read"
      /\ frame[p].dir \in InodeId \cup {NULL} /\ frame[p].inode \in InodeId \cup {NULL}
      /\ pc[p] \notin {"rollback", "release_inode", "release_data"}
  BY SameFiles, SameInodes, FrameFacts DEF FileSysInv, Plain
<1> USE <1>2
<1>3. CASE dir_open(p)
  <2> DEFINE f == [frame[p] EXCEPT !.dir = frame[p].inode, !.inode = NULL]
  <2>1. /\ f \in Locals /\ f.dir = frame[p].inode /\ [f EXCEPT !.dir = NULL] \in Locals
    BY DEF Locals
  <2> USE <2>1
  <2>2. \/ CallInodeClose(p, [f EXCEPT !.dir = NULL], f.dir, "return")
        \/ CallAllocate(p, f, 1, "inode_create")
        \/ \E l \in {"dir_remove", "dir_lookup"} : Goto(p, l, f)
    BY <1>3 DEF dir_open
  <2> HIDE DEF f
  <2>3. CASE CallInodeClose(p, [f EXCEPT !.dir = NULL], f.dir, "return")
    <3>1. f.dir \in InodeId \cup {NULL}
      OBVIOUS
    <3> QED BY <2>3, <3>1, QuietClose
  <2>4. CASE \E l \in {"dir_remove", "dir_lookup"} : Goto(p, l, f)
    BY <2>4, QuietPlain DEF Plain
  <2>5. CASE CallAllocate(p, f, 1, "inode_create")
    <3> DEFINE g == [f EXCEPT !.cnt = 1, !.ret = "inode_create"]
    <3>1. 1 \in Nat /\ "allocate" \in Label /\ "inode_create" \in Label
      <4>1. 1 \in Nat
        BY SMTT(20)
      <4> QED BY <4>1 DEF Label
    <3>2. g \in Locals /\ g.cnt = 1 /\ g.ret = "inode_create"
      BY <3>1 DEF Locals
    <3>3. Goto(p, "allocate", g)
      BY <2>5 DEF CallAllocate
    <3> HIDE DEF g
    <3>4. pc'[p] = "allocate" /\ frame'[p] = g
      BY <3>1, <3>2, <3>3, Quiet
    <3>5. frame'[p].cnt = 1 /\ frame'[p].ret = "inode_create"
      BY <3>2, <3>4
    <3>6. Claim(p)' = {}
      BY <3>4, <3>5 DEF Claim, Allocating
    <3>7. OpeningInv(p)' /\ ClosingInv(p)' /\ CreateInv(p)'
      BY <3>4, <3>5 DEF OpeningInv, ClosingInv, CreateInv, Opening, Closing, Allocating, Erasing
    <3> QED BY <3>1, <3>2, <3>3, <3>6, <3>7, QuietCall
  <2> QED BY <2>2, <2>3, <2>4, <2>5
<1>4. CASE dir_close(p)
  BY <1>4, QuietClose DEF dir_close
<1>5. CASE lookup_done(p)
  BY <1>5, QuietClose DEF lookup_done
<1>6. CASE dir_lookup(p)
  <2>1. PICK slot : /\ slot = lookup(frame[p].name, DirEntries)
                    /\ IF slot = 0 THEN Goto(p, "lookup_done", frame[p])
                       ELSE CallInodeOpen(p, frame[p], disk_entries[slot].inode_sector, "lookup_done")
    BY <1>6 DEF dir_lookup, Readable
  <2>2. CASE slot = 0
    BY <2>1, <2>2, QuietPlain DEF Plain
  <2>3. CASE slot # 0
    <3>1. slot \in Entries
      BY <2>1, <2>3, LookupFinds
    <3>2. disk_entries[slot].inode_sector \in NamedSectors \cap Sector
      BY <3>1 DEF NamedSectors, Entries, TypeInv, Entry
    <3> QED BY <2>1, <2>3, <3>2, QuietInodeOpen
  <2> QED BY <2>2, <2>3
<1>7. CASE dir_remove(p)
  <2>1. PICK slot :
          /\ slot = lookup(frame[p].name, DirEntries)
          /\ IF slot = 0 THEN Goto(p, "dir_close", frame[p])
             ELSE CallInodeOpen(p, [frame[p] EXCEPT !.slot = slot],
                                disk_entries[slot].inode_sector, "erase_entry")
    BY <1>7 DEF dir_remove, Readable
  <2>2. CASE slot = 0
    BY <2>1, <2>2, QuietPlain DEF Plain
  <2>3. CASE slot # 0
    <3>1. slot \in Entries /\ disk_entries[slot].name = frame[p].name
      BY <2>1, <2>3, LookupFinds
    <3>2. disk_entries[slot].inode_sector \in NamedSectors \cap Sector
      BY <3>1 DEF NamedSectors, Entries, TypeInv, Entry
    <3>3. slot \in Nat
      BY SMTT(20), <3>1 DEF Entries
    <3> DEFINE g == [frame[p] EXCEPT !.slot = slot]
    <3>4. g \in Locals /\ g.slot = slot /\ g.name = frame[p].name
      BY <3>3 DEF Locals
    <3>5. CallInodeOpen(p, g, disk_entries[slot].inode_sector, "erase_entry")
      BY <2>1, <2>3
    <3> HIDE DEF g
    <3>6. /\ g.slot \in Entries /\ disk_entries[g.slot].name = g.name
          /\ disk_entries[g.slot].inode_sector = disk_entries[slot].inode_sector
      BY <3>1, <3>4
    <3> QED BY <3>2, <3>4, <3>5, <3>6, QuietInodeOpen
  <2> QED BY <2>2, <2>3
<1> QED BY <1>3, <1>4, <1>5, <1>6, <1>7

\* dir_remove() writes the entry back, not in use: the file lives on while it is open.
LEMMA EraseEntry ==
  ASSUME FileSysInv, NEW p \in Proc, erase_entry(p)
  PROVE  FileSysInv'
<1> USE DEF diskVars, memVars, fileVars, inodeVars
<1>1. /\ Actor(p) /\ pc[p] = "erase_entry"
      /\ UNCHANGED <<disk_inode, disk_free_map, free_map, inodeVars, fileVars>>
  BY InACall DEF erase_entry, At
<1> USE <1>1
<1>2. /\ TypeInv /\ SectorsInv /\ OpeningInv(p) /\ StillOpen /\ FileTypes
      /\ frame[p] \in Locals /\ "inode_remove" \in Label
      /\ frame[p].name \in Name \cup {NULL} /\ frame[p].sector \in Sector
      /\ frame[p].inode \in InodeId \cup {NULL}
  BY SameFiles, SameInodes, FrameFacts DEF FileSysInv, CallInv, Label
<1> USE <1>2
<1>3. CASE Goto(p, "dir_close", frame[p]) /\ UNCHANGED disk_entries
  BY <1>3, QuietPlain DEF Plain
<1>4. CASE CallInodeClose(p, frame[p], frame[p].inode, "dir_close") /\ UNCHANGED disk_entries
  BY <1>4, QuietClose
<1>5. CASE /\ frame[p].inode # NULL
           /\ disk_entries' = [disk_entries EXCEPT ![frame[p].slot] =
                [in_use |-> FALSE, name |-> frame[p].name, inode_sector |-> frame[p].sector]]
           /\ Goto(p, "inode_remove", frame[p])
  <2> DEFINE e == [in_use |-> FALSE, name |-> frame[p].name, inode_sector |-> frame[p].sector]
             s == frame[p].sector
             k == frame[p].slot
  <2>1. /\ k \in Entries /\ disk_entries[k].inode_sector = s /\ IsOpen(frame[p].inode, s)
    BY <1>5 DEF OpeningInv, Erasing
  <2> USE <2>1
  <2>2. e \in Entry /\ ~ e.in_use
    BY DEF Entry
  <2>3. disk_entries' = [disk_entries EXCEPT ![k] = e]
    BY <1>5
  <2> HIDE DEF e
  <2>4. /\ disk_entries' \in [1..DirEntries -> Entry] /\ disk_entries'[k] = e
        /\ \A j \in 1..DirEntries : j # k => disk_entries'[j] = disk_entries[j]
    BY <2>2, <2>3 DEF TypeInv, Entries
  <2>5. /\ Entries' = Entries \ {k}
        /\ \A j \in Entries \ {k} : disk_entries'[j] = disk_entries[j]
    BY <2>2, <2>4 DEF Entries
  <2>6. NamedSectors' = NamedSectors \ {s}
    <3>1. NamedSectors' = {disk_entries[j].inode_sector : j \in Entries \ {k}}
      BY <2>5 DEF NamedSectors
    <3>2. \A j \in Entries \ {k} : disk_entries[j].inode_sector # s
      BY DEF SectorsInv
    <3> QED BY <3>1, <3>2 DEF NamedSectors
  <2> USE <2>6
  <2>7. s # ROOT_DIR_SECTOR
    <3>1. ROOT_DIR_SECTOR \in SystemSectors
      BY SMTT(20) DEF ROOT_DIR_SECTOR, SystemSectors
    <3>2. s \in LiveFiles
      BY DEF LiveFiles
    <3> QED BY <3>1, <3>2 DEF SectorsInv, SectorsOf
  <2>8. /\ OpenInv' /\ OpenSectors' = OpenSectors
    <3>1. \A i \in Elements(open_inodes) :
            /\ disk_inode'[inode[i].sector] = disk_inode[inode[i].sector]
            /\ inode'[i].removed => inode[i].sector \notin NamedSectors'
      BY DEF StillOpen
    <3> QED BY <3>1, OpenKept
  <2>9. LiveFiles' = LiveFiles
    <3>1. LiveFiles = (OpenSectors \ {ROOT_DIR_SECTOR}) \cup NamedSectors
      BY DEF LiveFiles, NamedSectors
    <3>2. LiveFiles' = (OpenSectors' \ {ROOT_DIR_SECTOR}) \cup NamedSectors'
      BY DEF LiveFiles, NamedSectors
    <3>3. s \in OpenSectors
      BY DEF IsOpen, OpenSectors
    <3> QED BY <2>7, <2>8, <3>1, <3>2, <3>3
  <2>10. /\ \A t : SectorsOf(t)' = SectorsOf(t)
         /\ \A t : DataSectors(disk_inode[t])' = DataSectors(disk_inode[t])
         /\ SystemSectors' = SystemSectors
    BY DEF SectorsOf, DataSectors, SystemSectors
  <2>11. SectorsInv'
    <3>1. \A i, j \in Entries' : i # j =>
            /\ disk_entries'[i].name # disk_entries'[j].name
            /\ disk_entries'[i].inode_sector # disk_entries'[j].inode_sector
      <4>1. \A j \in Entries' : j \in Entries /\ disk_entries'[j] = disk_entries[j]
        BY <2>5
      <4> QED BY <4>1 DEF SectorsInv
    <3>2. \A f \in NamedSectors' : SectorsOf(f)' \subseteq disk_free_map'
      BY <2>10 DEF SectorsInv
    <3> QED BY <2>9, <2>10, <3>1, <3>2 DEF SectorsInv
  <2>12. /\ pc'[p] = "inode_remove" /\ frame'[p] = frame[p]
         /\ \A q \in Proc \ {p} : pc'[q] = pc[q]
         /\ pc' \in [Proc -> Label] /\ frame' \in [Proc -> Locals]
    BY <1>5, GotoFacts
  <2> USE <2>12
  <2>13. TypeInv'
    BY <2>4 DEF TypeInv, StillOpen, FileTypes
  <2>14. CallInv(p)'
    <3>1. Claim(p)' = {}
      BY DEF Claim, Allocating
    <3>2. IsOpen(frame[p].inode, frame[p].sector)'
      BY DEF IsOpen
    <3>3. OpeningInv(p)'
      BY <2>7, <3>2 DEF OpeningInv, Opening, Erasing
    <3> QED BY <3>1, <3>3 DEF CallInv, ClaimInv, ClosingInv, CreateInv, Closing, Allocating
  <2> QED BY <2>8, <2>11, <2>13, <2>14, StepKeeps
<1> QED BY <1>3, <1>4, <1>5 DEF erase_entry

\* And marks the inode as removed.
LEMMA InodeRemove ==
  ASSUME FileSysInv, NEW p \in Proc, inode_remove(p)
  PROVE  FileSysInv'
<1> USE DEF diskVars, memVars, fileVars, inodeVars
<1>1. /\ Actor(p) /\ pc[p] = "inode_remove"
      /\ UNCHANGED <<disk_inode, disk_entries, disk_free_map, free_map, open_inodes, fileVars>>
  BY InACall DEF inode_remove, At
<1> USE <1>1
<1>2. /\ TypeInv /\ OpenInv /\ OpeningInv(p) /\ FileTypes
      /\ frame[p] \in Locals /\ Elements(open_inodes) \subseteq InodeId
  BY SameFiles, OpenIds, FrameFacts DEF FileSysInv, CallInv
<1> USE <1>2
<1>3. PICK i \in Elements(open_inodes) :
        /\ i = frame[p].inode /\ inode[i].sector \notin NamedSectors \cup {ROOT_DIR_SECTOR}
        /\ inode' = [inode EXCEPT ![i].removed = TRUE]
        /\ CallInodeClose(p, frame[p], i, "dir_close")
  BY DEF OpeningInv, IsOpen, inode_remove
<1> USE <1>3
<1>4. i \in InodeId /\ inode[i] \in Inode
  BY DEF TypeInv
<1> USE <1>4
<1> DEFINE new == [inode[i] EXCEPT !.removed = TRUE]
<1>5. /\ new \in Inode /\ new.sector = inode[i].sector /\ new.data = inode[i].data
      /\ new.open_cnt = inode[i].open_cnt
  BY DEF Inode
<1>6. inode' = [inode EXCEPT ![i] = new]
  BY DEF TypeInv
<1> HIDE DEF new
<1>7. /\ inode' \in [InodeId -> Inode] /\ inode'[i] = new
      /\ \A j \in InodeId \ {i} : inode'[j] = inode[j]
  BY <1>5, <1>6 DEF TypeInv
<1>8. \A j \in Elements(open_inodes) :
       /\ inode'[j].sector = inode[j].sector /\ inode'[j].data = inode[j].data
       /\ inode'[j].removed => inode[j].sector \notin NamedSectors \cup {ROOT_DIR_SECTOR}
  BY <1>5, <1>7 DEF OpenInv
<1>9. \A j \in InodeId : inode'[j].open_cnt > 0 => j \in Elements(open_inodes)
  BY <1>5, <1>7 DEF OpenInv
<1>10. StillOpen
  BY <1>7, <1>8, <1>9 DEF StillOpen
<1> QED BY <1>10, QuietClose

\* The free map and the root directory take a sector each.
LEMMA OneSector ==
  bytes_to_sectors(BLOCK_SECTOR_SIZE) = 1
<1> DEFINE n == BLOCK_SECTOR_SIZE
<1>1. n \in Nat /\ n > 0 /\ n + n - 1 \in Nat
  BY SMTT(20), SizesAssumption
<1> HIDE DEF n
<1>2. (n + n - 1) \div n = 1
  <2>1. PICK q \in Int, r \in 0..n - 1 : n + n - 1 = n * q + r /\ q = (n + n - 1) \div n
    BY SMTT(20), <1>1
  <2> QED BY SMTT(20), <1>1, <2>1
<1> QED BY <1>2 DEF bytes_to_sectors, n

\* Nothing happens.
LEMMA SameState ==
  ASSUME FileSysInv, UNCHANGED vars
  PROVE  FileSysInv'
<1> USE DEF vars, diskVars, memVars, inodeVars, fileVars
<1>1. TypeInv' /\ OneCall'
  BY DEF FileSysInv, TypeInv, OneCall, InCall
<1>2. Entries' = Entries /\ NamedSectors' = NamedSectors /\ OpenSectors' = OpenSectors
  BY DEF Entries, NamedSectors, OpenSectors
<1> USE <1>2
<1>3. LiveFiles' = LiveFiles
  BY DEF LiveFiles
<1>4. /\ \A s : SectorsOf(s)' = SectorsOf(s) /\ SystemSectors' = SystemSectors
      /\ \A s : DataSectors(disk_inode[s])' = DataSectors(disk_inode[s])
  BY DEF SectorsOf, DataSectors, SystemSectors
<1>5. SectorsInv'
  BY <1>3, <1>4 DEF FileSysInv, SectorsInv
<1>6. OpenInv'
  BY DEF FileSysInv, OpenInv, OneInodePerSector, InodeIsCurrent, At
<1>7. ASSUME NEW p \in Proc PROVE CallInv(p)'
  <2>1. CallInv(p)
    BY DEF FileSysInv
  <2> USE <2>1
  <2>2. Claim(p)' = Claim(p)
    BY DEF Claim, SectorsOf, DataSectors, Found
  <2>3. ClaimInv(p)'
    BY <1>3, <1>4, <2>2 DEF CallInv, ClaimInv
  <2>4. OpeningInv(p)'
    BY DEF CallInv, OpeningInv, IsOpen, Erasing
  <2>5. ClosingInv(p)'
    BY DEF CallInv, ClosingInv, OpenFd, DataSectors
  <2>6. CreateInv(p)'
    BY DEF CallInv, CreateInv, Found, DataSectors
  <2> QED BY <2>3, <2>4, <2>5, <2>6 DEF CallInv
<1> QED BY <1>1, <1>5, <1>6, <1>7 DEF FileSysInv
-----------------------------------------------------------------------------
(***************************************************************************)
(* The whole system.                                                       *)
(***************************************************************************)

\* filesys_init(): no process, no open file, and the free map is the one on disk.
Booted ==
  /\ free_map = disk_free_map
  /\ inode = NoInodes /\ open_inodes = <<>>
  /\ fd_tab = NoFiles /\ exec_file = NoPrograms
  /\ pc = NoProcesses /\ frame = NoFrames

\* A disk that a boot may find.
Bootable ==
  /\ disk_inode \in [Sector -> OnDisk] /\ disk_entries \in [1..DirEntries -> Entry]
  /\ disk_free_map \subseteq Sector /\ SystemSectors \subseteq disk_free_map
  /\ \A f \in NamedSectors : /\ SectorsOf(f) \subseteq disk_free_map \ SystemSectors
                             /\ f \notin DataSectors(disk_inode[f])
  /\ \A f, g \in NamedSectors : f # g => SectorsOf(f) \cap SectorsOf(g) = {}
  /\ \A j, k \in Entries : j # k =>
       /\ disk_entries[j].name # disk_entries[k].name
       /\ disk_entries[j].inode_sector # disk_entries[k].inode_sector

\* filesys_init() on a disk that is consistent establishes the invariant.
LEMMA BootedInv ==
  Booted /\ Bootable => FileSysInv
<1> SUFFICES ASSUME Booted, Bootable PROVE FileSysInv
  OBVIOUS
<1> USE DEF Booted, Bootable
<1>1. /\ <<>> \in Seq(InodeId) /\ Elements(<<>>) = {} /\ NoDuplicates(<<>>)
      /\ <<>> \in Seq(OpenFile \cup {NULL})
  BY SMTT(20) DEF Elements, Range, NoDuplicates
<1>2. "none" \in Label /\ NoFrame \in Locals /\ NoInode \in Inode
  BY NoFrameType, NoInodeType DEF Label
<1>3. TypeInv
  BY <1>1, <1>2 DEF TypeInv, NoInodes, NoFiles, NoPrograms, NoProcesses, NoFrames
<1>4. \A p \in Proc : pc[p] = "none"
  BY DEF NoProcesses
<1>5. OneCall
  BY <1>4 DEF OneCall, InCall
<1>6. OpenSectors = {}
  BY <1>1 DEF OpenSectors
<1>7. LiveFiles = NamedSectors
  BY <1>6 DEF LiveFiles, NamedSectors
<1>8. SectorsInv
  BY <1>7 DEF SectorsInv
<1>9. OpenInv
  <2>1. \A i \in InodeId : inode[i].open_cnt = 0
    BY NoInodeType DEF NoInodes
  <2>2. \A i \in InodeId : ~ (inode[i].open_cnt > 0)
    BY SMTT(20), <2>1
  <2> QED BY <1>1, <2>2 DEF OpenInv, OneInodePerSector, InodeIsCurrent
<1>10. ASSUME NEW p \in Proc PROVE CallInv(p)
  <2>1. Claim(p) = {}
    BY <1>4 DEF Claim, Allocating
  <2> QED BY <1>4, <2>1 DEF CallInv, ClaimInv, OpeningInv, ClosingInv, CreateInv, Opening,
             Closing, Allocating, Erasing
<1> QED BY <1>3, <1>5, <1>8, <1>9, <1>10 DEF FileSysInv

\* The machine stops, inside a call or not, and boots: the disk is consistent.
LEMMA RestartStep ==
  ASSUME FileSysInv, Restart
  PROVE  FileSysInv'
<1> USE DEF diskVars
<1>1. TypeInv /\ SectorsInv /\ NamedSectors \subseteq LiveFiles
  BY DEF FileSysInv, NamedSectors, LiveFiles
<1> USE <1>1
<1>2. Booted' /\ disk_free_map' = disk_free_map
  BY DEF Restart, Booted
<1>3. disk_inode' \in [Sector -> OnDisk] /\ disk_entries' \in [1..DirEntries -> Entry]
  BY DEF Restart, TypeInv
<1>4. disk_free_map' \subseteq Sector /\ SystemSectors' \subseteq disk_free_map'
  BY <1>2 DEF TypeInv, SectorsInv, SystemSectors
<1>5. Entries' = Entries /\ NamedSectors' = NamedSectors
  BY DEF Restart, Entries, NamedSectors
<1>6. /\ \A s : SectorsOf(s)' = SectorsOf(s)
      /\ \A s : DataSectors(disk_inode[s])' = DataSectors(disk_inode[s])
      /\ SystemSectors' = SystemSectors
  BY DEF Restart, SectorsOf, DataSectors, SystemSectors
<1>7. \A f \in NamedSectors' : /\ SectorsOf(f)' \subseteq disk_free_map' \ SystemSectors'
                               /\ f \notin DataSectors(disk_inode[f])'
  BY <1>2, <1>5, <1>6 DEF SectorsInv
<1>8. \A f, g \in NamedSectors' : f # g => SectorsOf(f)' \cap SectorsOf(g)' = {}
  BY <1>5, <1>6 DEF SectorsInv
<1>9. \A j, k \in Entries' : j # k =>
           /\ disk_entries'[j].name # disk_entries'[k].name
           /\ disk_entries'[j].inode_sector # disk_entries'[k].inode_sector
  BY <1>5 DEF SectorsInv, Restart
<1>10. Booted' /\ Bootable'
  BY <1>2, <1>3, <1>4, <1>7, <1>8, <1>9 DEF Bootable
<1> QED BY <1>10, BootedInv, PTL

\* So is a disk that was just formatted.
LEMMA InitInv ==
  ASSUME Init
  PROVE  FileSysInv
<1> DEFINE free == [start |-> 2, length |-> BLOCK_SECTOR_SIZE]
           root == [start |-> 3, length |-> BLOCK_SECTOR_SIZE]
           prog == [start |-> 5, length |-> BLOCK_SECTOR_SIZE]
           e == [in_use |-> TRUE, name |-> Program, inode_sector |-> 4]
<1>1. /\ {2, 3, 5} \subseteq Nat /\ BLOCK_SECTOR_SIZE \in Nat /\ 0..5 \subseteq Sector
      /\ 4 \in Sector /\ FREE_MAP_SECTOR \in Sector /\ 1 \in 1..DirEntries
      /\ SystemSectors \subseteq 0..5 /\ 4 \notin {FREE_MAP_SECTOR, ROOT_DIR_SECTOR}
  BY SMTT(20), SizesAssumption DEF Sector, FREE_MAP_SECTOR, ROOT_DIR_SECTOR, SystemSectors
<1> USE <1>1
<1>2. /\ free \in OnDisk /\ root \in OnDisk /\ prog \in OnDisk /\ NoInodeDisk \in OnDisk
  BY NoInodeType DEF OnDisk
<1>3. disk_inode \in [Sector -> OnDisk] /\ disk_inode[4] = prog
  BY <1>2 DEF Init, Format
<1>4. e \in Entry /\ NoEntry \in Entry /\ e.in_use /\ ~ NoEntry.in_use /\ e.inode_sector = 4
  BY NamesAssumption DEF Entry, NoEntry
<1>5. /\ disk_entries \in [1..DirEntries -> Entry] /\ disk_entries[1] = e
      /\ \A k \in 1..DirEntries : k # 1 => disk_entries[k] = NoEntry
  BY <1>4 DEF Init, Format
<1>6. Entries = {1} /\ NamedSectors = {4}
  <2>1. Entries = {1}
    BY <1>4, <1>5 DEF Entries
  <2>2. NamedSectors = {disk_entries[1].inode_sector}
    BY <2>1 DEF NamedSectors
  <2> QED BY <1>4, <1>5, <2>1, <2>2
<1>7. DataSectors(disk_inode[4]) = {5} /\ SectorsOf(4) = {4, 5}
  <2>1. bytes_to_sectors(BLOCK_SECTOR_SIZE) = 1
    BY OneSector
  <2>2. DataSectors(prog) = 5..5 + 1 - 1
    BY <2>1 DEF DataSectors
  <2>3. 5..5 + 1 - 1 = {5}
    BY SMTT(20)
  <2> QED BY <1>3, <2>2, <2>3 DEF SectorsOf
<1>8. {4, 5} \subseteq (0..5) \ SystemSectors /\ 4 # 5
  BY SMTT(20) DEF SystemSectors
<1>9. disk_free_map = 0..5 /\ Booted
  BY DEF Init, Format, Booted
<1>10. \A f \in NamedSectors : /\ SectorsOf(f) \subseteq disk_free_map \ SystemSectors
                               /\ f \notin DataSectors(disk_inode[f])
  BY <1>6, <1>7, <1>8, <1>9
<1>11. Bootable
  BY <1>3, <1>5, <1>6, <1>9, <1>10 DEF Bootable
<1> QED BY <1>9, <1>11, BootedInv
=============================================================================
