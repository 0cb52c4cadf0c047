---------------------------- MODULE FileSysProofs ----------------------------
(***************************************************************************)
(* The theorems about the file system: what its invariants FileSysInv and  *)
(* UseInv establish, and that it implements the specification Files.       *)
(***************************************************************************)
EXTENDS FileSysRefinement, FileSysCallProofs, FileUseProofs, KernelListProofs, FiniteSetTheorems

USE ZenonT(60)
-----------------------------------------------------------------------------
(***************************************************************************)
(* The facts that the steps rest on.                                       *)
(***************************************************************************)
LEMMA FiniteCounts ==
  ASSUME NEW S, IsFiniteSet(S)
  PROVE  Counts(S)
<1>1. Cardinality(S) \in Nat /\ (Cardinality(S) = 0 <=> S = {})
  BY FS_CardinalityType, FS_EmptySet
<1>2. S # {} => Cardinality(S) > 0
  BY SMTT(20), <1>1
<1>3. \A x : x \notin S => Cardinality(S \cup {x}) = Cardinality(S) + 1
  BY FS_AddElement
<1>4. \A x \in S : Cardinality(S \ {x}) = Cardinality(S) - 1
  BY FS_RemoveElement
<1> QED BY <1>1, <1>2, <1>3, <1>4 DEF Counts

\* The hypothesis Facts of the lemmas about the steps.
LEMMA FactsHold == Facts
<1>1. LeastFact
  BY LeastNatural DEF LeastFact
<1>2. ListFacts
  <2> SUFFICES ASSUME NEW list \in Seq(InodeId)
               PROVE
                 /\ \A elem \in InodeId :
                      /\ <<elem>> \o list \in Seq(InodeId)
                      /\ Elements(<<elem>> \o list) = Elements(list) \cup {elem}
                      /\ NoDuplicates(list) /\ elem \notin Elements(list)
                           => NoDuplicates(<<elem>> \o list)
                 /\ \A elem \in Elements(list) : NoDuplicates(list) =>
                      /\ list_remove(list, elem) \in Seq(InodeId)
                      /\ Elements(list_remove(list, elem)) = Elements(list) \ {elem}
                      /\ NoDuplicates(list_remove(list, elem))
    BY DEF ListFacts
  <2> QED BY PushFrontElements, RemoveElements
<1>3. CountFacts
  <2>1. IsFiniteSet(1..MaxFd)
    <3>1. 1 \in Int /\ MaxFd \in Int
      BY SMTT(20), BoundsAssumption
    <3> QED BY <3>1, FS_Interval
  <2>2. IsFiniteSet(Proc) /\ IsFiniteSet(Proc \X (1..MaxFd))
    BY <2>1, BoundsAssumption, FS_Product
  <2>3. ASSUME NEW S \in SUBSET (Proc \X (1..MaxFd))
        PROVE  Counts(S)
    BY <2>2, FS_Subset, FiniteCounts
  <2>4. ASSUME NEW S \in SUBSET Proc
        PROVE  Counts(S)
    BY <2>2, FS_Subset, FiniteCounts
  <2> QED BY <2>3, <2>4, FS_EmptySet DEF CountFacts
<1> QED BY <1>1, <1>2, <1>3 DEF Facts
-----------------------------------------------------------------------------
(***************************************************************************)
(* The invariants hold.                                                    *)
(***************************************************************************)

\* The hypotheses of the theorems: calls do not overlap, and a search of the
\* directory reads all of it.
LEMMA FileSysInvHolds ==
  ~ Overlap /\ "dir_read" \notin LowMemory => (Spec => []FileSysInv)
<1> SUFFICES ASSUME ~ Overlap, "dir_read" \notin LowMemory
             PROVE  Spec => []FileSysInv
  OBVIOUS
<1>1. Init => FileSysInv
  BY InitInv
<1>2. FileSysInv /\ [Next]_vars => FileSysInv'
  <2> SUFFICES ASSUME FileSysInv, [Next]_vars
               PROVE  FileSysInv'
    OBVIOUS
  <2>1. CASE UNCHANGED vars
    BY <2>1, SameState
  <2>2. CASE Restart
    BY <2>2, RestartStep
  <2>3. ASSUME NEW p \in Proc,
               InodeStep(p) \/ CreateStep(p) \/ OpenStep(p) \/ RemoveStep(p) \/ FileStep(p)
        PROVE  FileSysInv'
    <3>1. CASE InodeStep(p)
      BY <3>1, FactsHold, InodeOpen, InodeAlloc, InodeRead, InodeClose, InodeFree, Release DEF InodeStep
    <3>2. CASE CreateStep(p)
      BY <3>2, FactsHold, BeginCalls, AllocateScan, AllocateMark, InodeCreate, WriteInode, WriteZeros,
         DirAdd, DirWrite, Release DEF CreateStep
    <3>3. CASE OpenStep(p)
      BY <3>3, FactsHold, BeginCalls, DirectoryCalls, FileCalls DEF OpenStep
    <3>4. CASE RemoveStep(p)
      BY <3>4, FactsHold, BeginCalls, DirectoryCalls, EraseEntry, InodeRemove DEF RemoveStep
    <3>5. CASE FileStep(p)
      BY <3>5, BeginCalls, FileCalls, FileIo DEF FileStep
    <3> QED BY <2>3, <3>1, <3>2, <3>3, <3>4, <3>5
  <2> QED BY <2>1, <2>2, <2>3 DEF Next
<1> QED BY <1>1, <1>2, PTL DEF Spec

\* A step is one of a process that is in a call, or of one that enters one when
\* nobody is.
LEMMA StepActor ==
  ASSUME FileSysInv, ~ Overlap, NEW p \in Proc,
         InodeStep(p) \/ CreateStep(p) \/ OpenStep(p) \/ RemoveStep(p) \/ FileStep(p)
  PROVE  Actor(p)
<1>1. ASSUME NEW l, MayCall(p, l)
      PROVE  Actor(p)
  BY <1>1 DEF MayCall, Actor
<1>2. pc[p] \notin {"none", "user"} => Actor(p)
  BY DEF Actor, InCall
<1>3. CASE InodeStep(p)
  BY <1>2, <1>3 DEF InodeStep, At, inode_open, inode_alloc, inode_read, inode_close, inode_free,
     release_inode, release_data
<1>4. CASE CreateStep(p)
  BY <1>1, <1>2, <1>4 DEF CreateStep, At, syscall_create, allocate_scan, allocate_mark,
     inode_create, write_inode, write_zeros, dir_add, dir_write, rollback
<1>5. CASE OpenStep(p)
  BY <1>1, <1>2, <1>5 DEF OpenStep, At, syscall_open, load, dir_open, dir_lookup, lookup_done,
     file_open, deny_write, dir_close, return
<1>6. CASE RemoveStep(p)
  BY <1>1, <1>2, <1>6 DEF RemoveStep, At, syscall_remove, dir_remove, erase_entry, inode_remove
<1>7. CASE FileStep(p)
  BY <1>1, <1>2, <1>7 DEF FileStep, At, syscall_read, inode_read_at, syscall_write,
     inode_write_at, syscall_seek, syscall_close, syscall_exit, process_exit
<1> QED BY <1>3, <1>4, <1>5, <1>6, <1>7

\* Nothing happens.
LEMMA SameUse ==
  ASSUME UseInv, UNCHANGED vars
  PROVE  UseInv'
<1> USE DEF vars, diskVars, memVars, inodeVars, fileVars
<1>1. DataInv'
  BY DEF UseInv, DataInv
<1>2. \A p \in Proc : HandleInv(p)'
  BY DEF UseInv, HandleInv, OpenFd, NotRoot
<1>3. \A p \in Proc : FileRefInv(p, pc[p], frame[p])'
  BY DEF UseInv, FileRefInv, OpenFd, NotRoot
<1>4. \A p \in Proc : NewFileInv(pc[p], frame[p])'
  BY DEF UseInv, NewFileInv
<1>5. \A i : Refs(i)' = Refs(i) /\ Runs(i)' = Runs(i)
  BY DEF Refs, Runs, OpenFd
<1>6. \A p \in Proc : Actor(p)' => CountInv(p)'
  <2>1. \A p \in Proc : Actor(p)' => Actor(p)
    BY DEF Actor, InCall
  <2>2. \A p \in Proc : Actor(p) => CountInv(p)
    BY DEF UseInv
  <2> QED BY <1>5, <2>1, <2>2 DEF CountInv
<1> QED BY <1>1, <1>2, <1>3, <1>4, <1>6 DEF UseInv

\* Both invariants hold.
LEMMA UseInvHolds ==
  ~ Overlap /\ "dir_read" \notin LowMemory => (Spec => [](FileSysInv /\ UseInv))
<1> SUFFICES ASSUME ~ Overlap, "dir_read" \notin LowMemory
             PROVE  Spec => [](FileSysInv /\ UseInv)
  OBVIOUS
<1>1. Init => UseInv
  BY InitUse, FactsHold
<1>2. FileSysInv /\ UseInv /\ [Next]_vars => UseInv'
  <2> SUFFICES ASSUME FileSysInv, UseInv, [Next]_vars
               PROVE  UseInv'
    OBVIOUS
  <2>1. CASE UNCHANGED vars
    BY <2>1, SameUse
  <2>2. CASE Restart
    BY <2>2, RestartUse, FactsHold
  <2>3. ASSUME NEW p \in Proc,
               InodeStep(p) \/ CreateStep(p) \/ OpenStep(p) \/ RemoveStep(p) \/ FileStep(p)
        PROVE  UseInv'
    <3>1. Actor(p)
      BY <2>3, StepActor
    <3> QED BY <2>3, <3>1, StepUse, FactsHold
  <2> QED BY <2>1, <2>2, <2>3 DEF Next
<1>3. Spec => []FileSysInv
  BY FileSysInvHolds
<1> QED BY <1>1, <1>2, <1>3, PTL DEF Spec
-----------------------------------------------------------------------------
(***************************************************************************)
(* What they establish.  The hypotheses of the theorems: calls do not      *)
(* overlap, and a search of the directory reads all of it.                 *)
(***************************************************************************)

\* After every write that a call makes, and so whenever the machine stops, the
\* disk has no name twice, and the files that the directory names have sectors
\* of their own, all marked in the free map file.
THEOREM DiskStaysConsistent ==
  ~ Overlap /\ "dir_read" \notin LowMemory => (Spec => []DiskConsistent)
<1>1. FileSysInv => DiskConsistent
  <2> SUFFICES ASSUME FileSysInv
               PROVE  DiskConsistent
    OBVIOUS
  <2>1. SectorsInv
    BY DEF FileSysInv
  <2>2. \A k \in Entries : disk_entries[k].inode_sector \in NamedSectors \cap LiveFiles
    BY DEF NamedSectors, LiveFiles
  <2>3. \A k \in Entries : LET s == SectorsOf(disk_entries[k].inode_sector) IN
          s \subseteq disk_free_map /\ s \cap SystemSectors = {}
    BY <2>1, <2>2 DEF SectorsInv
  <2>4. \A j, k \in Entries : j # k =>
          /\ disk_entries[j].name # disk_entries[k].name
          /\ SectorsOf(disk_entries[j].inode_sector) \cap SectorsOf(disk_entries[k].inode_sector) = {}
    BY <2>1, <2>2 DEF SectorsInv
  <2> QED BY <2>3, <2>4 DEF DiskConsistent
<1> QED BY <1>1, FileSysInvHolds, PTL

\* inode_close() frees the blocks of a removed file only after the last opener:
\* files that have a name or are open keep their sectors to themselves.
THEOREM LiveSectorsStayMarked ==
  ~ Overlap /\ "dir_read" \notin LowMemory => (Spec => []LiveSectorsMarked)
<1>1. FileSysInv => LiveSectorsMarked
  BY DEF FileSysInv, SectorsInv, LiveSectorsMarked
<1> QED BY <1>1, FileSysInvHolds, PTL

\* inode_open(): "opening a single inode twice returns the same struct inode".
THEOREM OneInodeForEachSector ==
  ~ Overlap /\ "dir_read" \notin LowMemory => (Spec => []OneInodePerSector)
<1>1. FileSysInv => OneInodePerSector
  BY DEF FileSysInv, OpenInv
<1> QED BY <1>1, FileSysInvHolds, PTL

\* An open inode's copy of the on-disk inode is the one on disk, from the end of
\* inode_open() on.
THEOREM OpenInodesAreCurrent ==
  ~ Overlap /\ "dir_read" \notin LowMemory => (Spec => []InodeIsCurrent)
<1>1. FileSysInv => InodeIsCurrent
  BY DEF FileSysInv, OpenInv
<1> QED BY <1>1, FileSysInvHolds, PTL

\* dir_add() puts no file in the place of another, and nothing but remove takes
\* one away.
THEOREM NoFileIsReplaced ==
  ~ Overlap /\ "dir_read" \notin LowMemory => (Spec => FreeSlotsOnly)
<1>1. FileSysInv /\ [Next]_vars =>
        [\A k \in Entries : disk_entries'[k].in_use => disk_entries'[k] = disk_entries[k]]_vars
  <2> SUFFICES ASSUME FileSysInv, [Next]_vars, NEW k \in Entries, disk_entries'[k].in_use
               PROVE  disk_entries'[k] = disk_entries[k]
    OBVIOUS
  <2> USE DEF diskVars
  <2>1. TypeInv /\ \A p \in Proc : CallInv(p)
    BY DEF FileSysInv
  <2> USE <2>1
  <2>2. ASSUME NEW p \in Proc, dir_write(p)
        PROVE  disk_entries'[k] = disk_entries[k]
    <3>1. frame[p].slot # k
      BY <2>2 DEF dir_write, At, CallInv, CreateInv
    <3> QED BY <2>2, <3>1 DEF dir_write, TypeInv, Entries
  <2>3. ASSUME NEW p \in Proc, erase_entry(p)
        PROVE  disk_entries'[k] = disk_entries[k]
    <3>1. CASE UNCHANGED disk_entries
      BY <3>1
    <3>2. CASE disk_entries' = [disk_entries EXCEPT ![frame[p].slot] =
                 [in_use |-> FALSE, name |-> frame[p].name, inode_sector |-> frame[p].sector]]
      <4>1. frame[p].slot # k
        BY <3>2 DEF TypeInv, Entries
      <4> QED BY <3>2, <4>1 DEF TypeInv, Entries
    <3> QED BY <2>3, <3>1, <3>2 DEF erase_entry
  <2>4. CASE Restart \/ UNCHANGED vars
    BY <2>4 DEF Restart, vars
  <2> QED BY <2>2, <2>3, <2>4, EntriesStay DEF Next
<1> QED BY <1>1, FileSysInvHolds, PTL DEF FreeSlotsOnly, Spec

\* In every state there is an actor: the process in a call, or any other.
LEMMA SomeActor ==
  \E p \in Proc : Actor(p)
  BY BoundsAssumption DEF Actor

\* Between calls the list of open inodes is exactly the inodes of the open files
\* and of the running programs, open_cnt is their number and deny_write_cnt the
\* number of the programs: no opener is lost or counted twice, whichever
\* allocations fail on the way.
THEOREM CountsStayRight ==
  ~ Overlap /\ "dir_read" \notin LowMemory => (Spec => []CountsAgree)
<1>1. FileSysInv /\ UseInv => CountsAgree
  <2> SUFFICES ASSUME FileSysInv, UseInv, \A p \in Proc : ~ InCall(p), NEW i \in InodeId
               PROVE  /\ inode[i].open_cnt = Cardinality(Refs(i)) + Cardinality(Runs(i))
                      /\ inode[i].deny_write_cnt = Cardinality(Runs(i))
                      /\ i \in Elements(open_inodes) <=> inode[i].open_cnt > 0
    BY DEF CountsAgree
  <2>1. PICK p \in Proc : Actor(p)
    BY SomeActor
  <2>2. CountInv(p) /\ FileRefInv(p, pc[p], frame[p])
    BY <2>1 DEF UseInv
  <2>3. pc[p] \in {"none", "user"}
    BY DEF InCall
  <2>4. frame[p].op # "close"
    BY <2>2, <2>3 DEF FileRefInv, Closing
  <2>5. Held(pc[p], frame[p], i) = 0
    BY <2>3, <2>4, HeldByNobody
  <2>6. /\ inode[i].open_cnt = Cardinality(Refs(i)) + Cardinality(Runs(i)) + 0
        /\ inode[i].deny_write_cnt = Cardinality(Runs(i))
        /\ i \in Elements(open_inodes) => inode[i].open_cnt > 0
    BY <2>2, <2>3, <2>5 DEF CountInv
  <2>7. inode[i].open_cnt = Cardinality(Refs(i)) + Cardinality(Runs(i))
    <3>1. Cardinality(Refs(i)) \in Nat /\ Cardinality(Runs(i)) \in Nat
      BY CardinalRefs, FactsHold
    <3> QED BY SMTT(20), <2>6, <3>1
  <2>8. inode[i].open_cnt > 0 => i \in Elements(open_inodes)
    BY DEF FileSysInv, OpenInv
  <2> QED BY <2>6, <2>7, <2>8
<1> QED BY <1>1, UseInvHolds, PTL

\* No ASSERT of free_map_release(), inode_deny_write() or inode_allow_write()
\* fails: the sectors that a call releases are marked, no more openers deny writes
\* to an inode than have it open, and while a program runs its inode's count of
\* those who do is not 0.
THEOREM AssertionsNeverFail ==
  ~ Overlap /\ "dir_read" \notin LowMemory => (Spec => []AssertionsHold)
<1>1. FileSysInv /\ UseInv => AssertionsHold
  <2> SUFFICES ASSUME FileSysInv, UseInv
               PROVE  AssertionsHold
    OBVIOUS
  <2>1. ASSUME NEW p \in Proc
        PROVE  LET i == frame[p].closing IN
               /\ At(p, "release_inode") => inode[i].sector \in free_map
               /\ At(p, "release_data") => DataSectors(inode[i].data) \subseteq free_map
               /\ At(p, "rollback") => frame[p].inode_sector \in free_map
    <3>1. Claim(p) \subseteq free_map
      BY DEF FileSysInv, CallInv, ClaimInv
    <3>2. CASE pc[p] = "release_inode"
      <4>1. inode[frame[p].closing].sector \in Claim(p)
        BY <3>2 DEF Claim, Allocating
      <4> QED BY <3>1, <3>2, <4>1 DEF At
    <3>3. CASE pc[p] = "release_data"
      <4>1. DataSectors(inode[frame[p].closing].data) = Claim(p)
        BY <3>3 DEF Claim, Allocating
      <4> QED BY <3>1, <3>3, <4>1 DEF At
    <3>4. CASE pc[p] = "rollback"
      <4>1. frame[p].inode_sector \in Claim(p)
        BY <3>4 DEF Claim, Allocating
      <4> QED BY <3>1, <3>4, <4>1 DEF At
    <3> QED BY <3>2, <3>3, <3>4 DEF At
  <2>2. PICK p \in Proc : Actor(p)
    BY SomeActor
  <2>3. ASSUME NEW i \in InodeId
        PROVE  inode[i].deny_write_cnt <= inode[i].open_cnt
    BY <2>2, FactsHold, UsedIsOpen DEF FileSysInv
  <2>4. ASSUME NEW q \in Proc, exec_file[q] # NULL
        PROVE  inode[exec_file[q].inode].deny_write_cnt > 0
    <3> DEFINE i == exec_file[q].inode
    <3>1. i \in InodeId
      BY <2>4 DEF UseInv, HandleInv, File
    <3>2. inode[i].deny_write_cnt = Cardinality(Runs(i))
      BY <2>2, <3>1 DEF UseInv, CountInv
    <3>3. Runs(i) # {}
      BY <2>4 DEF Runs
    <3>4. Cardinality(Runs(i)) > 0
      BY <3>1, <3>3, CardinalRefs, FactsHold
    <3> QED BY <3>2, <3>4
  <2> QED BY <2>1, <2>3, <2>4 DEF AssertionsHold
<1> QED BY <1>1, UseInvHolds, PTL

\* file_deny_write() in load(): no step of any process changes the program that a
\* process runs, neither a write nor a create that takes sectors.
THEOREM ProgramsStayUnchanged ==
  ~ Overlap /\ "dir_read" \notin LowMemory => (Spec => ProgramUnchanged)
<1> SUFFICES ASSUME ~ Overlap, "dir_read" \notin LowMemory
             PROVE  Spec => ProgramUnchanged
  OBVIOUS
<1>1. FileSysInv /\ UseInv /\ [Next]_vars =>
        [\A p \in Proc : exec_file[p] # NULL /\ exec_file'[p] = exec_file[p] =>
           LET f == inode[exec_file[p].inode].sector IN Contents(f)' = Contents(f)]_vars
  <2> SUFFICES ASSUME FileSysInv, UseInv, Next, NEW q \in Proc,
                      exec_file[q] # NULL, exec_file'[q] = exec_file[q]
               PROVE  LET f == inode[exec_file[q].inode].sector IN Contents(f)' = Contents(f)
    OBVIOUS
  <2>1. CASE Restart
    <3>1. exec_file'[q] = NULL
      BY <2>1 DEF Restart, NoPrograms
    <3> QED BY <3>1
  <2>2. ASSUME NEW p \in Proc,
               InodeStep(p) \/ CreateStep(p) \/ OpenStep(p) \/ RemoveStep(p) \/ FileStep(p)
        PROVE  LET f == inode[exec_file[q].inode].sector IN Contents(f)' = Contents(f)
    <3>1. Actor(p)
      BY <2>2, StepActor
    <3> QED BY <2>2, <3>1, ProgramStays, FactsHold
  <2> QED BY <2>1, <2>2 DEF Next
<1>2. Spec => [](FileSysInv /\ UseInv)
  BY UseInvHolds
<1> QED BY <1>1, <1>2, PTL DEF ProgramUnchanged, Spec
-----------------------------------------------------------------------------
(***************************************************************************)
(* The file system implements module Files.                                *)
(***************************************************************************)

\* A name leads to the file of the entry that has it.
NamesFollow ==
  \A n \in Name :
    \/ Names[n] = NULL /\ \A k \in Entries : disk_entries[k].name # n
    \/ \E k \in Entries : disk_entries[k].name = n /\ Names[n] = disk_entries[k].inode_sector

\* lookup() finds the entry with the name, if there is one.
LEMMA NamedBy == NamesFollow
<1> SUFFICES ASSUME NEW n \in Name
             PROVE  \/ Names[n] = NULL /\ \A k \in Entries : disk_entries[k].name # n
                    \/ \E k \in Entries : /\ disk_entries[k].name = n
                                          /\ Names[n] = disk_entries[k].inode_sector
  BY DEF NamesFollow
<1>1. PICK slot : slot = lookup(n, DirEntries)
  OBVIOUS
<1>2. Names[n] = IF slot = 0 THEN NULL ELSE disk_entries[slot].inode_sector
  BY <1>1 DEF Names, FileNamed
<1>3. /\ slot = 0 => \A k \in Entries : disk_entries[k].name # n
      /\ slot # 0 => slot \in Entries /\ disk_entries[slot].name = n
  BY <1>1, LookupFinds, FactsHold
<1> QED BY <1>2, <1>3

\* What a name leads to is a live file.
LEMMA NamesAreLive ==
  ASSUME FileSysInv, NEW n \in Name, Names[n] # NULL
  PROVE  Names[n] \in NamedSectors /\ Names[n] \in LiveFiles /\ Names[n] \in FileId
<1>1. PICK k \in Entries : Names[n] = disk_entries[k].inode_sector
  BY NamedBy DEF NamesFollow
<1>2. Names[n] \in NamedSectors /\ Names[n] \in LiveFiles
  BY <1>1 DEF NamedSectors, LiveFiles
<1> QED BY <1>2, LiveFile DEF FileId

\* The files that have contents are the live ones.
BytesFollow ==
  \A f \in FileId :
    /\ f \notin LiveFiles => Bytes[f] = NULL
    /\ f \in LiveFiles =>
         /\ Bytes[f] = Contents(f) /\ Bytes[f] # NULL
         /\ Bytes[f] \in [1..disk_inode[f].length -> Byte]
         /\ Len(Bytes[f]) = disk_inode[f].length

\* Their contents are bytes, as many as the inode says.
LEMMA BytesOf == FileSysInv /\ UseInv => BytesFollow
<1> SUFFICES ASSUME FileSysInv, UseInv, NEW f \in FileId
             PROVE  /\ f \notin LiveFiles => Bytes[f] = NULL
                    /\ f \in LiveFiles =>
                         /\ Bytes[f] = Contents(f) /\ Bytes[f] # NULL
                         /\ Bytes[f] \in [1..disk_inode[f].length -> Byte]
                         /\ Len(Bytes[f]) = disk_inode[f].length
  BY DEF BytesFollow
<1>1. Bytes[f] = IF f \in LiveFiles THEN Contents(f) ELSE NULL
  BY DEF Bytes
<1>2. ASSUME f \in LiveFiles
      PROVE  /\ Contents(f) \in [1..disk_inode[f].length -> Byte] /\ Contents(f) # NULL
             /\ Len(Contents(f)) = disk_inode[f].length
  <2>1. PICK d \in OnDisk : d = disk_inode[f] /\ f \in Sector
    BY <1>2, LiveFile
  <2>2. d.length \in Nat /\ d.length \in FileSize \cup {BLOCK_SECTOR_SIZE}
    BY <2>1 DEF OnDisk, UseInv, DataInv
  <2>3. ASSUME NEW i \in 1..d.length
        PROVE  disk_data[d.start + (i - 1) \div BLOCK_SECTOR_SIZE][(i - 1) % BLOCK_SECTOR_SIZE] \in Byte
    <3>1. i - 1 \in 0..d.length - 1
      BY SMTT(20), <2>2
    <3>2. d.start + (i - 1) \div BLOCK_SECTOR_SIZE \in DataSectors(d)
      BY <3>1, SectorOfByte
    <3>3. d.start + (i - 1) \div BLOCK_SECTOR_SIZE \in Sector
      BY <1>2, <2>1, <3>2, LiveFile
    <3>4. (i - 1) % BLOCK_SECTOR_SIZE \in 0..BLOCK_SECTOR_SIZE - 1
      BY <2>2, <3>1, ByteIsInSector
    <3> QED BY <3>3, <3>4 DEF UseInv, DataInv
  <2>4. Contents(f) \in [1..d.length -> Byte]
    BY <2>1, <2>3 DEF Contents
  <2>5. Contents(f) # NULL
    BY <2>2, <2>4, NullAssumption
  <2>6. Len(Contents(f)) = d.length
    BY SMTT(20), <2>2, <2>4
  <2> QED BY <2>1, <2>4, <2>5, <2>6
<1> QED BY <1>1, <1>2

\* Names change with the directory only.
LEMMA SameNames ==
  ASSUME UNCHANGED disk_entries
  PROVE  Names' = Names
<1>1. \A n : FileNamed(n)' = FileNamed(n)
  BY DEF FileNamed, lookup
<1> QED BY <1>1 DEF Names

\* The files of F are gone, and the others hold what they did.
LEMMA BytesGone ==
  ASSUME NEW G, LiveFiles' = LiveFiles \ G,
         \A f \in LiveFiles : Contents(f)' = Contents(f)
  PROVE  Bytes' = [f \in FileId |-> IF f \in G THEN NULL ELSE Bytes[f]]
<1>1. \A f \in FileId : Bytes[f] = IF f \in LiveFiles THEN Contents(f) ELSE NULL
  BY DEF Bytes
<1>2. Bytes' = [f \in FileId |-> IF f \in LiveFiles' THEN Contents(f)' ELSE NULL]
  BY DEF Bytes
<1>3. \A f \in FileId : (IF f \in LiveFiles' THEN Contents(f)' ELSE NULL)
                          = IF f \in G THEN NULL ELSE Bytes[f]
  BY <1>1
<1> QED BY <1>2, <1>3

\* Bytes do not change while the live files and their contents do not.
LEMMA SameBytes ==
  ASSUME LiveFiles' = LiveFiles,
         \A f \in LiveFiles : Contents(f)' = Contents(f)
  PROVE  Bytes' = Bytes
  BY DEF Bytes

\* dir_write() names a new file, which holds zeros.
LEMMA DirWriteCreates ==
  ASSUME FileSysInv, UseInv, FileSysInv', NEW p \in Proc, dir_write(p), disk_entries' # disk_entries
  PROVE  \E n \in Name, f \in FileId, length \in FileSize : F!Create(n, f, length)
<1>1. PICK g : g = frame[p]
  OBVIOUS
<1>2. /\ pc[p] = "dir_write"
      /\ disk_entries' = [disk_entries EXCEPT ![g.slot] =
           [in_use |-> TRUE, name |-> g.name, inode_sector |-> g.inode_sector]]
      /\ UNCHANGED <<disk_inode, disk_data, memVars>>
  BY <1>1 DEF dir_write, At
<1>3. /\ TypeInv /\ SectorsInv /\ ClaimInv(p) /\ CreateInv(p) /\ NewFileInv(pc[p], g)
  BY <1>1 DEF FileSysInv, CallInv, UseInv
<1>4. /\ g.slot \in 1..DirEntries /\ g.slot \notin Entries
      /\ \A k \in Entries : disk_entries[k].name # g.name
      /\ g.name \in Name /\ g.size \in FileSize
  BY <1>1, <1>2, <1>3, NamesAssumption DEF CreateInv, NewFileInv
<1>5. /\ g.inode_sector \in FileId /\ g.inode_sector \notin LiveFiles
  <2>1. Claim(p) = SectorsOf(g.inode_sector) /\ g.inode_sector \in SectorsOf(g.inode_sector)
    BY <1>1, <1>2 DEF Claim, Allocating, SectorsOf
  <2>2. \A f \in LiveFiles : f \in SectorsOf(f)
    BY DEF SectorsOf
  <2> QED BY <1>3, <2>1, <2>2 DEF ClaimInv, FileId, TypeInv
<1>6. /\ Entries' = Entries \cup {g.slot}
      /\ disk_entries'[g.slot] = [in_use |-> TRUE, name |-> g.name, inode_sector |-> g.inode_sector]
      /\ \A k \in Entries : disk_entries'[k] = disk_entries[k]
  BY <1>2, <1>3, <1>4 DEF Entries, TypeInv
<1>7. disk_entries'[g.slot].name = g.name /\ disk_entries'[g.slot].inode_sector = g.inode_sector
  <2>1. PICK e : e = disk_entries'[g.slot]
    OBVIOUS
  <2>2. e = [in_use |-> TRUE, name |-> g.name, inode_sector |-> g.inode_sector]
    BY <1>6, <2>1
  <2>3. e.name = g.name /\ e.inode_sector = g.inode_sector
    BY <2>2
  <2> QED BY <2>1, <2>3
<1>8. Names[g.name] = NULL
  BY <1>4, NamedBy DEF NamesFollow
<1>9. Names' = [Names EXCEPT ![g.name] = g.inode_sector]
  <2>0. NamesFollow'
    BY NamedBy, PTL
  <2>1. ASSUME NEW n \in Name
        PROVE  Names'[n] = IF n = g.name THEN g.inode_sector ELSE Names[n]
    <3>1. \/ Names'[n] = NULL /\ \A k \in Entries' : disk_entries'[k].name # n
          \/ \E k \in Entries' : disk_entries'[k].name = n /\ Names'[n] = disk_entries'[k].inode_sector
      BY <2>0 DEF NamesFollow
    <3>2. \/ Names[n] = NULL /\ \A k \in Entries : disk_entries[k].name # n
          \/ \E k \in Entries : disk_entries[k].name = n /\ Names[n] = disk_entries[k].inode_sector
      BY NamedBy DEF NamesFollow
    <3>3. CASE n = g.name
      BY <1>4, <1>6, <1>7, <3>1, <3>3
    <3>4. CASE n # g.name
      <4>1. \A j, k \in Entries : disk_entries[j].name = disk_entries[k].name => j = k
        BY <1>3 DEF SectorsInv
      <4> QED BY <1>6, <1>7, <3>1, <3>2, <3>4, <4>1
    <3> QED BY <3>3, <3>4
  <2>2. Names = [n \in Name |-> Names[n]] /\ Names' = [n \in Name |-> Names'[n]]
    BY DEF Names
  <2> QED BY <1>4, <2>1, <2>2
<1>10. LiveFiles' = LiveFiles \cup {g.inode_sector}
  <2>1. OpenSectors' = OpenSectors
    BY <1>2 DEF OpenSectors, memVars, inodeVars
  <2>2. NamedSectors' = NamedSectors \cup {g.inode_sector}
    BY <1>6, <1>7 DEF NamedSectors
  <2> QED BY <2>1, <2>2 DEF LiveFiles, NamedSectors
<1>11. Contents(g.inode_sector)' = F!Zeros(g.size)
  <2>1. /\ disk_inode[g.inode_sector] = [start |-> g.start, length |-> g.size]
        /\ g.start \in Nat /\ g.cnt = bytes_to_sectors(g.size) /\ g.done >= g.cnt
        /\ \A k \in 0..g.done - 1 : disk_data[g.start + k] = Zeros
    BY <1>2, <1>3 DEF NewFileInv
  <2>2. g.size \in Nat /\ g.done \in Int /\ g.cnt \in Int
    <3>1. g.size \in Nat /\ g.done \in Int /\ g.cnt \in Nat
      BY <1>1, <1>3, FrameFacts
    <3> QED BY SMTT(20), <3>1
  <2>3. ASSUME NEW i \in 1..g.size
        PROVE  disk_data[g.start + (i - 1) \div BLOCK_SECTOR_SIZE][(i - 1) % BLOCK_SECTOR_SIZE] = 0
    <3>1. i - 1 \in 0..g.size - 1
      BY SMTT(20), <2>2
    <3>2. PICK k \in 0..g.cnt - 1 : k = (i - 1) \div BLOCK_SECTOR_SIZE
      BY <2>1, <2>2, <3>1, ByteIsInSector
    <3>3. k \in 0..g.done - 1
      BY SMTT(20), <2>1, <2>2, <3>2
    <3>4. (i - 1) % BLOCK_SECTOR_SIZE \in 0..BLOCK_SECTOR_SIZE - 1
      BY <2>2, <3>1, ByteIsInSector
    <3> QED BY <2>1, <3>2, <3>3, <3>4 DEF Zeros
  <2>4. disk_inode'[g.inode_sector].start = g.start /\ disk_inode'[g.inode_sector].length = g.size
    <3>1. PICK d : d = disk_inode'[g.inode_sector]
      OBVIOUS
    <3>2. d = [start |-> g.start, length |-> g.size]
      BY <1>2, <2>1, <3>1
    <3>3. d.start = g.start /\ d.length = g.size
      BY <3>2
    <3> QED BY <3>1, <3>3
  <2>5. Contents(g.inode_sector)' =
          [i \in 1..g.size |-> disk_data[g.start + (i - 1) \div BLOCK_SECTOR_SIZE][(i - 1) % BLOCK_SECTOR_SIZE]]
    <3>1. \A f : Contents(f)' =
            [i \in 1..disk_inode'[f].length |->
               disk_data'[disk_inode'[f].start + (i - 1) \div BLOCK_SECTOR_SIZE][(i - 1) % BLOCK_SECTOR_SIZE]]
      BY DEF Contents
    <3> QED BY <1>2, <2>4, <3>1
  <2> QED BY <2>3, <2>5 DEF F!Zeros
<1>12. \A f \in LiveFiles : Contents(f)' = Contents(f)
  BY <1>2, LiveFile, ContentsKept
<1>13. Bytes[g.inode_sector] = NULL
  BY <1>5, BytesOf DEF BytesFollow
<1>14. Bytes' = [Bytes EXCEPT ![g.inode_sector] = F!Zeros(g.size)]
  <2>1. Bytes = [f \in FileId |-> IF f \in LiveFiles THEN Contents(f) ELSE NULL]
    BY DEF Bytes
  <2>2. Bytes' = [f \in FileId |-> IF f \in LiveFiles' THEN Contents(f)' ELSE NULL]
    BY DEF Bytes
  <2>3. ASSUME NEW f \in FileId
        PROVE  (IF f \in LiveFiles' THEN Contents(f)' ELSE NULL)
                 = IF f = g.inode_sector THEN F!Zeros(g.size) ELSE Bytes[f]
    BY <1>10, <1>11, <1>12, <2>1
  <2> QED BY <1>5, <2>1, <2>2, <2>3
<1>15. F!Create(g.name, g.inode_sector, g.size)
  BY <1>8, <1>9, <1>13, <1>14 DEF F!Create, F!Exists
<1> QED BY <1>4, <1>5, <1>15

\* erase_entry() takes a name away.
LEMMA EraseRemoves ==
  ASSUME FileSysInv, NEW p \in Proc, erase_entry(p), Bytes' = Bytes
  PROVE  Names' = Names \/ \E n \in Name : F!Remove(n)
<1>1. CASE UNCHANGED disk_entries
  BY <1>1, SameNames
<1>2. CASE disk_entries' # disk_entries
  <2>0. NamesFollow'
    BY NamedBy, PTL
  <2>1. PICK g : g = frame[p]
    OBVIOUS
  <2>2. /\ pc[p] = "erase_entry"
        /\ disk_entries' = [disk_entries EXCEPT ![g.slot] =
             [in_use |-> FALSE, name |-> g.name, inode_sector |-> g.sector]]
    BY <1>2, <2>1 DEF erase_entry, At
  <2>3. TypeInv /\ SectorsInv /\ g.slot \in Entries /\ disk_entries[g.slot].name = g.name
    BY <2>1, <2>2 DEF FileSysInv, CallInv, OpeningInv, Erasing
  <2>4. Entries' = Entries \ {g.slot} /\ \A k \in Entries' : disk_entries'[k] = disk_entries[k]
    BY <2>2, <2>3 DEF Entries, TypeInv
  <2>5. \A j, k \in Entries : disk_entries[j].name = disk_entries[k].name => j = k
    BY <2>3 DEF SectorsInv
  <2>6. ASSUME NEW n \in Name
        PROVE  Names'[n] = IF n = g.name THEN NULL ELSE Names[n]
    <3>1. \/ Names'[n] = NULL /\ \A k \in Entries' : disk_entries'[k].name # n
          \/ \E k \in Entries' : disk_entries'[k].name = n /\ Names'[n] = disk_entries'[k].inode_sector
      BY <2>0 DEF NamesFollow
    <3>2. \/ Names[n] = NULL /\ \A k \in Entries : disk_entries[k].name # n
          \/ \E k \in Entries : disk_entries[k].name = n /\ Names[n] = disk_entries[k].inode_sector
      BY NamedBy DEF NamesFollow
    <3>3. CASE n = g.name
      BY <2>3, <2>4, <2>5, <3>1, <3>3
    <3>4. CASE n # g.name
      <4>1. CASE Names[n] = NULL /\ \A k \in Entries : disk_entries[k].name # n
        BY <2>4, <3>1, <3>4, <4>1
      <4>2. CASE \E k \in Entries : /\ disk_entries[k].name = n
                                   /\ Names[n] = disk_entries[k].inode_sector
        <5>1. PICK k \in Entries : /\ disk_entries[k].name = n
                                   /\ Names[n] = disk_entries[k].inode_sector
          BY <4>2
        <5>2. k \in Entries' /\ disk_entries'[k] = disk_entries[k]
          BY <2>3, <2>4, <3>4, <5>1
        <5>3. PICK j \in Entries' : /\ disk_entries'[j].name = n
                                    /\ Names'[n] = disk_entries'[j].inode_sector
          BY <3>1, <5>1, <5>2
        <5>4. j = k
          BY <2>4, <2>5, <5>1, <5>3
        <5> QED BY <3>4, <5>1, <5>2, <5>3, <5>4
      <4> QED BY <3>2, <4>1, <4>2
    <3> QED BY <3>3, <3>4
  <2>7. Names = [n \in Name |-> Names[n]] /\ Names' = [n \in Name |-> Names'[n]]
    BY DEF Names
  <2>8. CASE g.name \notin Name
    BY <2>6, <2>7, <2>8
  <2>9. CASE g.name \in Name
    <3>1. Names' = [Names EXCEPT ![g.name] = NULL]
      BY <2>6, <2>7, <2>9
    <3>2. Names[g.name] # NULL
      <4>1. PICK k \in Entries : Names[g.name] = disk_entries[k].inode_sector
        BY <2>3, <2>9, NamedBy DEF NamesFollow
      <4>2. disk_entries[k].inode_sector \in Sector
        BY <2>3, <4>1 DEF TypeInv, Entries, Entry
      <4> QED BY <4>1, <4>2, NullAssumption
    <3> QED BY <2>9, <3>1, <3>2 DEF F!Remove
  <2> QED BY <2>8, <2>9
<1> QED BY <1>1, <1>2

\* Files go when nobody has them open and they have no name.
LEMMA FilesGo ==
  ASSUME FileSysInv, UseInv, UNCHANGED <<disk_inode, disk_data, disk_entries>>,
         LiveFiles' \subseteq LiveFiles
  PROVE  \E G \in SUBSET F!Nameless : F!Vanish(G)
<1> DEFINE G == LiveFiles \ LiveFiles'
<1>1. \A f \in LiveFiles : Contents(f)' = Contents(f)
  BY LiveFile, ContentsKept
<1>2. LiveFiles' = LiveFiles \ G
  OBVIOUS
<1>3. Names' = Names
  BY SameNames
<1>4. G \in SUBSET F!Nameless
  <2> SUFFICES ASSUME NEW f \in G
               PROVE  f \in F!Nameless
    OBVIOUS
  <2>1. f \in FileId /\ Bytes[f] # NULL
    BY LiveFile, BytesOf DEF FileId, BytesFollow
  <2>2. f \notin NamedSectors
    BY DEF LiveFiles, NamedSectors, Entries
  <2>3. \A n \in Name : Names[n] # f
    <3>1. f # NULL
      BY <2>1, NullAssumption DEF FileId
    <3> QED BY <2>2, <3>1, NamesAreLive
  <2> QED BY <2>1, <2>3 DEF F!Nameless, F!Named, F!Exists
<1> HIDE DEF G
<1>5. Bytes' = [f \in FileId |-> IF f \in G THEN NULL ELSE Bytes[f]]
  BY <1>1, <1>2, BytesGone
<1> QED BY <1>3, <1>4, <1>5 DEF F!Vanish

\* A turn of a write changes bytes of one file.
LEMMA WriteWrites ==
  ASSUME Facts, FileSysInv, UseInv, FileSysInv', UseInv', NEW p \in Proc, inode_write_at(p),
         LiveFiles' = LiveFiles
  PROVE  \E f \in FileId : F!Write(f)
<1>1. PICK g : g = Ino(p).sector
  OBVIOUS
<1>2. /\ g \in LiveFiles /\ UNCHANGED <<disk_inode, disk_entries>>
      /\ \A f \in LiveFiles \ {g} : Contents(f)' = Contents(f)
  BY <1>1, WriteIsOwn
<1>3. g \in FileId /\ Names' = Names
  BY <1>2, LiveFile, SameNames DEF FileId
<1>4. Bytes[g] # NULL /\ Len(Bytes[g]) = disk_inode[g].length
  BY <1>2, <1>3, BytesOf DEF BytesFollow
<1>5. Bytes'[g] \in [1..disk_inode[g].length -> Byte]
  <2>1. FileSysInv' /\ UseInv' => BytesFollow'
    BY BytesOf, PTL
  <2> QED BY <1>2, <1>3, <2>1 DEF BytesFollow
<1>6. \A f \in FileId \ {g} : Bytes'[f] = Bytes[f]
  <2>1. \A f \in FileId : Bytes'[f] = IF f \in LiveFiles' THEN Contents(f)' ELSE NULL
    BY DEF Bytes
  <2>2. \A f \in FileId : Bytes[f] = IF f \in LiveFiles THEN Contents(f) ELSE NULL
    BY DEF Bytes
  <2> QED BY <1>2, <2>1, <2>2
<1>7. Byte = F!Byte
  BY DEF Byte, F!Byte
<1> QED BY <1>3, <1>4, <1>5, <1>6, <1>7 DEF F!Write, F!Exists

\* Every step of a process is one that Files allows.
LEMMA StepRefines ==
  ASSUME FileSysInv, UseInv, FileSysInv', UseInv', NEW p \in Proc, Actor(p),
         InodeStep(p) \/ CreateStep(p) \/ OpenStep(p) \/ RemoveStep(p) \/ FileStep(p)
  PROVE  F!Next \/ UNCHANGED <<Names, Bytes>>
<1> USE FactsHold
<1>1. CASE inode_free(p)
  BY <1>1, LastClose, FilesGo DEF F!Next
<1>2. CASE dir_write(p) /\ disk_entries' # disk_entries
  BY <1>2, DirWriteCreates DEF F!Next
<1>3. CASE dir_write(p) /\ UNCHANGED disk_entries
  <2>1. UNCHANGED <<disk_inode, disk_data>> /\ UNCHANGED <<inode, open_inodes>>
    BY <1>3 DEF dir_write, memVars, inodeVars
  <2>2. LiveFiles' = LiveFiles
    BY <1>3, <2>1 DEF LiveFiles, OpenSectors, Entries
  <2>3. \A f \in LiveFiles : Contents(f)' = Contents(f)
    BY <2>1, LiveFile, ContentsKept
  <2> QED BY <1>3, <2>2, <2>3, SameNames, SameBytes
<1>4. CASE ~ inode_free(p) /\ ~ dir_write(p)
  <2>1. LiveFiles' = LiveFiles
    BY <1>4, LiveKept
  <2>2. CASE inode_write_at(p)
    BY <2>1, <2>2, WriteWrites DEF F!Next
  <2>3. CASE ~ inode_write_at(p)
    <3>1. Bytes' = Bytes
      BY <2>1, <2>3, ContentsStay, SameBytes
    <3>2. CASE erase_entry(p)
      BY <3>1, <3>2, EraseRemoves DEF F!Next
    <3>3. CASE ~ erase_entry(p)
      BY <1>4, <3>1, <3>3, EntriesStay, SameNames
    <3> QED BY <3>2, <3>3
  <2> QED BY <2>2, <2>3
<1> QED BY <1>1, <1>2, <1>3, <1>4

\* So is a restart: the files that have a name are left.
LEMMA RestartRefines ==
  ASSUME FileSysInv, UseInv, Restart
  PROVE  F!Next
<1>1. UNCHANGED <<disk_inode, disk_data, disk_entries>> /\ open_inodes' = <<>>
  BY DEF Restart, diskVars
<1>2. LiveFiles' \subseteq LiveFiles
  <2>1. Elements(open_inodes)' = {}
    BY <1>1, EmptyList
  <2>2. OpenSectors' = {}
    BY <2>1 DEF OpenSectors
  <2> QED BY <1>1, <2>2 DEF LiveFiles, Entries
<1> QED BY <1>1, <1>2, FilesGo DEF F!Next

\* On a formatted disk the files are those that have a name.
LEMMA InitRefines ==
  ASSUME Init, FileSysInv, UseInv
  PROVE  F!Init
<1>1. Names \in [Name -> FileId \cup {NULL}]
  <2>1. \A n \in Name : Names[n] \in FileId \cup {NULL}
    BY NamesAreLive
  <2> QED BY <2>1 DEF Names
<1>2. \A k \in Entries : disk_entries[k].name = Program
  <2>1. \A k \in 1..DirEntries : disk_entries[k] =
          IF k = 1 THEN [in_use |-> TRUE, name |-> Program, inode_sector |-> 4] ELSE NoEntry
    BY DEF Init, Format
  <2>2. ~ NoEntry.in_use
    BY DEF NoEntry
  <2>3. \A k \in Entries : k = 1
    BY <2>1, <2>2 DEF Entries
  <2> SUFFICES ASSUME NEW k \in Entries
               PROVE  disk_entries[k].name = Program
    OBVIOUS
  <2>4. PICK e : e = disk_entries[k]
    OBVIOUS
  <2>5. e = [in_use |-> TRUE, name |-> Program, inode_sector |-> 4]
    BY <2>1, <2>3, <2>4 DEF Entries
  <2>6. e.name = Program
    BY <2>5
  <2> QED BY <2>4, <2>6
<1>3. LiveFiles = NamedSectors
  <2>1. Elements(open_inodes) = {}
    BY EmptyList DEF Init
  <2> QED BY <2>1 DEF LiveFiles, OpenSectors, NamedSectors
<1>4. ASSUME NEW f \in FileId
      PROVE  Bytes[f] # NULL <=> \E n \in Name : Names[n] = f
  <2>1. Bytes[f] # NULL <=> f \in LiveFiles
    BY BytesOf DEF BytesFollow
  <2>2. f # NULL
    BY NullAssumption DEF FileId
  <2>3. ASSUME NEW n \in Name, Names[n] = f
        PROVE  f \in LiveFiles
    BY <2>2, <2>3, NamesAreLive
  <2>4. ASSUME f \in NamedSectors
        PROVE  Names[Program] = f
    <3>1. PICK k \in Entries : disk_entries[k].inode_sector = f
      BY <2>4 DEF NamedSectors
    <3>2. disk_entries[k].name = Program /\ Program \in Name
      BY <1>2, NamesAssumption
    <3>3. PICK j \in Entries : /\ disk_entries[j].name = Program
                               /\ Names[Program] = disk_entries[j].inode_sector
      BY <3>2, NamedBy DEF NamesFollow
    <3>4. j = k
      BY <3>2, <3>3 DEF FileSysInv, SectorsInv
    <3> QED BY <3>1, <3>3, <3>4
  <2> QED BY <1>3, <2>1, <2>3, <2>4, NamesAssumption
<1>5. \A f \in FileId : f # NULL
  BY NullAssumption DEF FileId
<1>6. \A f \in FileId : F!Exists(f) <=> f \in F!Named
  BY <1>4, <1>5 DEF F!Exists, F!Named
<1> QED BY <1>1, <1>6 DEF F!Init

\* The file system implements module Files: whatever calls the processes make,
\* whichever allocations fail and wherever the machine stops, each step does to
\* the names and to the bytes of the files what Files allows, or nothing.  A new
\* file holds zeros, a write changes its own file alone and not its length, a
\* file loses its contents only when it has no name and nobody has it open.
THEOREM FileSysImplementsFiles ==
  ~ Overlap /\ "dir_read" \notin LowMemory => (Spec => ImplementsFiles)
<1> SUFFICES ASSUME ~ Overlap, "dir_read" \notin LowMemory
             PROVE  Spec => ImplementsFiles
  OBVIOUS
<1>1. Init /\ FileSysInv /\ UseInv => F!Init
  BY InitRefines
<1>2. FileSysInv /\ UseInv /\ (FileSysInv /\ UseInv)' /\ [Next]_vars => [F!Next]_(F!vars)
  <2> SUFFICES ASSUME FileSysInv, UseInv, FileSysInv', UseInv', [Next]_vars
               PROVE  F!Next \/ UNCHANGED <<Names, Bytes>>
    BY DEF F!vars
  <2>1. CASE UNCHANGED vars
    <3>1. UNCHANGED <<disk_inode, disk_data, disk_entries, inode, open_inodes>>
      BY <2>1 DEF vars, diskVars, memVars, inodeVars
    <3>2. LiveFiles' = LiveFiles
      BY <3>1 DEF LiveFiles, OpenSectors, Entries
    <3>3. \A f \in LiveFiles : Contents(f)' = Contents(f)
      BY <3>1, LiveFile, ContentsKept
    <3> QED BY <3>1, <3>2, <3>3, SameNames, SameBytes
  <2>2. CASE Restart
    BY <2>2, RestartRefines
  <2>3. ASSUME NEW p \in Proc,
               InodeStep(p) \/ CreateStep(p) \/ OpenStep(p) \/ RemoveStep(p) \/ FileStep(p)
        PROVE  F!Next \/ UNCHANGED <<Names, Bytes>>
    <3>1. Actor(p)
      BY <2>3, StepActor
    <3> QED BY <2>3, <3>1, StepRefines
  <2> QED BY <2>1, <2>2, <2>3 DEF Next
<1>3. Spec => [](FileSysInv /\ UseInv)
  BY UseInvHolds
<1> QED BY <1>1, <1>2, <1>3, PTL DEF Spec, ImplementsFiles, F!Spec
=============================================================================
