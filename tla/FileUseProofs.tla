--------------------------- MODULE FileUseProofs ----------------------------
(***************************************************************************)
(* The references to the struct inodes, and the contents of the files:     *)
(* UseInv is kept by every step that keeps FileSysInv, and a step changes  *)
(* the contents of no file but the one that it writes to.                  *)
(***************************************************************************)
EXTENDS FileSysRefinement, FileSysInvariants, TLAPS

\* The prover of the leaves that name none.
USE ZenonT(60)
-----------------------------------------------------------------------------
(***************************************************************************)
(* Counting references.                                                    *)
(***************************************************************************)
LEMMA CardinalRefs ==
  ASSUME Facts, NEW i
  PROVE  /\ Cardinality(Refs(i)) \in Nat /\ Cardinality(Runs(i)) \in Nat
         /\ Refs(i) # {} => Cardinality(Refs(i)) > 0
         /\ Runs(i) # {} => Cardinality(Runs(i)) > 0
<1>1. Refs(i) \in SUBSET (Proc \X (1..MaxFd)) /\ Runs(i) \in SUBSET Proc
  BY DEF Refs, Runs
<1>2. Counts(Refs(i)) /\ Counts(Runs(i))
  BY <1>1 DEF Facts, CountFacts
<1> QED BY <1>2 DEF Counts

\* The same after a step.
LEMMA NextCardinalRefs ==
  ASSUME Facts, NEW i
  PROVE  Cardinality(Refs(i)') \in Nat /\ Cardinality(Runs(i)') \in Nat
<1>1. Refs(i)' \in SUBSET (Proc \X (1..MaxFd)) /\ Runs(i)' \in SUBSET Proc
  BY DEF Refs, Runs
<1>2. Counts(Refs(i)') /\ Counts(Runs(i)')
  BY <1>1 DEF Facts, CountFacts
<1> QED BY <1>2 DEF Counts

\* One reference more, and one less.
LEMMA OneRef ==
  ASSUME Facts, NEW i, NEW x
  PROVE  /\ x \notin Refs(i) => Cardinality(Refs(i) \cup {x}) = Cardinality(Refs(i)) + 1
         /\ x \in Refs(i) => Cardinality(Refs(i) \ {x}) = Cardinality(Refs(i)) - 1
         /\ x \notin Runs(i) => Cardinality(Runs(i) \cup {x}) = Cardinality(Runs(i)) + 1
         /\ x \in Runs(i) => Cardinality(Runs(i) \ {x}) = Cardinality(Runs(i)) - 1
<1>1. Refs(i) \in SUBSET (Proc \X (1..MaxFd)) /\ Runs(i) \in SUBSET Proc
  BY DEF Refs, Runs
<1>2. Counts(Refs(i)) /\ Counts(Runs(i))
  BY <1>1 DEF Facts, CountFacts
<1> QED BY <1>2 DEF Counts

\* The list of open inodes has struct inodes only.
LEMMA OpenIsInode ==
  ASSUME NEW list \in Seq(InodeId)
  PROVE  Elements(list) \subseteq InodeId
  BY SMTT(20) DEF Elements, Range

\* The references that a call has are a number, less than zero only for the file
\* that close has closed.
LEMMA HeldType ==
  ASSUME NEW l, NEW f, NEW i
  PROVE  /\ Held(l, f, i) \in Int /\ Held(l, f, i) >= -1
         /\ ~ (f.op = "close" /\ f.closing = i) => Held(l, f, i) >= 0
  BY SMTT(20) DEF Held, Points

\* Where a call has no reference in its locals.
LEMMA HeldByNobody ==
  ASSUME NEW l \in {"none", "user", "exit", "return", "inode_read_at", "inode_write_at"}, NEW f,
         NEW i, ~ (f.op = "close" /\ f.closing = i)
  PROVE  Held(l, f, i) = 0
<1>1. ~ HoldsDir(l, f) /\ ~ HoldsInode(l, f) /\ l # "inode_close"
  BY DEF HoldsDir, HoldsInode, Opening, Allocating, Closing
<1> QED BY SMTT(20), <1>1 DEF Held, Points

\* A descriptor of a file is a reference to its inode, and so is a running program.
LEMMA OpenFdIsRef ==
  ASSUME TypeInv, UseInv, NEW q \in Proc, NEW fd \in OpenFd(q)
  PROVE  /\ fd_tab[q][fd] \in File /\ fd_tab[q][fd].inode \in InodeId
         /\ fd \in 1..MaxFd /\ <<q, fd>> \in Refs(fd_tab[q][fd].inode)
<1>1. HandleInv(q)
  BY DEF UseInv
<1>2. fd_tab[q][fd] \in File /\ Len(fd_tab[q]) <= MaxFd
  BY <1>1 DEF HandleInv
<1>3. fd_tab[q][fd].inode \in InodeId
  BY <1>2 DEF File
<1>4. fd \in 1..MaxFd
  <2>1. fd \in 1..Len(fd_tab[q])
    BY DEF OpenFd
  <2>2. fd_tab[q] \in Seq(OpenFile \cup {NULL})
    BY DEF TypeInv
  <2> QED BY SMTT(20), <1>2, <2>1, <2>2, BoundsAssumption
<1> DEFINE m == <<q, fd>>
<1>5. m \in Proc \X (1..MaxFd) /\ m[1] = q /\ m[2] = fd
  BY SMTT(20), <1>4
<1> HIDE DEF m
<1>6. m \in Refs(fd_tab[q][fd].inode)
  BY <1>5 DEF Refs
<1> QED BY <1>2, <1>3, <1>4, <1>6 DEF m

\* A running program is a reference to its inode.
LEMMA ProgramIsRef ==
  ASSUME UseInv, NEW q \in Proc, exec_file[q] # NULL
  PROVE  /\ exec_file[q] \in File /\ exec_file[q].inode \in InodeId
         /\ q \in Runs(exec_file[q].inode)
<1>1. exec_file[q] \in File
  BY DEF UseInv, HandleInv
<1> QED BY <1>1 DEF File, Runs

\* The inodes of the running programs are open, and those of the open files are,
\* except for the file that is being closed.
LEMMA UsedIsOpen ==
  ASSUME Facts, TypeInv, UseInv, NEW p \in Proc, Actor(p), NEW i \in InodeId
  PROVE  /\ Runs(i) # {} => inode[i].open_cnt > 0
         /\ Refs(i) # {} /\ frame[p].op # "close" => inode[i].open_cnt > 0
         /\ 0 <= inode[i].deny_write_cnt /\ inode[i].deny_write_cnt <= inode[i].open_cnt
         /\ inode[i].open_cnt \in Nat
         /\ inode[i].open_cnt = 0 => inode[i].deny_write_cnt = 0
<1> DEFINE n == Cardinality(Refs(i))
           r == Cardinality(Runs(i))
           h == Held(pc[p], frame[p], i)
<1>1. inode[i].open_cnt = n + r + h /\ inode[i].deny_write_cnt = r
  BY DEF UseInv, CountInv
<1>2. /\ n \in Nat /\ r \in Nat
      /\ Refs(i) # {} => n > 0
      /\ Runs(i) # {} => r > 0
  BY CardinalRefs
<1>3. h \in Int /\ h >= -1 /\ (~ (frame[p].op = "close" /\ frame[p].closing = i) => h >= 0)
  BY HeldType
<1>4. frame[p].op = "close" /\ frame[p].closing = i => Refs(i) # {}
  <2>1. SUFFICES ASSUME frame[p].op = "close", frame[p].closing = i
                 PROVE  Refs(i) # {}
    OBVIOUS
  <2>2. FileRefInv(p, pc[p], frame[p])
    BY DEF UseInv
  <2>3. frame[p].fd \in OpenFd(p) /\ fd_tab[p][frame[p].fd].inode = i
    BY <2>1, <2>2 DEF FileRefInv
  <2>4. <<p, frame[p].fd>> \in Refs(fd_tab[p][frame[p].fd].inode)
    BY <2>3, OpenFdIsRef
  <2> QED BY <2>3, <2>4
<1> HIDE DEF n, r, h
<1> QED BY SMTT(20), <1>1, <1>2, <1>3, <1>4

\* Where nobody closes a file, the inodes of all files that are open are open.
LEMMA HandlesAreOpen ==
  ASSUME Facts, TypeInv, UseInv, NEW p \in Proc, Actor(p), NEW q \in Proc
  PROVE  /\ \A fd \in OpenFd(q) : frame[p].op # "close" => inode[fd_tab[q][fd].inode].open_cnt > 0
         /\ exec_file[q] # NULL => inode[exec_file[q].inode].open_cnt > 0
<1>1. ASSUME NEW fd \in OpenFd(q), frame[p].op # "close"
      PROVE  inode[fd_tab[q][fd].inode].open_cnt > 0
  <2>1. fd_tab[q][fd].inode \in InodeId /\ Refs(fd_tab[q][fd].inode) # {}
    BY OpenFdIsRef
  <2> QED BY <1>1, <2>1, UsedIsOpen
<1>2. ASSUME exec_file[q] # NULL
      PROVE  inode[exec_file[q].inode].open_cnt > 0
  <2>1. exec_file[q].inode \in InodeId /\ Runs(exec_file[q].inode) # {}
    BY <1>2, ProgramIsRef
  <2> QED BY <2>1, UsedIsOpen
<1> QED BY <1>1, <1>2
-----------------------------------------------------------------------------
(***************************************************************************)
(* One step of the process that is in a call.                              *)
(***************************************************************************)

\* The other processes are as they were.
OthersKept(p) ==
  \A q \in Proc \ {p} : /\ pc'[q] = pc[q] /\ frame'[q] = frame[q]
                        /\ fd_tab'[q] = fd_tab[q] /\ exec_file'[q] = exec_file[q]

\* No file that is open becomes the root directory.
FilesStayFiles(p) ==
  \A i \in InodeId :
    NotRoot(i) /\ (frame[p].op = "close" \/ inode[i].open_cnt > 0) => NotRoot(i)'

\* While P is the actor, the others are in no call.
LEMMA Alone ==
  ASSUME OneCall, NEW p \in Proc, Actor(p), NEW q \in Proc \ {p}
  PROVE  pc[q] \in {"none", "user"}
  BY DEF OneCall, Actor, InCall

\* The files of a process that the step does not open or close.
LEMMA HandlesKept ==
  ASSUME Facts, TypeInv, UseInv, NEW p \in Proc, Actor(p), FilesStayFiles(p), NEW q \in Proc,
         fd_tab'[q] = fd_tab[q], exec_file'[q] = exec_file[q]
  PROVE  HandleInv(q)'
<1>1. HandleInv(q)
  BY DEF UseInv
<1>2. OpenFd(q)' = OpenFd(q)
  BY DEF OpenFd
<1>3. ASSUME NEW fd \in OpenFd(q)
      PROVE  fd_tab'[q][fd] \in File /\ NotRoot(fd_tab[q][fd].inode)'
  <2>1. NotRoot(fd_tab[q][fd].inode) /\ fd_tab[q][fd] \in File
    BY <1>1 DEF HandleInv
  <2>2. fd_tab[q][fd].inode \in InodeId
    BY <2>1 DEF File
  <2>3. frame[p].op = "close" \/ inode[fd_tab[q][fd].inode].open_cnt > 0
    BY HandlesAreOpen
  <2> QED BY <2>1, <2>2, <2>3 DEF FilesStayFiles, NotRoot
<1>4. ASSUME exec_file[q] # NULL
      PROVE  exec_file'[q] \in File /\ NotRoot(exec_file[q].inode)'
  <2>1. NotRoot(exec_file[q].inode) /\ exec_file[q] \in File
    BY <1>1, <1>4 DEF HandleInv
  <2>2. exec_file[q].inode \in InodeId
    BY <2>1 DEF File
  <2>3. inode[exec_file[q].inode].open_cnt > 0
    BY <1>4, HandlesAreOpen
  <2> QED BY <2>1, <2>2, <2>3 DEF FilesStayFiles, NotRoot
<1> QED BY <1>1, <1>2, <1>3, <1>4 DEF HandleInv

\* What the others rely on is left alone, so it is enough to look at P.
LEMMA UseKeeps ==
  ASSUME Facts, FileSysInv, UseInv, NEW p \in Proc, Actor(p), OthersKept(p), FilesStayFiles(p),
         DataInv', HandleInv(p)', FileRefInv(p, pc[p], frame[p])', NewFileInv(pc[p], frame[p])',
         CountInv(p)'
  PROVE  UseInv'
<1> USE DEF FileSysInv
<1>1. ASSUME NEW q \in Proc \ {p}
      PROVE  /\ HandleInv(q)' /\ FileRefInv(q, pc[q], frame[q])' /\ NewFileInv(pc[q], frame[q])'
             /\ pc'[q] \in {"none", "user"} /\ frame'[q].op # "close"
  <2>1. /\ pc'[q] = pc[q] /\ frame'[q] = frame[q] /\ fd_tab'[q] = fd_tab[q]
        /\ exec_file'[q] = exec_file[q] /\ pc[q] \in {"none", "user"}
    BY Alone DEF OthersKept
  <2>2. FileRefInv(q, pc[q], frame[q]) /\ NewFileInv(pc[q], frame[q])
    BY DEF UseInv
  <2>3. frame[q].op # "close"
    BY <2>1, <2>2 DEF FileRefInv, Closing
  <2>4. HandleInv(q)'
    BY <2>1, HandlesKept
  <2>5. FileRefInv(q, pc[q], frame[q])'
    BY <2>1, <2>2, <2>3 DEF FileRefInv, HoldsFile, Closing
  <2>6. NewFileInv(pc[q], frame[q])'
    BY <2>1, <2>2 DEF NewFileInv, Allocating, Opening
  <2> QED BY <2>1, <2>3, <2>4, <2>5, <2>6
<1>2. ASSUME NEW q \in Proc, Actor(q)'
      PROVE  CountInv(q)'
  <2>1. CASE q = p
    BY <2>1
  <2>2. CASE q # p
    <3>1. pc'[q] \in {"none", "user"} /\ frame'[q].op # "close"
      BY <1>1, <2>2
    <3>2. pc'[p] \in {"none", "user"}
      BY <1>2, <3>1 DEF Actor, InCall
    <3>3. frame'[p].op # "close"
      BY <3>2 DEF FileRefInv, Closing
    <3>4. \A i : Held(pc'[q], frame'[q], i) = 0 /\ Held(pc'[p], frame'[p], i) = 0
      BY SMTT(20), <3>1, <3>2, <3>3, HeldByNobody
    <3>5. \A i : Held(pc[q], frame[q], i)' = Held(pc[p], frame[p], i)'
      BY <3>4
    <3> QED BY <3>1, <3>2, <3>5 DEF CountInv
  <2> QED BY <2>1, <2>2
<1> QED BY <1>1, <1>2 DEF UseInv

\* The locals of P refer to the inodes that they referred to before.
SameHeld(p, l, f) == \A i \in InodeId : Held(l, f, i) = Held(pc[p], frame[p], i)

\* A step that changes neither struct inodes nor files.  Its new locals refer to
\* the inodes that the old ones did.
LEMMA UseSame ==
  ASSUME Facts, FileSysInv, UseInv, NEW p \in Proc, Actor(p), pc[p] # "inode_free",
         UNCHANGED <<inodeVars, fileVars>>, NEW l, NEW f, Goto(p, l, f),
         SameHeld(p, l, f), DataInv', FileRefInv(p, l, f), NewFileInv(l, f)'
  PROVE  UseInv'
<1>1. /\ pc'[p] = l /\ frame'[p] = f
      /\ OthersKept(p)
  BY DEF Goto, FileSysInv, TypeInv, OthersKept, fileVars
<1>2. FilesStayFiles(p)
  BY DEF FilesStayFiles, NotRoot, inodeVars
<1>3. HandleInv(p)'
  BY <1>2, HandlesKept DEF fileVars, FileSysInv
<1>4. FileRefInv(p, pc[p], frame[p])'
  BY <1>1 DEF FileRefInv, NotRoot, OpenFd, inodeVars, fileVars
<1>5. NewFileInv(pc[p], frame[p])'
  BY <1>1 DEF NewFileInv
<1>6. CountInv(p)'
  <2>1. CountInv(p)
    BY DEF UseInv
  <2>2. \A i : Refs(i)' = Refs(i) /\ Runs(i)' = Runs(i)
    BY DEF Refs, Runs, OpenFd, fileVars
  <2>3. \A i \in InodeId : Held(pc[p], frame[p], i)' = Held(pc[p], frame[p], i)
    BY <1>1 DEF SameHeld
  <2> QED BY <2>1, <2>2, <2>3 DEF CountInv, inodeVars
<1> QED BY <1>1, <1>2, <1>3, <1>4, <1>5, <1>6, UseKeeps

\* One that does not write inodes or data to the disk either.
LEMMA UseQuiet ==
  ASSUME Facts, FileSysInv, UseInv, NEW p \in Proc, Actor(p), pc[p] # "inode_free",
         UNCHANGED <<disk_inode, disk_data, inodeVars, fileVars>>,
         NEW l, NEW f, Goto(p, l, f), SameHeld(p, l, f), FileRefInv(p, l, f), NewFileInv(l, f)
  PROVE  UseInv'
<1>1. DataInv'
  BY DEF DataInv, UseInv
<1>2. NewFileInv(l, f)'
  BY DEF NewFileInv
<1> QED BY <1>1, <1>2, UseSame
-----------------------------------------------------------------------------
(***************************************************************************)
(* The steps that change neither struct inodes nor files.                  *)
(***************************************************************************)

\* A call begins.
LEMMA BeginUse ==
  ASSUME Facts, FileSysInv, UseInv, NEW p \in Proc, Actor(p),
         \/ syscall_create(p) \/ syscall_remove(p) \/ syscall_open(p) \/ load(p)
         \/ syscall_read(p) \/ syscall_write(p) \/ syscall_close(p) \/ syscall_exit(p)
  PROVE  UseInv'
<1>1. pc[p] \in {"none", "user"}
  BY DEF syscall_create, syscall_remove, syscall_open, load, syscall_read, syscall_write,
         syscall_close, syscall_exit, MayCall, At
<1>2. frame[p].op # "close"
  BY <1>1 DEF UseInv, FileRefInv, Closing
<1>3. \A i : Held(pc[p], frame[p], i) = 0
  BY SMTT(20), <1>1, <1>2, HeldByNobody
<1>4. ASSUME NEW l, NEW f, Goto(p, l, f), UNCHANGED <<diskVars, inodeVars, fileVars>>,
             \A i \in InodeId : Held(l, f, i) = 0, FileRefInv(p, l, f), NewFileInv(l, f)
      PROVE  UseInv'
  <2>1. UNCHANGED <<disk_inode, disk_data>>
    BY <1>4 DEF diskVars
  <2> QED BY <1>1, <1>3, <1>4, <2>1, UseQuiet DEF SameHeld
\* A call that opens the directory.
<1>5. ASSUME NEW g, Goto(p, "inode_open", g), g.op # "close", g.ret = "dir_open", g.done = 0,
             g.op = "create" => g.size \in FileSize, g.op = "open" => Len(fd_tab[p]) < MaxFd,
             g.op = "load" => exec_file[p] = NULL, UNCHANGED <<diskVars, inodeVars, fileVars>>
      PROVE  UseInv'
  <2>1. \A i \in InodeId : Held("inode_open", g, i) = 0
    BY SMTT(20), <1>5 DEF Held, Points, HoldsDir, HoldsInode, Opening, Closing, Allocating
  <2>2. FileRefInv(p, "inode_open", g)
    BY <1>5 DEF FileRefInv, HoldsFile, Closing
  <2>3. NewFileInv("inode_open", g)
    <3>1. g.done >= 0
      BY SMTT(20), <1>5
    <3> QED BY <1>5, <3>1 DEF NewFileInv, Allocating, Opening
  <2> QED BY <1>4, <1>5, <2>1, <2>2, <2>3
<1>6. CASE syscall_create(p)
  <2>1. PICK name \in Name, size \in FileSize :
          CallInodeOpen(p, [NoFrame EXCEPT !.op = "create", !.name = name, !.size = size],
                        ROOT_DIR_SECTOR, "dir_open")
    BY <1>6 DEF syscall_create
  <2> DEFINE g == [[NoFrame EXCEPT !.op = "create", !.name = name, !.size = size]
                     EXCEPT !.sector = ROOT_DIR_SECTOR, !.ret = "dir_open"]
  <2>2. g.op = "create" /\ g.size = size /\ g.ret = "dir_open" /\ g.done = 0
    BY DEF NoFrame
  <2>3. Goto(p, "inode_open", g) /\ UNCHANGED <<diskVars, inodeVars, fileVars>>
    BY <1>6, <2>1 DEF syscall_create, memVars, CallInodeOpen
  <2> HIDE DEF g
  <2> QED BY <1>5, <2>2, <2>3
<1>7. ASSUME NEW op \in {"remove", "open", "load"}, NEW name,
             op = "open" => Len(fd_tab[p]) < MaxFd, op = "load" => exec_file[p] = NULL,
             CallInodeOpen(p, [NoFrame EXCEPT !.op = op, !.name = name],
                           ROOT_DIR_SECTOR, "dir_open"),
             UNCHANGED <<diskVars, inodeVars, fileVars>>
      PROVE  UseInv'
  <2> DEFINE g == [[NoFrame EXCEPT !.op = op, !.name = name]
                     EXCEPT !.sector = ROOT_DIR_SECTOR, !.ret = "dir_open"]
  <2>1. g.op = op /\ g.ret = "dir_open" /\ g.done = 0
    BY DEF NoFrame
  <2>2. Goto(p, "inode_open", g)
    BY <1>7 DEF CallInodeOpen
  <2> HIDE DEF g
  <2> QED BY <1>5, <1>7, <2>1, <2>2
<1>8. CASE syscall_remove(p)
  BY <1>7, <1>8 DEF syscall_remove, memVars
<1>9. CASE syscall_open(p)
  BY <1>7, <1>9 DEF syscall_open
<1>10. CASE load(p)
  <2>1. exec_file[p] = NULL
    BY <1>10 DEF load, MayCall, At, UseInv, FileRefInv
  <2> QED BY <1>7, <1>10, <2>1 DEF load
\* A call that reads or writes.
<1>11. ASSUME NEW l \in {"inode_read_at", "inode_write_at"}, NEW fd, NEW size,
              Goto(p, l, [NoFrame EXCEPT !.fd = fd, !.size = size]),
              UNCHANGED <<diskVars, inodeVars, fileVars>>
       PROVE  UseInv'
  <2> DEFINE g == [NoFrame EXCEPT !.fd = fd, !.size = size]
  <2>1. g.op = "none" /\ g.done = 0
    BY DEF NoFrame
  <2>2. Goto(p, l, g)
    BY <1>11
  <2> HIDE DEF g
  <2>3. \A i \in InodeId : Held(l, g, i) = 0
    BY <2>1, HeldByNobody
  <2>4. g.done >= 0 /\ ~ (g.done > 0)
    BY SMTT(20), <2>1
  <2>5. FileRefInv(p, l, g)
    BY <2>1, <2>4 DEF FileRefInv, HoldsFile, Closing
  <2>6. NewFileInv(l, g)
    BY <2>1, <2>4 DEF NewFileInv, Allocating, Opening
  <2> QED BY <1>4, <1>11, <2>2, <2>3, <2>5, <2>6
<1>12. CASE syscall_read(p)
  BY <1>11, <1>12 DEF syscall_read
<1>13. CASE syscall_write(p)
  BY <1>11, <1>13 DEF syscall_write
<1>14. CASE syscall_close(p)
  <2>1. PICK fd \in OpenFd(p) :
          CallInodeClose(p, [NoFrame EXCEPT !.op = "close", !.fd = fd], fd_tab[p][fd].inode,
                         "return")
    BY <1>14 DEF syscall_close
  <2> DEFINE g == [[NoFrame EXCEPT !.op = "close", !.fd = fd]
                     EXCEPT !.closing = fd_tab[p][fd].inode, !.ret = "return"]
  <2>2. /\ g.op = "close" /\ g.fd = fd /\ g.closing = fd_tab[p][fd].inode /\ g.ret = "return"
        /\ g.done = 0
    BY DEF NoFrame
  <2>3. Goto(p, "inode_close", g) /\ UNCHANGED <<diskVars, inodeVars, fileVars>>
    BY <1>14, <2>1 DEF syscall_close, CallInodeClose, memVars
  <2> HIDE DEF g
  <2>4. \A i \in InodeId : Held("inode_close", g, i) = 0
    BY SMTT(20), <2>2 DEF Held, Points, HoldsDir, HoldsInode, Opening, Closing, Allocating
  <2>5. g.done >= 0
    BY SMTT(20), <2>2
  <2>6. FileRefInv(p, "inode_close", g)
    BY <2>2 DEF FileRefInv, HoldsFile, Closing
  <2>7. NewFileInv("inode_close", g)
    BY <2>2, <2>5 DEF NewFileInv, Allocating, Opening
  <2> QED BY <1>4, <2>3, <2>4, <2>6, <2>7
<1>15. CASE syscall_exit(p)
  <2>1. NoFrame.op = "none" /\ NoFrame.done = 0
    BY DEF NoFrame
  <2>2. NoFrame.done >= 0
    BY SMTT(20), <2>1
  <2>3. Goto(p, "exit", NoFrame) /\ UNCHANGED <<diskVars, inodeVars, fileVars>>
    BY <1>15 DEF syscall_exit, Return, memVars
  <2>4. \A i \in InodeId : Held("exit", NoFrame, i) = 0
    BY <2>1, HeldByNobody
  <2>5. FileRefInv(p, "exit", NoFrame)
    BY <2>1 DEF FileRefInv, HoldsFile, Closing
  <2>6. NewFileInv("exit", NoFrame)
    BY <2>1, <2>2 DEF NewFileInv, Allocating, Opening
  <2> QED BY <1>4, <2>3, <2>4, <2>5, <2>6
<1> QED BY <1>6, <1>8, <1>9, <1>10, <1>12, <1>13, <1>14, <1>15

\* What P knows before it goes on.
LEMMA UseFacts ==
  ASSUME FileSysInv, UseInv, NEW p \in Proc
  PROVE  /\ frame[p] \in Locals
         /\ FileRefInv(p, pc[p], frame[p]) /\ NewFileInv(pc[p], frame[p])
         /\ OpeningInv(p) /\ ClosingInv(p) /\ CreateInv(p)
         /\ pc[p] \notin Closing \cup {"return"} => frame[p].op # "close"
<1>1. /\ frame[p] \in Locals
      /\ FileRefInv(p, pc[p], frame[p]) /\ NewFileInv(pc[p], frame[p])
      /\ OpeningInv(p) /\ ClosingInv(p) /\ CreateInv(p)
  BY DEF FileSysInv, TypeInv, UseInv, CallInv
<1> QED BY <1>1 DEF FileRefInv

\* A call goes on at a point where it holds the directory, as it did.
DirLabel == {"inode_create", "write_inode", "write_zeros", "dir_add", "dir_write", "rollback",
             "dir_lookup", "dir_remove", "dir_close"} \cup Allocating

\* Where a call has one to the directory only.
LEMMA HeldDir ==
  ASSUME NEW l \in DirLabel, NEW f, f.op # "close", NEW i
  PROVE  Held(l, f, i) = Points(f.dir, i)
<1>1. HoldsDir(l, f) /\ ~ HoldsInode(l, f) /\ l # "inode_close"
  BY DEF DirLabel, HoldsDir, HoldsInode, Opening, Closing, Allocating
<1> QED BY SMTT(20), <1>1 DEF Held, Points

\* And inside inode_open().
LEMMA HeldOpening ==
  ASSUME NEW l \in {"inode_open", "inode_alloc"}, NEW f, f.op # "close", NEW i
  PROVE  /\ f.ret # "dir_open" => Held(l, f, i) = Points(f.dir, i)
         /\ f.ret = "dir_open" => Held(l, f, i) = 0
         /\ f.ret # "dir_open" =>
              Held("inode_read", f, i) = Points(f.dir, i) + Points(f.inode, i)
         /\ f.ret = "dir_open" => Held("inode_read", f, i) = Points(f.inode, i)
<1>1. /\ HoldsDir(l, f) <=> f.ret # "dir_open"
      /\ HoldsDir("inode_read", f) <=> f.ret # "dir_open"
      /\ ~ HoldsInode(l, f) /\ l # "inode_close" /\ HoldsInode("inode_read", f)
  BY DEF HoldsDir, HoldsInode, Opening, Closing, Allocating
<1> QED BY SMTT(20), <1>1 DEF Held, Points

\* The places where that is so and calls return to.
LEMMA DirLabels ==
  {"allocate", "dir_lookup", "dir_remove", "dir_close"} \subseteq DirLabel
  BY DEF DirLabel, Allocating

\* inode_close() is called for a reference that the frame holds no longer.
LEMMA HeldClosing ==
  ASSUME NEW f, f.op # "close", NEW i
  PROVE  /\ f.ret \in {"return", "exit"} => Held("inode_close", f, i) = Points(f.closing, i)
         /\ f.ret = "dir_close" =>
              Held("inode_close", f, i) = Points(f.dir, i) + Points(f.closing, i)
         /\ f.ret = "file_open" =>
              Held("inode_close", f, i) = Points(f.inode, i) + Points(f.closing, i)
<1>1. /\ ~ HoldsDir("inode_close", f) \/ f.ret = "dir_close"
      /\ f.ret = "dir_close" => HoldsDir("inode_close", f)
      /\ ~ HoldsInode("inode_close", f) \/ f.ret = "file_open"
      /\ f.ret = "file_open" => HoldsInode("inode_close", f)
  BY DEF HoldsDir, HoldsInode, Opening, Closing, Allocating
<1> QED BY SMTT(20), <1>1 DEF Held, Points

\* And where it holds both.
LEMMA HeldBoth ==
  ASSUME NEW l \in {"lookup_done", "erase_entry", "inode_remove"}, NEW f, f.op # "close", NEW i
  PROVE  Held(l, f, i) = Points(f.dir, i) + Points(f.inode, i)
<1>1. HoldsDir(l, f) /\ HoldsInode(l, f) /\ l # "inode_close"
  BY DEF HoldsDir, HoldsInode, Opening, Closing, Allocating
<1> QED BY SMTT(20), <1>1 DEF Held, Points

\* Or an inode alone.
LEMMA HeldInode ==
  ASSUME NEW l \in {"dir_open", "file_open", "deny_write"}, NEW f, f.op # "close", NEW i
  PROVE  Held(l, f, i) = Points(f.inode, i)
<1>1. ~ HoldsDir(l, f) /\ HoldsInode(l, f) /\ l # "inode_close"
  BY DEF HoldsDir, HoldsInode, Opening, Closing, Allocating
<1> QED BY SMTT(20), <1>1 DEF Held, Points

\* NULL is no inode.
LEMMA PointsType ==
  ASSUME NEW i \in InodeId
  PROVE  /\ Points(NULL, i) = 0
         /\ \A x : Points(x, i) \in Int /\ Points(x, i) + Points(NULL, i) = Points(x, i)
         /\ \A x, y : Points(x, i) + Points(y, i) = Points(y, i) + Points(x, i)
<1>1. NULL # i
  BY NullAssumption
<1> QED BY SMTT(20), <1>1 DEF Points

\* The steps of create that write neither an inode nor data to the disk.
LEMMA CreateUse ==
  ASSUME Facts, FileSysInv, UseInv, NEW p \in Proc, Actor(p),
         \/ allocate_scan(p) \/ allocate_mark(p) \/ inode_create(p) \/ dir_add(p) \/ dir_write(p)
         \/ rollback(p) \/ (write_inode(p) /\ frame[p].start = BITMAP_ERROR)
         \/ (write_zeros(p) /\ ~ (frame[p].done < frame[p].cnt))
  PROVE  UseInv'
<1> DEFINE f == frame[p]
<1>1. f \in Locals /\ FileRefInv(p, pc[p], f) /\ NewFileInv(pc[p], f) /\ CreateInv(p)
  BY UseFacts
<1>2. pc[p] \in DirLabel
  BY DEF allocate_scan, allocate_mark, inode_create, dir_add, dir_write, rollback, write_inode,
         write_zeros, At, DirLabel, Allocating
<1>3. f.op # "close"
  BY <1>2, UseFacts DEF DirLabel, Closing, Allocating
<1>4. \A i : Held(pc[p], f, i) = Points(f.dir, i)
  BY <1>2, <1>3, HeldDir
<1>5. UNCHANGED <<disk_inode, disk_data, inodeVars, fileVars>>
  BY DEF allocate_scan, allocate_mark, inode_create, dir_add, dir_write, rollback, write_inode,
         write_zeros, diskVars, memVars
<1> HIDE DEF f
<1>6. ASSUME NEW l \in DirLabel \ {"dir_lookup"}, NEW g, Goto(p, l, g), g.op = f.op,
             g.dir = f.dir, NewFileInv(l, g)
      PROVE  UseInv'
  <2>1. FileRefInv(p, l, g)
    BY <1>1, <1>3, <1>6 DEF FileRefInv, HoldsFile, DirLabel, Allocating, Closing
  <2>2. \A i \in InodeId : Held(l, g, i) = Held(pc[p], f, i)
    <3>1. l \in DirLabel /\ g.op # "close"
      BY <1>3, <1>6
    <3> QED BY SMTT(20), <1>4, <1>6, <3>1, HeldDir
  <2>3. pc[p] # "inode_free"
    BY <1>2 DEF DirLabel, Allocating
  <2> QED BY <1>5, <1>6, <2>1, <2>2, <2>3, UseQuiet DEF f, SameHeld
<1>7. ASSUME NEW l \in {"rollback", "dir_close"}, NEW g, Goto(p, l, g), g.op = f.op,
             g.dir = f.dir, g.done = f.done, g.size = f.size
      PROVE  UseInv'
  <2>1. NewFileInv(l, g)
    BY <1>1, <1>7 DEF NewFileInv, Allocating, Opening
  <2>2. l \in DirLabel \ {"dir_lookup"}
    BY <1>7 DEF DirLabel
  <2> QED BY <1>6, <1>7, <2>1, <2>2
\* The allocation, which leaves everything but the start as it was.
<1>8. ASSUME pc[p] \in Allocating,
             NEW l \in {f.ret, "allocate_mark"}, NEW s, Goto(p, l, [f EXCEPT !.start = s])
      PROVE  UseInv'
  <2> DEFINE g == [f EXCEPT !.start = s]
  <2>1. g.op = f.op /\ g.dir = f.dir /\ g.done = f.done /\ g.size = f.size
    BY <1>1 DEF Locals
  <2>2. Goto(p, l, g)
    BY <1>8
  <2> HIDE DEF g
  <2>3. f.ret \in {"inode_create", "write_inode"}
    BY <1>1, <1>8 DEF CreateInv, f
  <2>4. f.op = "create" /\ f.done = 0 /\ f.done >= 0 /\ f.size \in FileSize
    BY <1>1, <1>8 DEF NewFileInv
  <2>5. NewFileInv(l, g)
    BY <1>8, <2>1, <2>3, <2>4 DEF NewFileInv, Allocating, Opening
  <2>6. l \in DirLabel \ {"dir_lookup"}
    BY <1>8, <2>3 DEF DirLabel, Allocating
  <2> QED BY <1>6, <2>1, <2>2, <2>5, <2>6
<1>9. CASE allocate_scan(p)
  BY <1>8, <1>9 DEF allocate_scan, At, Allocating, f
<1>10. CASE allocate_mark(p)
  <2>1. pc[p] = "allocate_mark"
    BY <1>10 DEF allocate_mark, At
  <2>2. Goto(p, f.ret, f) \/ Goto(p, f.ret, [f EXCEPT !.start = BITMAP_ERROR])
    BY <1>10 DEF allocate_mark, f
  <2>3. f = [f EXCEPT !.start = f.start]
    BY <1>1 DEF Locals
  <2> QED BY <1>8, <2>1, <2>2, <2>3 DEF Allocating
<1>11. CASE inode_create(p)
  <2> DEFINE h == [f EXCEPT !.inode_sector = f.start]
             g == [h EXCEPT !.cnt = bytes_to_sectors(f.size), !.ret = "write_inode"]
  <2>1. pc[p] = "inode_create"
    BY <1>11 DEF inode_create, At
  <2>2. /\ h.op = f.op /\ h.dir = f.dir /\ h.done = f.done /\ h.size = f.size /\ h.start = f.start
        /\ g.op = f.op /\ g.dir = f.dir /\ g.done = f.done /\ g.size = f.size
    BY <1>1 DEF Locals
  <2>3. \/ Goto(p, "dir_close", f)
        \/ CallAllocate(p, h, bytes_to_sectors(h.size), "write_inode")
        \/ Goto(p, "rollback", h)
    BY <1>11 DEF inode_create, f
  <2>4. Goto(p, "dir_close", f) \/ Goto(p, "allocate", g) \/ Goto(p, "rollback", h)
    BY <2>2, <2>3 DEF CallAllocate
  <2> HIDE DEF h, g
  <2>5. NewFileInv("allocate", g)
    BY <1>1, <2>1, <2>2 DEF NewFileInv, Allocating, Opening
  <2>6. "allocate" \in DirLabel \ {"dir_lookup"}
    BY DEF DirLabel, Allocating
  <2> QED BY <1>6, <1>7, <2>2, <2>4, <2>5, <2>6
<1>12. CASE dir_add(p)
  <2>1. pc[p] = "dir_add"
    BY <1>12 DEF dir_add, At
  <2>2. PICK slot : \/ Goto(p, "rollback", f)
                    \/ f.name \in ValidName /\ Goto(p, "dir_write", [f EXCEPT !.slot = slot])
    BY <1>12 DEF dir_add, f
  <2> DEFINE g == [f EXCEPT !.slot = slot]
  <2>3. /\ g.op = f.op /\ g.dir = f.dir /\ g.done = f.done /\ g.size = f.size /\ g.cnt = f.cnt
        /\ g.start = f.start /\ g.inode_sector = f.inode_sector /\ g.name = f.name
    BY <1>1 DEF Locals
  <2>4. \/ Goto(p, "rollback", f)
        \/ f.name \in ValidName /\ Goto(p, "dir_write", g)
    BY <2>2
  <2> HIDE DEF g
  <2>5. f.name \in ValidName => NewFileInv("dir_write", g)
    BY <1>1, <2>1, <2>3 DEF NewFileInv, Allocating, Opening
  <2>6. "dir_write" \in DirLabel \ {"dir_lookup"}
    BY DEF DirLabel
  <2> QED BY <1>6, <1>7, <2>3, <2>4, <2>5, <2>6
<1>13. CASE dir_write(p)
  BY <1>7, <1>13 DEF dir_write, f
<1>14. CASE rollback(p)
  BY <1>7, <1>14 DEF rollback, f
<1>15. CASE write_inode(p) /\ f.start = BITMAP_ERROR
  BY <1>7, <1>15 DEF write_inode, f
<1>16. CASE write_zeros(p) /\ ~ (f.done < f.cnt)
  <2>1. pc[p] = "write_zeros" /\ Goto(p, "dir_add", f)
    BY <1>16 DEF write_zeros, At, f
  <2>2. f.done >= f.cnt
    BY SMTT(20), <1>1, <1>16 DEF Locals
  <2>3. NewFileInv("dir_add", f)
    BY <1>1, <2>1, <2>2 DEF NewFileInv, Allocating, Opening
  <2>4. "dir_add" \in DirLabel \ {"dir_lookup"}
    BY DEF DirLabel
  <2> QED BY <1>6, <2>1, <2>3, <2>4
<1> QED BY <1>9, <1>10, <1>11, <1>12, <1>13, <1>14, <1>15, <1>16 DEF f

\* The searches of the directory, and the ends of open and remove.
LEMMA DirectoryUse ==
  ASSUME Facts, FileSysInv, UseInv, NEW p \in Proc, Actor(p),
         \/ dir_open(p) \/ dir_close(p) \/ dir_lookup(p) \/ lookup_done(p) \/ dir_remove(p)
         \/ erase_entry(p)
  PROVE  UseInv'
<1> DEFINE f == frame[p]
<1>1. f \in Locals /\ FileRefInv(p, pc[p], f) /\ NewFileInv(pc[p], f)
  BY UseFacts
<1>2. pc[p] \in {"dir_open", "dir_close", "dir_lookup", "lookup_done", "dir_remove", "erase_entry"}
  BY DEF dir_open, dir_close, dir_lookup, lookup_done, dir_remove, erase_entry, At
<1>3. f.op # "close"
  BY <1>2, UseFacts DEF Closing
<1>4. UNCHANGED <<disk_inode, disk_data, inodeVars, fileVars>>
  BY DEF dir_open, dir_close, dir_lookup, lookup_done, dir_remove, erase_entry, diskVars, memVars
<1> HIDE DEF f
<1>5. f.done >= 0 /\ (f.op = "create" => f.size \in FileSize)
  BY <1>1 DEF NewFileInv
<1>6. ASSUME NEW l, NEW g, Goto(p, l, g), g.op = f.op, g.done = f.done, g.size = f.size,
             l = "inode_open" => g.ret # "dir_open", l = "dir_lookup" => g.inode = NULL,
             l \in {"dir_close", "dir_lookup", "dir_remove", "lookup_done", "inode_open",
                    "inode_close", "inode_remove"},
             \A i \in InodeId : Held(l, g, i) = Held(pc[p], f, i),
             HoldsFile(l, g) /\ g.inode # NULL => NotRoot(g.inode)
      PROVE  UseInv'
  <2>1. FileRefInv(p, l, g)
    <3>1. l # "inode_write_at" /\ g.op # "close"
      BY <1>3, <1>6
    <3>2. g.op = "open" => Len(fd_tab[p]) < MaxFd
      BY <1>1, <1>6 DEF FileRefInv
    <3>3. l \notin {"none", "deny_write"} /\ (g.op = "load" => exec_file[p] = NULL)
      BY <1>1, <1>6 DEF FileRefInv
    <3> QED BY <1>6, <3>1, <3>2, <3>3 DEF FileRefInv
  <2>2. NewFileInv(l, g)
    BY <1>5, <1>6 DEF NewFileInv, Allocating, Opening
  <2>3. pc[p] # "inode_free"
    BY <1>2
  <2> QED BY <1>4, <1>6, <2>1, <2>2, <2>3, UseQuiet DEF f, SameHeld
<1>7. CASE dir_open(p)
  <2>1. pc[p] = "dir_open"
    BY <1>7 DEF dir_open, At
  <2>2. \A i : Held(pc[p], f, i) = Points(f.inode, i)
    BY SMTT(20), <1>3, <2>1, HeldInode
  <2> DEFINE g == [f EXCEPT !.dir = f.inode, !.inode = NULL]
             c == [[g EXCEPT !.dir = NULL] EXCEPT !.closing = g.dir, !.ret = "return"]
             a == [g EXCEPT !.cnt = 1, !.ret = "inode_create"]
  <2>3. /\ g.op = f.op /\ g.done = f.done /\ g.size = f.size /\ g.dir = f.inode /\ g.inode = NULL
        /\ c.op = f.op /\ c.done = f.done /\ c.size = f.size /\ c.closing = f.inode
        /\ c.ret = "return"
        /\ a.op = f.op /\ a.done = f.done /\ a.size = f.size /\ a.dir = f.inode
    BY <1>1 DEF Locals
  <2>4. \/ Goto(p, "inode_close", c)
        \/ f.op = "create" /\ Goto(p, "allocate", a)
        \/ Goto(p, "dir_remove", g) \/ Goto(p, "dir_lookup", g)
    <3>1. \/ CallInodeClose(p, [g EXCEPT !.dir = NULL], g.dir, "return")
          \/ g.op = "create" /\ CallAllocate(p, g, 1, "inode_create")
          \/ Goto(p, IF g.op = "remove" THEN "dir_remove" ELSE "dir_lookup", g)
      BY <1>7 DEF dir_open, f
    <3> QED BY <2>3, <3>1 DEF CallInodeClose, CallAllocate
  <2> HIDE DEF g, c, a
  <2>5. CASE Goto(p, "inode_close", c)
    <3>1. \A i \in InodeId : Held("inode_close", c, i) = Held(pc[p], f, i)
      BY <1>3, <2>2, <2>3, HeldClosing
    <3>2. ~ HoldsFile("inode_close", c)
      BY <2>3 DEF HoldsFile
    <3> QED BY SMTT(20), <1>6, <2>3, <2>5, <3>1, <3>2
  <2>6. CASE f.op = "create" /\ Goto(p, "allocate", a)
    <3>1. \A i \in InodeId : Held("allocate", a, i) = Held(pc[p], f, i)
      <4>1. a.op # "close" /\ a.dir = f.inode
        BY <1>3, <2>3
      <4>2. "allocate" \in DirLabel
        BY DirLabels
      <4> QED BY SMTT(20), <2>2, <4>1, <4>2, HeldDir
    <3>2. FileRefInv(p, "allocate", a)
      BY <1>1, <1>3, <2>3 DEF FileRefInv, HoldsFile, Closing
    <3>3. NewFileInv("allocate", a)
      BY <1>1, <1>5, <2>1, <2>3, <2>6 DEF NewFileInv, Allocating, Opening
    <3> QED BY <1>4, <2>1, <2>6, <3>1, <3>2, <3>3, UseQuiet DEF f, SameHeld
  <2>7. ASSUME NEW l \in {"dir_remove", "dir_lookup"}, Goto(p, l, g)
        PROVE  UseInv'
    <3>1. \A i \in InodeId : Held(l, g, i) = Held(pc[p], f, i)
      <4>1. g.op # "close" /\ g.dir = f.inode /\ l \in DirLabel
        BY <1>3, <2>3, <2>7, DirLabels
      <4> QED BY SMTT(20), <2>2, <4>1, HeldDir
    <3>2. ~ HoldsFile(l, g)
      BY <2>7 DEF HoldsFile, Closing
    <3> QED BY SMTT(20), <1>6, <2>3, <2>7, <3>1, <3>2
  <2> QED BY <2>4, <2>5, <2>6, <2>7
<1>8. CASE dir_close(p)
  <2>1. pc[p] = "dir_close"
    BY <1>8 DEF dir_close, At
  <2>2. \A i : Held(pc[p], f, i) = Points(f.dir, i)
    BY <1>3, <2>1, HeldDir, DirLabels
  <2> DEFINE c == [f EXCEPT !.closing = f.dir, !.ret = "return"]
  <2>3. c.op = f.op /\ c.done = f.done /\ c.size = f.size /\ c.closing = f.dir /\ c.ret = "return"
    BY <1>1 DEF Locals
  <2>4. Goto(p, "inode_close", c)
    BY <1>8 DEF dir_close, CallInodeClose, f
  <2> HIDE DEF c
  <2>5. \A i \in InodeId : Held("inode_close", c, i) = Held(pc[p], f, i)
    BY <1>3, <2>2, <2>3, HeldClosing
  <2>6. ~ HoldsFile("inode_close", c)
    BY <2>3 DEF HoldsFile
  <2> QED BY SMTT(20), <1>6, <2>3, <2>4, <2>5, <2>6
<1>9. CASE dir_lookup(p) \/ dir_remove(p)
  <2>1. pc[p] \in {"dir_lookup", "dir_remove"}
    BY <1>9 DEF dir_lookup, dir_remove, At
  <2>2. \A i : Held(pc[p], f, i) = Points(f.dir, i)
    BY <1>3, <2>1, HeldDir, DirLabels
  <2>3. ASSUME NEW g, NEW s, NEW ret \in {"lookup_done", "erase_entry"}, CallInodeOpen(p, g, s, ret),
               NEW slot, g = f \/ g = [f EXCEPT !.slot = slot]
        PROVE  UseInv'
    <3> DEFINE o == [g EXCEPT !.sector = s, !.ret = ret]
    <3>1. o.op = f.op /\ o.done = f.done /\ o.size = f.size /\ o.dir = f.dir /\ o.ret = ret
      <4>1. CASE g = f
        BY <1>1, <4>1 DEF Locals
      <4>2. CASE g = [f EXCEPT !.slot = slot]
        BY <1>1, <4>2 DEF Locals
      <4> QED BY <2>3, <4>1, <4>2
    <3>2. Goto(p, "inode_open", o)
      BY <2>3 DEF CallInodeOpen
    <3> HIDE DEF o
    <3>3. \A i \in InodeId : Held("inode_open", o, i) = Held(pc[p], f, i)
      <4>1. o.op # "close" /\ o.ret # "dir_open"
        BY <1>3, <2>3, <3>1
      <4> QED BY SMTT(20), <2>2, <3>1, <4>1, HeldOpening
    <3>4. ~ HoldsFile("inode_open", o)
      BY DEF HoldsFile, Closing
    <3> QED BY SMTT(20), <1>6, <2>3, <3>1, <3>2, <3>3, <3>4
  <2>4. CASE dir_lookup(p)
    <3>1. f.inode = NULL
      BY <1>1, <2>4 DEF FileRefInv, dir_lookup, At
    <3>2. Goto(p, "lookup_done", f) \/ \E s : CallInodeOpen(p, f, s, "lookup_done")
      BY <2>4 DEF dir_lookup, f
    <3>3. CASE Goto(p, "lookup_done", f)
      <4>1. \A i : Held("lookup_done", f, i) = Points(f.dir, i) + Points(NULL, i)
        BY <1>3, <3>1, HeldBoth
      <4>2. \A i \in InodeId : Held("lookup_done", f, i) = Held(pc[p], f, i)
        BY <2>2, <4>1, PointsType
      <4> QED BY <1>6, <3>1, <3>3, <4>2
    <3> QED BY <2>3, <3>2, <3>3
  <2>5. CASE dir_remove(p)
    <3>1. \/ Goto(p, "dir_close", f)
          \/ \E s, slot : CallInodeOpen(p, [f EXCEPT !.slot = slot], s, "erase_entry")
      BY <2>5 DEF dir_remove, f
    <3>2. CASE Goto(p, "dir_close", f)
      <4>1. \A i \in InodeId : Held("dir_close", f, i) = Held(pc[p], f, i)
        BY <1>3, <2>2, HeldDir, DirLabels
      <4>2. ~ HoldsFile("dir_close", f)
        BY DEF HoldsFile, Closing
      <4> QED BY <1>6, <3>2, <4>1, <4>2
    <3> QED BY <2>3, <3>1, <3>2
  <2> QED BY <1>9, <2>4, <2>5
<1>10. CASE lookup_done(p)
  <2>1. pc[p] = "lookup_done"
    BY <1>10 DEF lookup_done, At
  <2>2. \A i : Held(pc[p], f, i) = Points(f.dir, i) + Points(f.inode, i)
    BY SMTT(20), <1>3, <2>1, HeldBoth
  <2> DEFINE c == [f EXCEPT !.closing = f.dir, !.ret = "file_open"]
  <2>3. /\ c.op = f.op /\ c.done = f.done /\ c.size = f.size /\ c.closing = f.dir
        /\ c.ret = "file_open" /\ c.inode = f.inode
    BY <1>1 DEF Locals
  <2>4. Goto(p, "inode_close", c)
    BY <1>10 DEF lookup_done, CallInodeClose, f
  <2> HIDE DEF c
  <2>5. \A i : Held("inode_close", c, i) = Points(f.inode, i) + Points(f.dir, i)
    BY <1>3, <2>3, HeldClosing
  <2>6. \A i \in InodeId : Held("inode_close", c, i) = Held(pc[p], f, i)
    BY <2>2, <2>5, PointsType
  <2>7. f.inode # NULL => NotRoot(f.inode)
    BY <1>1, <2>1 DEF FileRefInv, HoldsFile
  <2> QED BY SMTT(20), <1>6, <2>3, <2>4, <2>6, <2>7
<1>11. CASE erase_entry(p)
  <2>1. pc[p] = "erase_entry"
    BY <1>11 DEF erase_entry, At
  <2>2. \A i : Held(pc[p], f, i) = Points(f.dir, i) + Points(f.inode, i)
    BY <1>3, <2>1, HeldBoth
  <2> DEFINE c == [f EXCEPT !.closing = f.inode, !.ret = "dir_close"]
  <2>3. /\ c.op = f.op /\ c.done = f.done /\ c.size = f.size /\ c.closing = f.inode
        /\ c.ret = "dir_close" /\ c.dir = f.dir
    BY <1>1 DEF Locals
  <2>4. \/ f.inode = NULL /\ Goto(p, "dir_close", f)
        \/ Goto(p, "inode_remove", f)
        \/ Goto(p, "inode_close", c)
    BY <1>11 DEF erase_entry, CallInodeClose, f
  <2> HIDE DEF c
  <2>5. CASE f.inode = NULL /\ Goto(p, "dir_close", f)
    <3>1. \A i : Held("dir_close", f, i) = Points(f.dir, i)
      BY <1>3, HeldDir, DirLabels
    <3>2. \A i \in InodeId : Held("dir_close", f, i) = Held(pc[p], f, i)
      BY <2>2, <2>5, <3>1, PointsType
    <3>3. ~ HoldsFile("dir_close", f)
      BY DEF HoldsFile, Closing
    <3> QED BY <1>6, <2>5, <3>2, <3>3
  <2>6. CASE Goto(p, "inode_remove", f)
    <3>1. \A i \in InodeId : Held("inode_remove", f, i) = Held(pc[p], f, i)
      BY <1>3, <2>2, HeldBoth
    <3>2. ~ HoldsFile("inode_remove", f)
      BY DEF HoldsFile, Closing
    <3> QED BY <1>6, <2>6, <3>1, <3>2
  <2>7. CASE Goto(p, "inode_close", c)
    <3>1. \A i \in InodeId : Held("inode_close", c, i) = Held(pc[p], f, i)
      BY <1>3, <2>2, <2>3, HeldClosing
    <3>2. ~ HoldsFile("inode_close", c)
      BY <2>3 DEF HoldsFile
    <3> QED BY SMTT(20), <1>6, <2>3, <2>7, <3>1, <3>2
  <2> QED BY <2>4, <2>5, <2>6, <2>7
<1> QED BY <1>7, <1>8, <1>9, <1>10, <1>11
-----------------------------------------------------------------------------
(***************************************************************************)
(* The steps that write inodes or data to the disk, or move a position.    *)
(***************************************************************************)

\* The inode of a new file.
LEMMA WriteInodeUse ==
  ASSUME Facts, FileSysInv, UseInv, NEW p \in Proc, Actor(p), write_inode(p),
         frame[p].start # BITMAP_ERROR
  PROVE  UseInv'
<1>0. PICK f : f = frame[p]
  OBVIOUS
<1>1. f \in Locals /\ FileRefInv(p, pc[p], f) /\ NewFileInv(pc[p], f) /\ CreateInv(p)
  BY <1>0, UseFacts
<1>2. pc[p] = "write_inode" /\ f.op = "create" /\ f.done = 0 /\ f.size \in FileSize
  BY <1>1 DEF write_inode, At, NewFileInv
<1>3. f.inode_sector \in Sector /\ f.start \in Nat /\ f.cnt = bytes_to_sectors(f.size)
  BY <1>0, <1>1, <1>2 DEF Locals, CreateInv
<1>d. PICK d : d = [start |-> f.start, length |-> f.size]
  OBVIOUS
<1>4. /\ disk_inode' = [disk_inode EXCEPT ![f.inode_sector] = d]
      /\ Goto(p, "write_zeros", f)
      /\ UNCHANGED <<disk_data, inodeVars, fileVars>>
  BY <1>0, <1>d DEF write_inode, memVars
<1>5. d.length = f.size
  BY <1>d
<1>6. disk_inode \in [Sector -> OnDisk]
  BY DEF FileSysInv, TypeInv
<1>7. DataInv'
  BY <1>2, <1>3, <1>4, <1>5, <1>6 DEF DataInv, UseInv
<1>8. NewFileInv("write_zeros", f)'
  <2>1. disk_inode'[f.inode_sector] = d
    BY <1>3, <1>4, <1>6
  <2>2. 0..f.done - 1 = {}
    BY SMTT(20), <1>2
  <2>3. f.done >= 0
    BY SMTT(20), <1>2
  <2> QED BY <1>2, <1>3, <1>d, <2>1, <2>2, <2>3 DEF NewFileInv, Allocating, Opening
<1>9. FileRefInv(p, "write_zeros", f)
  BY <1>1, <1>2 DEF FileRefInv, HoldsFile, Closing
<1>10. \A i \in InodeId : Held("write_zeros", f, i) = Held(pc[p], f, i)
  <2>1. pc[p] \in DirLabel /\ "write_zeros" \in DirLabel /\ f.op # "close"
    BY <1>2 DEF DirLabel
  <2> QED BY SMTT(20), <2>1, HeldDir
<1>11. pc[p] # "inode_free"
  BY <1>2
<1> QED BY SMTT(20), <1>0, <1>4, <1>7, <1>8, <1>9, <1>10, <1>11, UseSame DEF SameHeld

\* A sector of its data is cleared.
LEMMA WriteZerosUse ==
  ASSUME Facts, FileSysInv, UseInv, NEW p \in Proc, Actor(p), write_zeros(p),
         frame[p].done < frame[p].cnt
  PROVE  UseInv'
<1>0. PICK f : f = frame[p]
  OBVIOUS
<1>s. PICK s, g : s = f.start + f.done /\ g = [f EXCEPT !.done = @ + 1]
  OBVIOUS
<1>1. f \in Locals /\ FileRefInv(p, pc[p], f) /\ NewFileInv(pc[p], f)
  BY <1>0, UseFacts
<1>2. /\ pc[p] = "write_zeros" /\ f.size \in FileSize /\ f.start \in Nat
      /\ f.cnt = bytes_to_sectors(f.size)
      /\ disk_inode[f.inode_sector] = [start |-> f.start, length |-> f.size]
      /\ \A k \in 0..f.done - 1 : disk_data[f.start + k] = Zeros
      /\ f.done >= 0
  BY <1>1 DEF write_zeros, At, NewFileInv
<1>3. /\ disk_data' = [disk_data EXCEPT ![s] = Zeros]
      /\ Goto(p, "write_zeros", g)
      /\ UNCHANGED <<disk_inode, inodeVars, fileVars>>
  BY <1>0, <1>s DEF write_zeros, memVars
<1>4. /\ g.done = f.done + 1 /\ g.size = f.size /\ g.start = f.start /\ g.cnt = f.cnt
      /\ g.inode_sector = f.inode_sector /\ g.op = f.op /\ g.dir = f.dir
  BY <1>1, <1>s DEF Locals
<1>5. f.done \in Int /\ f.cnt \in Nat
  BY <1>1 DEF Locals
<1>6. f.op # "close"
  BY <1>0, <1>2, UseFacts DEF Closing
<1>7. disk_data \in [Sector -> [0..BLOCK_SECTOR_SIZE - 1 -> Byte]]
  BY DEF UseInv, DataInv
\* It is a sector of the file, and so of the disk.
<1>8. \A k \in 0..f.cnt - 1 : f.start + k \in Sector
  <2>1. SectorsOf(f.inode_sector) \subseteq Sector
    <3>1. Claim(p) = SectorsOf(f.inode_sector)
      BY <1>0, <1>2 DEF Claim, Allocating
    <3> QED BY <3>1 DEF FileSysInv, CallInv, ClaimInv, TypeInv
  <2>2. f.start..f.start + f.cnt - 1 \subseteq Sector
    <3>0. disk_inode[f.inode_sector] = [start |-> f.start, length |-> f.size]
      BY <1>2
    <3>1. disk_inode[f.inode_sector].start = f.start /\ disk_inode[f.inode_sector].length = f.size
      BY SMTT(20), <3>0
    <3>2. DataSectors(disk_inode[f.inode_sector]) = f.start..f.start + f.cnt - 1
      BY <1>2, <3>1 DEF DataSectors
    <3> QED BY <2>1, <3>2 DEF SectorsOf
  <2>3. \A k \in 0..f.cnt - 1 : f.start + k \in f.start..f.start + f.cnt - 1
    BY SMTT(20), <1>2, <1>5
  <2> QED BY <2>2, <2>3
<1>9. Zeros \in [0..BLOCK_SECTOR_SIZE - 1 -> Byte]
  BY DEF Zeros, Byte
<1>10. DataInv'
  BY <1>3, <1>7, <1>9 DEF DataInv, UseInv
<1>11. \A k \in 0..g.done - 1 : disk_data'[f.start + k] = Zeros
  <2>1. SUFFICES ASSUME NEW k \in 0..g.done - 1
                 PROVE  disk_data'[f.start + k] = Zeros
    OBVIOUS
  <2>2. k \in 0..f.done - 1 \/ f.start + k = s
    BY SMTT(20), <1>s, <1>2, <1>4, <1>5
  <2>k. k \in 0..f.cnt - 1
    BY SMTT(20), <1>0, <1>2, <1>4, <1>5
  <2>3. CASE f.start + k = s
    BY <1>3, <1>7, <1>8, <2>k, <2>3
  <2>4. CASE f.start + k # s /\ k \in 0..f.done - 1
    <3>1. disk_data'[f.start + k] = disk_data[f.start + k]
      BY <1>3, <1>7, <1>8, <2>k, <2>4
    <3> QED BY <1>2, <2>4, <3>1
  <2> QED BY <2>2, <2>3, <2>4
<1>12. NewFileInv("write_zeros", g)'
  <2>1. g.done >= 0
    BY SMTT(20), <1>2, <1>4, <1>5
  <2>2. f.op = "create" => f.size \in FileSize
    BY <1>2
  <2> QED BY <1>2, <1>3, <1>4, <1>11, <2>1, <2>2 DEF NewFileInv, Allocating, Opening
<1>13. FileRefInv(p, "write_zeros", g)
  BY <1>1, <1>4, <1>6 DEF FileRefInv, HoldsFile, Closing
<1>14. \A i \in InodeId : Held("write_zeros", g, i) = Held(pc[p], f, i)
  <2>1. pc[p] \in DirLabel /\ "write_zeros" \in DirLabel /\ g.op # "close"
    BY <1>2, <1>4, <1>6 DEF DirLabel
  <2>2. \A i : Held("write_zeros", g, i) = Points(g.dir, i) /\ Held(pc[p], f, i) = Points(f.dir, i)
    BY <1>6, <2>1, HeldDir
  <2> QED BY <1>4, <2>2
<1>15. pc[p] # "inode_free"
  BY <1>2
<1> QED BY <1>3, <1>10, <1>12, <1>13, <1>14, <1>15, <1>0, UseSame DEF SameHeld

\* The turns of the loops of inode_read_at() and inode_write_at() stay within the
\* file, the sector and the buffer.
LEMMA ChunkBounds ==
  ASSUME FileSysInv, UseInv, NEW p \in Proc, frame[p].fd \in OpenFd(p)
  PROVE  /\ Ofs(p) \in Nat /\ chunk_size(p) \in Int /\ Ino(p).data.length \in Nat
         /\ chunk_size(p) <= Ino(p).data.length - Ofs(p)
         /\ chunk_size(p) <= BLOCK_SECTOR_SIZE - (Ofs(p) % BLOCK_SECTOR_SIZE)
<1>1. fd_tab[p][frame[p].fd] \in File
  BY OpenFdIsRef DEF FileSysInv
<1>2. fd_tab[p][frame[p].fd].pos \in Nat /\ fd_tab[p][frame[p].fd].inode \in InodeId
  BY <1>1 DEF File
<1>3. Ino(p).data.length \in Nat
  <2>1. Ino(p) \in Inode
    BY <1>2 DEF Ino, TypeInv, FileSysInv
  <2>2. Ino(p).data \in OnDisk
    BY <2>1 DEF Inode
  <2> QED BY <2>2 DEF OnDisk
<1>4. frame[p].size \in Nat /\ frame[p].done \in Int /\ frame[p].done >= 0
  BY UseFacts DEF Locals, NewFileInv
<1>5. Ofs(p) \in Nat
  BY SMTT(20), <1>2, <1>4 DEF Ofs
<1> DEFINE a == frame[p].size - frame[p].done
           b == Ino(p).data.length - Ofs(p)
           c == BLOCK_SECTOR_SIZE - (Ofs(p) % BLOCK_SECTOR_SIZE)
<1>6. a \in Int /\ b \in Int /\ c \in Int
  BY SMTT(20), <1>3, <1>4, <1>5, SizesAssumption
<1>7. chunk_size(p) = Min({a, b, c})
  BY DEF chunk_size
<1> HIDE DEF a, b, c
<1>8. \E x \in {a, b, c} : \A y \in {a, b, c} : x <= y
  BY SMTT(20), <1>6
<1>9. /\ Min({a, b, c}) \in {a, b, c}
      /\ \A y \in {a, b, c} : Min({a, b, c}) <= y
  BY <1>8 DEF Min
<1> QED BY <1>3, <1>5, <1>6, <1>7, <1>9 DEF b, c

\* A step that moves the position of a file of P, and no more of the files.
LEMMA PositionUse ==
  ASSUME Facts, FileSysInv, UseInv, NEW p \in Proc, Actor(p), pc[p] \in {"user", "inode_read_at", "inode_write_at"},
         NEW fd \in OpenFd(p), NEW pos \in Nat, fd_tab' = [fd_tab EXCEPT ![p][fd].pos = pos],
         UNCHANGED <<disk_inode, disk_data, inodeVars, exec_file>>,
         (UNCHANGED <<pc, frame>> /\ pc[p] = "user") \/ Goto(p, "user", NoFrame)
  PROVE  UseInv'
<1>1. /\ fd_tab \in [Proc -> Seq(OpenFile \cup {NULL})] /\ pc \in [Proc -> Label]
      /\ frame \in [Proc -> Locals] /\ TypeInv
  BY DEF FileSysInv, TypeInv
<1>2. fd_tab[p][fd] \in File /\ fd \in 1..Len(fd_tab[p])
  BY <1>1, OpenFdIsRef DEF OpenFd
<1>3. PICK file : file = [fd_tab[p][fd] EXCEPT !.pos = pos]
  OBVIOUS
<1>4. file \in File /\ file.inode = fd_tab[p][fd].inode
  BY <1>2, <1>3 DEF File
<1>5. PICK tab : tab = [fd_tab[p] EXCEPT ![fd] = file]
  OBVIOUS
<1>6. /\ tab[fd] = file /\ Len(tab) = Len(fd_tab[p])
      /\ \A k \in 1..Len(fd_tab[p]) : k # fd => tab[k] = fd_tab[p][k]
  BY SMTT(20), <1>1, <1>2, <1>5
<1>7. fd_tab'[p] = tab /\ \A q \in Proc \ {p} : fd_tab'[q] = fd_tab[q]
  BY <1>1, <1>3, <1>5
<1>8. \A q \in Proc : OpenFd(q)' = OpenFd(q)
  <2>1. OpenFd(p)' = OpenFd(p)
    <3>1. file # NULL /\ fd_tab[p][fd] # NULL
      BY <1>2, <1>4, NullAssumption
    <3> QED BY <1>6, <1>7, <3>1 DEF OpenFd
  <2>2. \A q \in Proc \ {p} : OpenFd(q)' = OpenFd(q)
    BY <1>7 DEF OpenFd
  <2> QED BY <2>1, <2>2
<1>9. \A q \in Proc : \A k \in OpenFd(q) : fd_tab'[q][k].inode = fd_tab[q][k].inode
  BY <1>4, <1>6, <1>7 DEF OpenFd
<1>10. \A i : Refs(i)' = Refs(i) /\ Runs(i)' = Runs(i)
  <2>1. ASSUME NEW i PROVE Refs(i)' = Refs(i)
    <3>1. ASSUME NEW m \in Proc \X (1..MaxFd)
          PROVE  m[2] \in OpenFd(m[1])' /\ fd_tab'[m[1]][m[2]].inode = i
                   <=> m[2] \in OpenFd(m[1]) /\ fd_tab[m[1]][m[2]].inode = i
      <4>1. m[1] \in Proc
        BY SMTT(20)
      <4> QED BY <1>8, <1>9, <4>1
    <3> QED BY <3>1 DEF Refs
  <2> QED BY <2>1 DEF Runs
<1>11. pc'[p] = "user" /\ frame'[p].op # "close" /\ frame[p].op # "close"
       /\ frame'[p].done >= 0 /\ (frame'[p].op = "create" => frame'[p].size \in FileSize)
       /\ (frame'[p].op = "open" => Len(fd_tab[p]) < MaxFd)
       /\ (frame'[p].op = "load" => exec_file[p] = NULL)
  <2>1. NoFrame.op = "none" /\ NoFrame.done = 0
    BY DEF NoFrame
  <2>2. NoFrame.done >= 0
    BY SMTT(20), <2>1
  <2>3. frame[p].op # "close"
    BY UseFacts DEF Closing
  <2>4. FileRefInv(p, pc[p], frame[p]) /\ NewFileInv(pc[p], frame[p])
    BY UseFacts
  <2> QED BY <1>1, <2>1, <2>2, <2>3, <2>4 DEF Goto, FileRefInv, NewFileInv
<1>12. OthersKept(p)
  BY <1>1, <1>7 DEF OthersKept, Goto
<1>13. FilesStayFiles(p)
  BY DEF FilesStayFiles, NotRoot, inodeVars
<1>14. DataInv'
  BY DEF DataInv, UseInv
<1>15. HandleInv(p)'
  <2>1. HandleInv(p)
    BY DEF UseInv
  <2>2. Len(fd_tab[p])' <= MaxFd
    BY <1>6, <1>7, <2>1 DEF HandleInv
  <2>3. \A k \in OpenFd(p) : fd_tab'[p][k] \in File /\ NotRoot(fd_tab[p][k].inode)'
    <3>1. \A k \in OpenFd(p) : fd_tab[p][k] \in File /\ NotRoot(fd_tab[p][k].inode)
      BY <2>1 DEF HandleInv
    <3> QED BY <1>4, <1>6, <1>7, <1>9, <3>1 DEF NotRoot, inodeVars, OpenFd
  <2> QED BY <1>8, <2>1, <2>2, <2>3 DEF HandleInv, NotRoot, inodeVars
<1>16. FileRefInv(p, pc[p], frame[p])'
  BY <1>6, <1>7, <1>11 DEF FileRefInv, HoldsFile, Closing
<1>17. NewFileInv(pc[p], frame[p])'
  BY <1>11 DEF NewFileInv, Allocating, Opening
<1>18. CountInv(p)'
  <2>1. CountInv(p)
    BY DEF UseInv
  <2>2. \A i : Held(pc[p], frame[p], i) = 0
    BY SMTT(20), <1>11, HeldByNobody
  <2>3. \A i : Held(pc'[p], frame'[p], i) = 0
    BY <1>11, HeldByNobody
  <2>4. \A i : Held(pc[p], frame[p], i)' = Held(pc[p], frame[p], i)
    BY <2>2, <2>3
  <2> QED BY <1>10, <2>1, <2>4 DEF CountInv, inodeVars
<1> QED BY <1>12, <1>13, <1>14, <1>15, <1>16, <1>17, <1>18, UseKeeps

\* seek.
LEMMA SeekUse ==
  ASSUME Facts, FileSysInv, UseInv, NEW p \in Proc, Actor(p), syscall_seek(p)
  PROVE  UseInv'
<1>1. PICK fd \in OpenFd(p), pos \in SeekPos : fd_tab' = [fd_tab EXCEPT ![p][fd].pos = pos]
  BY DEF syscall_seek
<1>2. pos \in Nat
  BY SizesAssumption
<1>3. pc[p] = "user" /\ UNCHANGED <<disk_inode, disk_data, inodeVars, exec_file, pc, frame>>
  BY DEF syscall_seek, MayCall, At, diskVars
<1> QED BY <1>1, <1>2, <1>3, PositionUse

\* A turn of a read or write of a file.
LEMMA FileIoUse ==
  ASSUME Facts, FileSysInv, UseInv, NEW p \in Proc, Actor(p), inode_read_at(p) \/ inode_write_at(p)
  PROVE  UseInv'
<1>0. PICK f, l : f = frame[p] /\ l = pc[p]
  OBVIOUS
<1>1. /\ f \in Locals /\ FileRefInv(p, l, f) /\ NewFileInv(l, f)
      /\ l \in {"inode_read_at", "inode_write_at"}
      /\ UNCHANGED <<disk_inode, inodeVars>>
  BY <1>0, UseFacts DEF inode_read_at, inode_write_at, At, diskVars
<1>2. frame[p].fd \in OpenFd(p)
  BY <1>0, <1>1, UseFacts DEF ClosingInv
<1>3. Ofs(p) \in Nat /\ chunk_size(p) \in Int
  BY <1>2, ChunkBounds
<1>4. \/ EndIo(p) /\ UNCHANGED disk_data
      \/ /\ NextTurn(p, l) /\ ~ (chunk_size(p) <= 0)
         /\ l = "inode_write_at" => ~ (f.done = 0 /\ Ino(p).deny_write_cnt > 0)
         /\ \/ UNCHANGED disk_data
            \/ \E s : disk_data' = [disk_data EXCEPT ![s] = Written(p, s)]
  BY <1>0, <1>1 DEF inode_read_at, inode_write_at, WriteTurn, At, diskVars
<1>5. CASE EndIo(p) /\ UNCHANGED disk_data
  <2>1. pc[p] \in {"user", "inode_read_at", "inode_write_at"}
    BY <1>0, <1>1
  <2>2. /\ fd_tab' = [fd_tab EXCEPT ![p][frame[p].fd].pos = Ofs(p)]
        /\ Goto(p, "user", NoFrame) /\ UNCHANGED exec_file
    BY <1>5 DEF EndIo, Return
  <2> QED BY <1>1, <1>2, <1>3, <1>5, <2>1, <2>2, PositionUse
<1>6. CASE /\ NextTurn(p, l) /\ ~ (chunk_size(p) <= 0)
           /\ l = "inode_write_at" => ~ (f.done = 0 /\ Ino(p).deny_write_cnt > 0)
           /\ \/ UNCHANGED disk_data
              \/ \E s : disk_data' = [disk_data EXCEPT ![s] = Written(p, s)]
  <2>1. PICK g : g = [f EXCEPT !.done = @ + chunk_size(p),
                               !.bounce = @ \/ chunk_size(p) < BLOCK_SECTOR_SIZE]
    OBVIOUS
  <2>2. Goto(p, l, g) /\ UNCHANGED fileVars
    BY <1>0, <1>6, <2>1 DEF NextTurn
  <2>3. g.op = f.op /\ g.size = f.size /\ g.fd = f.fd /\ g.done = f.done + chunk_size(p)
    BY <1>1, <2>1 DEF Locals
  <2>4. f.op # "close"
    BY <1>0, <1>1, UseFacts DEF Closing
  <2>5. \A i \in InodeId : Held(l, g, i) = Held(pc[p], frame[p], i)
    <3>1. \A i : Held(l, g, i) = 0
      <4>1. g.op # "close"
        BY <2>3, <2>4
      <4> QED BY <1>1, <4>1, HeldByNobody
    <3>2. \A i : Held(l, f, i) = 0
      BY <1>1, <2>4, HeldByNobody
    <3> QED BY <1>0, <3>1, <3>2
  <2>6. f.done \in Int /\ f.done >= 0 /\ g.done >= 0
    <3>1. f.done \in Int /\ f.done >= 0
      BY <1>1 DEF Locals, NewFileInv
    <3> QED BY SMTT(20), <1>3, <1>6, <2>3, <3>1
  <2>7. NewFileInv(l, g)'
    BY <1>1, <2>3, <2>6 DEF NewFileInv, Allocating, Opening
  <2>8. l = "inode_write_at" => inode[fd_tab[p][f.fd].inode].deny_write_cnt = 0
    <3>1. fd_tab[p][f.fd].inode \in InodeId
      BY <1>0, <1>2, OpenFdIsRef DEF FileSysInv
    <3>2. /\ inode[fd_tab[p][f.fd].inode].deny_write_cnt >= 0
          /\ inode[fd_tab[p][f.fd].inode].deny_write_cnt \in Int
      <4>1. 0 <= inode[fd_tab[p][f.fd].inode].deny_write_cnt
        BY <3>1, UsedIsOpen DEF FileSysInv
      <4>2. inode[fd_tab[p][f.fd].inode] \in Inode
        BY <3>1 DEF FileSysInv, TypeInv
      <4>3. inode[fd_tab[p][f.fd].inode].deny_write_cnt \in Int
        BY <4>2 DEF Inode
      <4> QED BY SMTT(20), <4>1, <4>3
    <3>3. l = "inode_write_at" /\ f.done > 0 =>
            inode[fd_tab[p][f.fd].inode].deny_write_cnt = 0
      BY <1>1 DEF FileRefInv
    <3>4. Ino(p) = inode[fd_tab[p][f.fd].inode]
      BY <1>0 DEF Ino
    <3>5. PICK n : n = inode[fd_tab[p][f.fd].inode].deny_write_cnt
      OBVIOUS
    <3>6. /\ n >= 0 /\ n \in Int
          /\ l = "inode_write_at" /\ f.done > 0 => n = 0
          /\ l = "inode_write_at" => ~ (f.done = 0 /\ n > 0)
      BY <1>6, <3>2, <3>3, <3>4, <3>5
    <3>7. l = "inode_write_at" => n = 0
      BY SMTT(20), <2>6, <3>6
    <3> QED BY <3>5, <3>7
  <2>9. FileRefInv(p, l, g)
    BY <1>1, <2>3, <2>4, <2>8 DEF FileRefInv, HoldsFile, Closing
  <2>10. DataInv'
    <3>1. disk_data \in [Sector -> [0..BLOCK_SECTOR_SIZE - 1 -> Byte]]
      BY DEF UseInv, DataInv
    <3>2. ASSUME NEW s, disk_data' = [disk_data EXCEPT ![s] = Written(p, s)]
          PROVE  disk_data' \in [Sector -> [0..BLOCK_SECTOR_SIZE - 1 -> Byte]]
      <4>1. s \in Sector => Written(p, s) \in [0..BLOCK_SECTOR_SIZE - 1 -> Byte]
        BY <3>1 DEF Written, Byte
      <4> QED BY <3>1, <3>2, <4>1
    <3>3. disk_data' \in [Sector -> [0..BLOCK_SECTOR_SIZE - 1 -> Byte]]
      BY <1>6, <3>1, <3>2
    <3> QED BY <1>1, <3>3 DEF UseInv, DataInv
  <2>11. pc[p] # "inode_free"
    BY <1>0, <1>1
  <2> QED BY <1>1, <2>2, <2>5, <2>7, <2>9, <2>10, <2>11, UseSame DEF SameHeld
<1> QED BY <1>4, <1>5, <1>6
-----------------------------------------------------------------------------
(***************************************************************************)
(* The steps that open and close struct inodes.                            *)
(***************************************************************************)

\* A step that changes the number of openers as the locals do.
LEMMA InodeUse ==
  ASSUME Facts, FileSysInv, UseInv, NEW p \in Proc, Actor(p), FilesStayFiles(p),
         UNCHANGED <<disk_inode, disk_data, fileVars>>, NEW l, NEW f, Goto(p, l, f),
         \A i \in InodeId :
           /\ inode'[i].open_cnt = inode[i].open_cnt + (Held(l, f, i) - Held(pc[p], frame[p], i))
           /\ inode'[i].deny_write_cnt = inode[i].deny_write_cnt
           /\ i \in Elements(open_inodes') =>
                inode'[i].open_cnt > 0 \/ (l = "inode_free" /\ f.closing = i),
         FileRefInv(p, l, f)', NewFileInv(l, f)
  PROVE  UseInv'
<1>1. /\ pc'[p] = l /\ frame'[p] = f
      /\ OthersKept(p)
  BY DEF Goto, FileSysInv, TypeInv, OthersKept, fileVars
<1>2. HandleInv(p)'
  BY HandlesKept DEF fileVars, FileSysInv
<1>3. FileRefInv(p, pc[p], frame[p])'
  BY <1>1 DEF FileRefInv
<1>4. NewFileInv(pc[p], frame[p])'
  BY <1>1 DEF NewFileInv
<1>5. DataInv'
  BY DEF DataInv, UseInv
<1>6. CountInv(p)'
  <2>1. SUFFICES ASSUME NEW i \in InodeId
                 PROVE  /\ inode'[i].open_cnt = Cardinality(Refs(i)') + Cardinality(Runs(i)')
                                                  + Held(l, f, i)
                        /\ inode'[i].deny_write_cnt = Cardinality(Runs(i)')
    BY <1>1 DEF CountInv
  <2>2. Refs(i)' = Refs(i) /\ Runs(i)' = Runs(i)
    BY DEF Refs, Runs, OpenFd, fileVars
  <2> DEFINE n == Cardinality(Refs(i))
             r == Cardinality(Runs(i))
             h == Held(pc[p], frame[p], i)
             k == Held(l, f, i)
  <2>3. n \in Nat /\ r \in Nat /\ h \in Int /\ k \in Int
    BY CardinalRefs, HeldType
  <2>4. inode[i].open_cnt = n + r + h /\ inode[i].deny_write_cnt = r
    BY DEF UseInv, CountInv
  <2>5. /\ inode'[i].open_cnt = inode[i].open_cnt + (k - h)
        /\ inode'[i].deny_write_cnt = inode[i].deny_write_cnt
    OBVIOUS
  <2> HIDE DEF n, r, h, k
  <2>6. inode'[i].open_cnt = n + r + k /\ inode'[i].deny_write_cnt = r
    BY SMTT(20), <2>3, <2>4, <2>5
  <2> QED BY <2>2, <2>6 DEF n, r, k
<1> QED BY <1>1, <1>2, <1>3, <1>4, <1>5, <1>6, UseKeeps

\* inode_open() leaves one more reference.
LEMMA HeldOpened ==
  ASSUME NEW l \in {"inode_open", "inode_alloc"}, NEW f \in Locals, f.op # "close",
         NEW r \in {"dir_open", "lookup_done", "erase_entry"}, f.ret = r,
         NEW x, NEW g, g = [f EXCEPT !.inode = x], NEW i \in InodeId
  PROVE  /\ Held(r, g, i) - Held(l, f, i) = Points(x, i)
         /\ Held("inode_read", g, i) - Held(l, f, i) = Points(x, i)
         /\ Held(r, f, i) = Held("inode_read", f, i)
         /\ Held("inode_alloc", g, i) = Held(l, f, i)
<1>2. /\ g.op # "close" /\ g.inode = x /\ g.dir = f.dir /\ g.ret = r
  BY DEF Locals
<1>3. ASSUME NEW h, h.op # "close", h.ret = r
      PROVE  /\ Held(r, h, i) = (IF r = "dir_open" THEN 0 ELSE Points(h.dir, i)) + Points(h.inode, i)
             /\ Held("inode_read", h, i) =
                  (IF r = "dir_open" THEN 0 ELSE Points(h.dir, i)) + Points(h.inode, i)
             /\ Held(l, h, i) = IF r = "dir_open" THEN 0 ELSE Points(h.dir, i)
             /\ Held("inode_alloc", h, i) = IF r = "dir_open" THEN 0 ELSE Points(h.dir, i)
  <2>1. /\ r = "dir_open" => Held(r, h, i) = Points(h.inode, i)
        /\ r # "dir_open" => Held(r, h, i) = Points(h.dir, i) + Points(h.inode, i)
    BY SMTT(20), <1>3, HeldInode, HeldBoth
  <2>2. /\ r = "dir_open" => /\ Held(l, h, i) = 0 /\ Held("inode_alloc", h, i) = 0
                             /\ Held("inode_read", h, i) = Points(h.inode, i)
        /\ r # "dir_open" => /\ Held(l, h, i) = Points(h.dir, i)
                             /\ Held("inode_alloc", h, i) = Points(h.dir, i)
                             /\ Held("inode_read", h, i) = Points(h.dir, i) + Points(h.inode, i)
    BY SMTT(20), <1>3, HeldOpening
  <2>3. 0 + Points(h.inode, i) = Points(h.inode, i)
    BY SMTT(20), PointsType
  <2> QED BY <2>1, <2>2, <2>3
<1>4. PICK a : a = IF r = "dir_open" THEN 0 ELSE Points(f.dir, i)
  OBVIOUS
<1>5. Points(x, i) \in Int /\ a \in Int
  BY SMTT(20), <1>4 DEF Points
<1>6. /\ Held(r, g, i) = a + Points(x, i) /\ Held("inode_read", g, i) = a + Points(x, i)
      /\ Held(l, f, i) = a /\ Held("inode_alloc", g, i) = a
      /\ Held(r, f, i) = Held("inode_read", f, i)
  BY <1>2, <1>3, <1>4
<1>7. (a + Points(x, i)) - a = Points(x, i)
  BY SMTT(20), <1>5
<1> QED BY <1>6, <1>7

\* The sector of a named file is not the root directory's.
LEMMA NamedIsNotRoot ==
  ASSUME FileSysInv
  PROVE  ROOT_DIR_SECTOR \notin NamedSectors
<1>1. NamedSectors \subseteq LiveFiles
  BY DEF NamedSectors, LiveFiles
<1>2. ROOT_DIR_SECTOR \in SystemSectors
  BY SMTT(20) DEF ROOT_DIR_SECTOR, SystemSectors
<1>3. \A s \in LiveFiles : s \notin SystemSectors
  BY DEF FileSysInv, SectorsInv, SectorsOf
<1> QED BY <1>1, <1>2, <1>3

\* inode_open(): one more opener of a struct inode, or none.
LEMMA InodeOpened ==
  ASSUME Facts, FileSysInv, NEW p \in Proc, inode_open(p)
  PROVE  \/ \E i \in Elements(open_inodes) :
              /\ inode[i].sector = frame[p].sector
              /\ inode' = [inode EXCEPT ![i].open_cnt = @ + 1]
              /\ Goto(p, frame[p].ret, [frame[p] EXCEPT !.inode = i])
         \/ /\ \E l \in {frame[p].ret, "inode_alloc"} : Goto(p, l, [frame[p] EXCEPT !.inode = NULL])
            /\ UNCHANGED inode
<1> DEFINE same == {k \in 1..Len(open_inodes) : inode[open_inodes[k]].sector = frame[p].sector}
<1>1. CASE same = {}
  <2>1. UNCHANGED inode
    BY <1>1 DEF inode_open
  <2>2. \E ok : Goto(p, IF ok THEN "inode_alloc" ELSE frame[p].ret, [frame[p] EXCEPT !.inode = NULL])
    BY <1>1 DEF inode_open
  <2> QED BY <2>1, <2>2
<1>2. CASE same # {}
  <2>1. open_inodes \in Seq(InodeId) /\ same \subseteq Nat
    BY SMTT(20) DEF FileSysInv, TypeInv
  <2>2. PICK m \in same : \A n \in same : m <= n
    BY <1>2, <2>1 DEF Facts, LeastFact
  <2>3. Min(same) \in same
    BY <2>2 DEF Min
  <2>4. DOMAIN open_inodes = 1..Len(open_inodes)
    BY SMTT(20), <2>1
  <2>5. open_inodes[Min(same)] \in Elements(open_inodes)
    BY <2>3, <2>4 DEF Elements, Range
  <2> QED BY <1>2, <2>3, <2>5 DEF inode_open
<1> QED BY <1>1, <1>2

\* inode_open() finds the inode on the list and counts one opener more.
LEMMA OpenUse ==
  ASSUME Facts, FileSysInv, UseInv, NEW p \in Proc, Actor(p), inode_open(p)
  PROVE  UseInv'
<1>0. PICK f : f = frame[p]
  OBVIOUS
<1>1. /\ f \in Locals /\ FileRefInv(p, pc[p], f) /\ NewFileInv(pc[p], f) /\ OpeningInv(p)
      /\ pc[p] = "inode_open" /\ f.op # "close"
  BY <1>0, UseFacts DEF inode_open, At, Closing
<1>2. PICK r \in {"dir_open", "lookup_done", "erase_entry"} : f.ret = r
  BY <1>0, <1>1 DEF OpeningInv, Opening
<1>3. UNCHANGED <<disk_inode, disk_data, open_inodes, fileVars>>
  BY DEF inode_open, diskVars
<1>4. ASSUME NEW i \in InodeId \cup {NULL},
             NEW l \in {"dir_open", "lookup_done", "erase_entry", "inode_alloc"},
             l = "dir_open" => f.ret = "dir_open",
             NEW g, g = [f EXCEPT !.inode = i],
             l = "lookup_done" /\ i # NULL => NotRoot(i)'
      PROVE  FileRefInv(p, l, g)' /\ NewFileInv(l, g)
  <2>1. /\ g.op = f.op /\ g.done = f.done /\ g.ret = f.ret /\ g.size = f.size /\ g.inode = i
        /\ g.fd = f.fd
    BY <1>1, <1>4 DEF Locals
  <2>2. FileRefInv(p, l, g)'
    <3>1. g.op # "close"
      BY <1>1, <2>1
    <3>2. HoldsFile(l, g) /\ g.inode # NULL => NotRoot(i)'
      BY <1>4, <2>1 DEF HoldsFile, Closing
    <3>3. g.op = "open" => Len(fd_tab'[p]) < MaxFd
      BY <1>1, <1>3, <2>1 DEF FileRefInv, fileVars
    <3>4. g.op = "load" => exec_file'[p] = NULL
      BY <1>1, <1>3, <2>1 DEF FileRefInv, fileVars
    <3>5. l \notin {"dir_lookup", "none", "deny_write", "inode_write_at"}
      OBVIOUS
    <3> QED BY <2>1, <3>1, <3>2, <3>3, <3>4, <3>5 DEF FileRefInv
  <2>3. NewFileInv(l, g)
    <3>1. /\ f.done >= 0 /\ (f.ret = "dir_open" => f.done = 0)
          /\ f.op = "create" => f.size \in FileSize
      BY <1>1 DEF NewFileInv, Opening
    <3> QED BY <1>4, <2>1, <3>1 DEF NewFileInv, Allocating, Opening
  <2> QED BY <2>2, <2>3
<1>5. CASE \E i \in Elements(open_inodes) :
             /\ inode[i].sector = f.sector
             /\ inode' = [inode EXCEPT ![i].open_cnt = @ + 1]
             /\ Goto(p, f.ret, [f EXCEPT !.inode = i])
  <2>1. PICK i \in Elements(open_inodes) :
             /\ inode[i].sector = f.sector
             /\ inode' = [inode EXCEPT ![i].open_cnt = @ + 1]
             /\ Goto(p, f.ret, [f EXCEPT !.inode = i])
    BY <1>5
  <2>2. PICK g : g = [f EXCEPT !.inode = i]
    OBVIOUS
  <2>3. i \in InodeId /\ inode \in [InodeId -> Inode]
    BY OpenIsInode DEF FileSysInv, TypeInv
  <2>4. ASSUME NEW j \in InodeId
        PROVE  /\ inode[j].open_cnt \in Int /\ inode'[j].sector = inode[j].sector
               /\ inode'[j].deny_write_cnt = inode[j].deny_write_cnt
               /\ inode'[j].open_cnt = inode[j].open_cnt + Points(i, j)
    <3>1. inode[j] \in Inode /\ inode[i] \in Inode
      BY <2>3
    <3>2. CASE j = i
      <4>1. inode'[j] = [inode[i] EXCEPT !.open_cnt = @ + 1]
        BY <2>1, <2>3, <3>2
      <4>2. /\ inode'[j].open_cnt = inode[j].open_cnt + 1
            /\ inode'[j].sector = inode[j].sector
            /\ inode'[j].deny_write_cnt = inode[j].deny_write_cnt
            /\ inode[j].open_cnt \in Int
        BY <3>1, <3>2, <4>1 DEF Inode
      <4> QED BY <3>2, <4>2 DEF Points
    <3>3. CASE j # i
      <4>1. inode'[j] = inode[j]
        BY <2>1, <2>3, <3>3
      <4>2. inode[j].open_cnt \in Int
        BY <3>1 DEF Inode
      <4>3. inode[j].open_cnt + 0 = inode[j].open_cnt
        BY SMTT(20), <4>2
      <4> QED BY <3>3, <4>1, <4>2, <4>3 DEF Points
    <3> QED BY <3>2, <3>3
  <2>5. FilesStayFiles(p)
    BY <2>4 DEF FilesStayFiles, NotRoot
  <2>6. r = "lookup_done" => NotRoot(i)'
    <3>1. r = "lookup_done" => f.sector \in NamedSectors
      BY <1>0, <1>1, <1>2 DEF OpeningInv, Opening
    <3> QED BY <2>1, <2>3, <2>4, <3>1, NamedIsNotRoot DEF NotRoot
  <2>7. FileRefInv(p, r, g)' /\ NewFileInv(r, g)
    BY <1>2, <1>4, <2>2, <2>3, <2>6
  <2>8. \A j \in InodeId : Held(r, g, j) - Held(pc[p], f, j) = Points(i, j)
    BY SMTT(20), <1>1, <1>2, <2>2, HeldOpened
  <2>9. \A j \in InodeId : j \in Elements(open_inodes') => inode'[j].open_cnt > 0
    <3>1. SUFFICES ASSUME NEW j \in InodeId, j \in Elements(open_inodes)
                   PROVE  inode'[j].open_cnt > 0
      BY <1>3
    <3>2. inode[j].open_cnt > 0
      BY <1>1, <3>1 DEF UseInv, CountInv
    <3>3. inode[j].open_cnt \in Int /\ inode'[j].open_cnt = inode[j].open_cnt + Points(i, j)
      BY <2>4
    <3> QED BY SMTT(20), <3>2, <3>3 DEF Points
  <2>10. Goto(p, r, g)
    BY <1>2, <2>1, <2>2
  <2> QED BY SMTT(20), <1>0, <1>3, <2>4, <2>5, <2>7, <2>8, <2>9, <2>10, InodeUse
<1>6. CASE (\E l \in {f.ret, "inode_alloc"} : Goto(p, l, [f EXCEPT !.inode = NULL])) /\ UNCHANGED inode
  <2>1. PICK l \in {f.ret, "inode_alloc"} : Goto(p, l, [f EXCEPT !.inode = NULL])
    BY <1>6
  <2>2. PICK g : g = [f EXCEPT !.inode = NULL]
    OBVIOUS
  <2>3. l \in {"dir_open", "lookup_done", "erase_entry", "inode_alloc"}
    BY <1>2, <2>1
  <2>4. FileRefInv(p, l, g)' /\ NewFileInv(l, g)
    BY <1>2, <1>4, <2>1, <2>2, <2>3
  <2>5. FileRefInv(p, l, g)
    BY <1>3, <1>6, <2>4 DEF FileRefInv, NotRoot, OpenFd, fileVars
  <2>6. \A j \in InodeId : Held(l, g, j) = Held(pc[p], f, j)
    <3>1. SUFFICES ASSUME NEW j \in InodeId PROVE Held(l, g, j) = Held(pc[p], f, j)
      OBVIOUS
    <3>2. /\ Held(r, g, j) - Held(pc[p], f, j) = Points(NULL, j)
          /\ Held("inode_alloc", g, j) = Held(pc[p], f, j)
      BY SMTT(20), <1>1, <1>2, <2>2, HeldOpened
    <3>3. Points(NULL, j) = 0 /\ Held(r, g, j) \in Int /\ Held(pc[p], f, j) \in Int
      BY PointsType, HeldType
    <3>4. Held(r, g, j) = Held(pc[p], f, j)
      BY SMTT(20), <3>2, <3>3
    <3> QED BY <1>2, <2>1, <3>2, <3>4
  <2>7. Goto(p, l, g) /\ UNCHANGED inodeVars /\ pc[p] # "inode_free"
    BY <1>1, <1>3, <1>6, <2>1, <2>2 DEF inodeVars
  <2>8. SameHeld(p, l, g)
    BY <1>0, <2>6 DEF SameHeld
  <2> QED BY <1>3, <2>4, <2>5, <2>7, <2>8, UseQuiet
<1> QED BY <1>0, <1>5, <1>6, InodeOpened

\* inode_alloc(): a new struct inode, with one opener.
LEMMA AllocUse ==
  ASSUME Facts, FileSysInv, UseInv, NEW p \in Proc, Actor(p), inode_alloc(p)
  PROVE  UseInv'
<1>0. PICK f : f = frame[p]
  OBVIOUS
<1>1. /\ f \in Locals /\ FileRefInv(p, pc[p], f) /\ NewFileInv(pc[p], f) /\ OpeningInv(p)
      /\ pc[p] = "inode_alloc" /\ f.op # "close"
  BY <1>0, UseFacts DEF inode_alloc, At, Closing
<1>2. PICK r \in {"dir_open", "lookup_done", "erase_entry"} : f.ret = r
  BY <1>0, <1>1 DEF OpeningInv, Opening
<1>3. UNCHANGED <<disk_inode, disk_data, fileVars>>
  BY DEF inode_alloc, diskVars
<1>4. PICK i \in InodeId, d \in {disk_inode[s] : s \in Sector} :
        /\ inode[i] = NoInode
        /\ inode' = [inode EXCEPT ![i] = [NoInode EXCEPT !.sector = f.sector,
                                                         !.open_cnt = 1, !.data = d]]
        /\ open_inodes' = <<i>> \o open_inodes
        /\ Goto(p, "inode_read", [f EXCEPT !.inode = i])
  BY <1>0 DEF inode_alloc
<1>5. PICK g : g = [f EXCEPT !.inode = i]
  OBVIOUS
<1>6. /\ g.op = f.op /\ g.done = f.done /\ g.ret = r /\ g.size = f.size /\ g.inode = i
  BY <1>1, <1>2, <1>5 DEF Locals
<1>7. inode \in [InodeId -> Inode] /\ open_inodes \in Seq(InodeId)
  BY DEF FileSysInv, TypeInv
<1>8. /\ inode[i].open_cnt = 0 /\ inode[i].deny_write_cnt = 0
      /\ inode'[i].open_cnt = 1 /\ inode'[i].deny_write_cnt = 0 /\ inode'[i].sector = f.sector
  <2>1. inode'[i] = [NoInode EXCEPT !.sector = f.sector, !.open_cnt = 1, !.data = d]
    BY <1>4, <1>7
  <2>2. inode[i] = NoInode
    BY <1>4
  <2>3. inode[i].open_cnt = 0 /\ inode[i].deny_write_cnt = 0
    BY SMTT(20), <2>2 DEF NoInode
  <2>4. inode'[i].open_cnt = 1 /\ inode'[i].deny_write_cnt = 0 /\ inode'[i].sector = f.sector
    BY <2>1 DEF NoInode
  <2> QED BY <2>3, <2>4
<1>9. ASSUME NEW j \in InodeId
      PROVE  /\ inode'[j].open_cnt = inode[j].open_cnt + Points(i, j)
             /\ inode'[j].deny_write_cnt = inode[j].deny_write_cnt
  <2>1. CASE j = i
    <3>1. 0 + 1 = 1
      BY SMTT(20)
    <3> QED BY <1>8, <2>1, <3>1 DEF Points
  <2>2. CASE j # i
    <3>1. inode'[j] = inode[j] /\ inode[j] \in Inode
      BY <1>4, <1>7, <2>2
    <3>2. inode[j].open_cnt \in Int
      BY <3>1 DEF Inode
    <3>3. inode[j].open_cnt + 0 = inode[j].open_cnt
      BY SMTT(20), <3>2
    <3> QED BY <2>2, <3>1, <3>3 DEF Points
  <2> QED BY <2>1, <2>2
<1>10. FilesStayFiles(p)
  <2>1. ~ (inode[i].open_cnt > 0)
    BY SMTT(20), <1>8
  <2>2. \A j \in InodeId \ {i} : inode'[j] = inode[j]
    BY <1>4, <1>7
  <2> QED BY <1>0, <1>1, <2>1, <2>2 DEF FilesStayFiles, NotRoot
<1>11. \A j \in InodeId : j \in Elements(open_inodes') => inode'[j].open_cnt > 0
  <2>1. SUFFICES ASSUME NEW j \in InodeId, j \in Elements(open_inodes')
                 PROVE  inode'[j].open_cnt > 0
    OBVIOUS
  <2>2. Elements(open_inodes') = Elements(open_inodes) \cup {i}
    BY <1>4, <1>7 DEF Facts, ListFacts
  <2>3. CASE j = i
    BY SMTT(20), <1>8, <2>3
  <2>4. CASE j # i
    <3>1. j \in Elements(open_inodes) /\ inode'[j] = inode[j]
      BY <1>4, <1>7, <2>1, <2>2, <2>4
    <3> QED BY <1>1, <3>1 DEF UseInv, CountInv
  <2> QED BY <2>3, <2>4
<1>12. FileRefInv(p, "inode_read", g)'
  <2>1. r = "lookup_done" => NotRoot(i)'
    <3>1. r = "lookup_done" => f.sector \in NamedSectors
      BY <1>0, <1>1, <1>2 DEF OpeningInv, Opening
    <3> QED BY <1>8, <3>1, NamedIsNotRoot DEF NotRoot
  <2>2. HoldsFile("inode_read", g) /\ g.inode # NULL => NotRoot(i)'
    BY <1>6, <2>1 DEF HoldsFile, Closing
  <2>3. g.op = "open" => Len(fd_tab'[p]) < MaxFd
    BY <1>1, <1>3, <1>6 DEF FileRefInv, fileVars
  <2>4. g.op = "load" => exec_file'[p] = NULL
    BY <1>1, <1>3, <1>6 DEF FileRefInv, fileVars
  <2> QED BY <1>1, <1>6, <2>2, <2>3, <2>4 DEF FileRefInv
<1>13. NewFileInv("inode_read", g)
  <2>1. /\ f.done >= 0 /\ (f.ret = "dir_open" => f.done = 0)
        /\ f.op = "create" => f.size \in FileSize
    BY <1>1 DEF NewFileInv, Opening
  <2> QED BY <1>2, <1>6, <2>1 DEF NewFileInv, Allocating, Opening
<1>14. \A j \in InodeId : Held("inode_read", g, j) - Held(pc[p], f, j) = Points(i, j)
  BY SMTT(20), <1>1, <1>2, <1>5, HeldOpened
<1>15. Goto(p, "inode_read", g)
  BY <1>4, <1>5
<1> QED BY SMTT(20), <1>0, <1>3, <1>9, <1>10, <1>11, <1>12, <1>13, <1>14, <1>15, InodeUse

\* The step opens and closes no inode.
SameCounts(p) ==
  \A i \in InodeId :
    /\ inode'[i].open_cnt = inode[i].open_cnt
    /\ inode'[i].deny_write_cnt = inode[i].deny_write_cnt
    /\ i \in Elements(open_inodes') =>
         i \in Elements(open_inodes) /\ ~ (pc[p] = "inode_free" /\ frame[p].closing = i)

\* A step that keeps the counts of all struct inodes.
LEMMA SameCountsUse ==
  ASSUME Facts, FileSysInv, UseInv, NEW p \in Proc, Actor(p), FilesStayFiles(p),
         UNCHANGED <<disk_inode, disk_data, fileVars>>, NEW l, NEW f, Goto(p, l, f),
         SameHeld(p, l, f), SameCounts(p), FileRefInv(p, l, f)', NewFileInv(l, f)
  PROVE  UseInv'
<1>1. ASSUME NEW i \in InodeId
      PROVE  /\ inode'[i].open_cnt = inode[i].open_cnt + (Held(l, f, i) - Held(pc[p], frame[p], i))
             /\ i \in Elements(open_inodes') => inode'[i].open_cnt > 0
  <2>1. inode[i] \in Inode
    BY DEF FileSysInv, TypeInv
  <2>2. inode[i].open_cnt \in Int
    BY <2>1 DEF Inode
  <2>3. PICK h : h = Held(pc[p], frame[p], i)
    OBVIOUS
  <2>4. h \in Int
    BY <2>3, HeldType
  <2>5. inode[i].open_cnt = inode[i].open_cnt + (h - h)
    BY SMTT(20), <2>2, <2>4
  <2>6. i \in Elements(open_inodes') => inode'[i].open_cnt > 0
    BY DEF UseInv, CountInv, SameCounts
  <2> QED BY <2>3, <2>5, <2>6 DEF SameHeld, SameCounts
<1> QED BY <1>1, InodeUse DEF SameCounts

\* It has read a new inode's data.
LEMMA ReadUse ==
  ASSUME Facts, FileSysInv, UseInv, NEW p \in Proc, Actor(p), inode_read(p)
  PROVE  UseInv'
<1>0. PICK f : f = frame[p]
  OBVIOUS
<1>1. /\ f \in Locals /\ FileRefInv(p, pc[p], f) /\ NewFileInv(pc[p], f) /\ OpeningInv(p)
      /\ pc[p] = "inode_read" /\ f.op # "close"
  BY <1>0, UseFacts DEF inode_read, At, Closing
<1>2. PICK r \in {"dir_open", "lookup_done", "erase_entry"} : f.ret = r
  BY <1>0, <1>1 DEF OpeningInv, Opening
<1>3. UNCHANGED <<disk_inode, disk_data, fileVars, open_inodes>> /\ Goto(p, r, f)
  BY <1>0, <1>2 DEF inode_read, diskVars
<1>4. \A j \in InodeId : /\ inode'[j].open_cnt = inode[j].open_cnt
                         /\ inode'[j].deny_write_cnt = inode[j].deny_write_cnt
                         /\ inode'[j].sector = inode[j].sector
  <2>1. PICK d : inode' = [inode EXCEPT ![f.inode].data = d]
    BY <1>0 DEF inode_read
  <2>2. inode \in [InodeId -> Inode]
    BY DEF FileSysInv, TypeInv
  <2>3. ASSUME NEW j \in InodeId
        PROVE  /\ inode'[j].open_cnt = inode[j].open_cnt
               /\ inode'[j].deny_write_cnt = inode[j].deny_write_cnt
               /\ inode'[j].sector = inode[j].sector
    <3>1. inode'[j] = inode[j] \/ inode'[j] = [inode[j] EXCEPT !.data = d]
      BY <2>1, <2>2
    <3>2. inode[j] \in Inode
      BY <2>2
    <3> QED BY <3>1, <3>2 DEF Inode
  <2> QED BY <2>3
<1>5. FilesStayFiles(p)
  BY <1>4 DEF FilesStayFiles, NotRoot
<1>6. \A j \in InodeId : Held(r, f, j) = Held(pc[p], f, j)
  <2>1. f = [f EXCEPT !.inode = f.inode]
    BY <1>1 DEF Locals
  <2> QED BY SMTT(20), <1>1, <1>2, <2>1, HeldOpened
<1>7. FileRefInv(p, r, f)'
  <2>1. HoldsFile(r, f) /\ f.inode # NULL => NotRoot(f.inode)'
    <3>1. HoldsFile(r, f) /\ f.inode # NULL => NotRoot(f.inode) /\ f.inode \in InodeId
      BY <1>1, <1>2 DEF FileRefInv, HoldsFile, Closing, Locals
    <3> QED BY <1>4, <3>1 DEF NotRoot
  <2>2. f.op = "open" => Len(fd_tab'[p]) < MaxFd
    BY <1>1, <1>3 DEF FileRefInv, fileVars
  <2>3. f.op = "load" => exec_file'[p] = NULL
    BY <1>1, <1>3 DEF FileRefInv, fileVars
  <2>4. r \notin {"dir_lookup", "none", "deny_write", "inode_write_at"}
    OBVIOUS
  <2> QED BY <1>1, <2>1, <2>2, <2>3, <2>4 DEF FileRefInv
<1>8. NewFileInv(r, f)
  <2>1. /\ f.done >= 0 /\ (f.ret = "dir_open" => f.done = 0)
        /\ f.op = "create" => f.size \in FileSize
    BY <1>1 DEF NewFileInv, Opening
  <2> QED BY <1>2, <2>1 DEF NewFileInv, Allocating, Opening
<1>9. SameHeld(p, r, f) /\ SameCounts(p)
  BY <1>0, <1>1, <1>3, <1>4, <1>6 DEF SameHeld, SameCounts
<1> QED BY <1>1, <1>3, <1>5, <1>7, <1>8, <1>9, SameCountsUse

\* inode_close() takes one reference away.
LEMMA HeldClosed ==
  ASSUME NEW f, NEW r \in {"return", "file_open", "dir_close", "exit"}, f.ret = r,
         NEW l \in {r, "inode_free", "release_inode", "release_data"}, NEW i
  PROVE  /\ Held(l, f, i) - Held("inode_close", f, i) = 0 - Points(f.closing, i)
         /\ Held(l, f, i) = Held(r, f, i)
<1>1. \A m \in Closing \cup {r} : /\ HoldsDir(m, f) <=> r = "dir_close"
                                  /\ HoldsInode(m, f) <=> r = "file_open"
  BY DEF HoldsDir, HoldsInode, Opening, Closing, Allocating
<1>2. /\ "inode_close" \in Closing \cup {r} /\ l \in Closing \cup {r}
      /\ l # "inode_close" /\ r # "inode_close"
  BY DEF Closing
<1>3. ASSUME NEW m \in Closing \cup {r}
      PROVE  Held(m, f, i) =
               (IF r = "dir_close" THEN Points(f.dir, i) ELSE 0)
                 + (IF r = "file_open" THEN Points(f.inode, i) ELSE 0)
                 + (IF m = "inode_close" THEN Points(f.closing, i) ELSE 0)
                 - (IF f.op = "close" THEN Points(f.closing, i) ELSE 0)
  BY <1>1 DEF Held
<1> QED BY SMTT(20), <1>2, <1>3 DEF Points

\* What a call knows inside inode_close() and after it.
LEMMA ClosingUse ==
  ASSUME FileSysInv, UseInv, NEW p \in Proc, NEW f, f = frame[p], pc[p] \in Closing,
         NEW l \in {f.ret, "inode_free", "release_inode", "release_data"},
         UNCHANGED fileVars
  PROVE  /\ f.ret \in {"return", "file_open", "dir_close", "exit"}
         /\ NewFileInv(l, f)
         /\ (f.ret = "file_open" /\ f.inode # NULL => NotRoot(f.inode)') => FileRefInv(p, l, f)'
         /\ f.ret = "file_open" /\ f.inode # NULL => NotRoot(f.inode) /\ f.inode \in InodeId
<1>1. /\ f \in Locals /\ FileRefInv(p, pc[p], f) /\ NewFileInv(pc[p], f) /\ ClosingInv(p)
  BY UseFacts
<1>2. PICK r \in {"return", "file_open", "dir_close", "exit"} : f.ret = r
  BY <1>1 DEF ClosingInv
<1>3. l \in {r, "inode_free", "release_inode", "release_data"} \/ l \in {"inode_free", "release_inode", "release_data"}
  BY <1>2
<1>4. NewFileInv(l, f)
  <2>1. f.done >= 0 /\ (f.op = "create" => f.size \in FileSize)
    BY <1>1 DEF NewFileInv
  <2>2. l \in {"return", "file_open", "dir_close", "exit", "inode_free", "release_inode", "release_data"}
    BY <1>2, <1>3
  <2> QED BY <2>1, <2>2 DEF NewFileInv, Allocating, Opening
<1>5. f.ret = "file_open" /\ f.inode # NULL => NotRoot(f.inode) /\ f.inode \in InodeId
  BY <1>1 DEF FileRefInv, HoldsFile, Locals
<1>6. ASSUME f.ret = "file_open" /\ f.inode # NULL => NotRoot(f.inode)'
      PROVE  FileRefInv(p, l, f)'
  <2>1. HoldsFile(l, f) /\ f.inode # NULL => NotRoot(f.inode)'
    <3>1. HoldsFile(l, f) => r = "file_open"
      BY <1>2, <1>3 DEF HoldsFile, Closing
    <3> QED BY <1>2, <1>6, <3>1
  <2>2. f.op = "open" => Len(fd_tab'[p]) < MaxFd
    BY <1>1 DEF FileRefInv, fileVars
  <2>3. f.op = "load" => exec_file'[p] = NULL
    BY <1>1 DEF FileRefInv, fileVars
  <2>4. f.op = "close" => /\ r = "return"
                          /\ f.fd \in OpenFd(p)' /\ fd_tab'[p][f.fd].inode = f.closing
    BY <1>1, <1>2 DEF FileRefInv, fileVars, OpenFd, Closing
  <2>5. r = "return" => l = "return" \/ (l \in Closing /\ f.ret = "return")
    BY <1>2, <1>3 DEF Closing
  <2>6. l \notin {"dir_lookup", "none", "deny_write", "inode_write_at"}
    BY <1>2, <1>3
  <2> QED BY <2>1, <2>2, <2>3, <2>4, <2>5, <2>6 DEF FileRefInv
<1> QED BY <1>2, <1>4, <1>5, <1>6

\* inode_close() counts one opener less.
LEMMA CloseUse ==
  ASSUME Facts, FileSysInv, UseInv, NEW p \in Proc, Actor(p), inode_close(p)
  PROVE  UseInv'
<1>0. PICK f : f = frame[p]
  OBVIOUS
<1>1. f \in Locals /\ pc[p] = "inode_close" /\ pc[p] \in Closing
  BY <1>0, UseFacts DEF inode_close, At, Closing
<1>2. UNCHANGED <<disk_inode, disk_data, fileVars, open_inodes>> /\ UNCHANGED fileVars
  BY DEF inode_close, diskVars
<1>3. f.ret \in {f.ret, "inode_free", "release_inode", "release_data"}
  OBVIOUS
<1>4. PICK r \in {"return", "file_open", "dir_close", "exit"} : f.ret = r
  BY <1>0, <1>1, <1>2, <1>3, ClosingUse
<1>5. CASE f.closing = NULL
  <2>1. Goto(p, r, f) /\ UNCHANGED inode
    BY <1>0, <1>4, <1>5 DEF inode_close
  <2>2. FilesStayFiles(p)
    BY <2>1 DEF FilesStayFiles, NotRoot
  <2>3. NewFileInv(r, f) /\ FileRefInv(p, r, f)'
    <3>1. f.ret = "file_open" /\ f.inode # NULL => NotRoot(f.inode)'
      BY <1>0, <1>1, <1>2, <1>3, <2>1, ClosingUse DEF NotRoot
    <3> QED BY <1>0, <1>1, <1>2, <1>3, <1>4, <3>1, ClosingUse
  <2>4. \A i \in InodeId : Held(r, f, i) = Held(pc[p], f, i)
    <3>1. SUFFICES ASSUME NEW i \in InodeId PROVE Held(r, f, i) = Held(pc[p], f, i)
      OBVIOUS
    <3>2. Held(r, f, i) - Held("inode_close", f, i) = 0 - Points(f.closing, i)
      BY SMTT(20), <1>4, HeldClosed
    <3>3. Points(f.closing, i) = 0
      BY <1>5, PointsType
    <3>4. Held(r, f, i) \in Int /\ Held("inode_close", f, i) \in Int
      BY HeldType
    <3>5. Held(r, f, i) = Held("inode_close", f, i)
      BY SMTT(20), <3>2, <3>3, <3>4
    <3> QED BY <1>1, <3>5
  <2>5. SameHeld(p, r, f) /\ SameCounts(p)
    BY <1>0, <1>1, <1>2, <2>1, <2>4 DEF SameHeld, SameCounts
  <2> QED BY <1>2, <2>1, <2>2, <2>3, <2>5, SameCountsUse
<1>6. CASE f.closing # NULL
  <2>1. PICK i \in InodeId : i = f.closing
    BY <1>1, <1>6 DEF Locals
  <2>2. PICK l \in {r, "inode_free"} :
          /\ inode' = [inode EXCEPT ![i].open_cnt = @ - 1]
          /\ Goto(p, l, f)
          /\ inode'[i].open_cnt = 0 => l = "inode_free"
    BY <1>0, <1>4, <1>6, <2>1 DEF inode_close
  <2>3. inode \in [InodeId -> Inode]
    BY DEF FileSysInv, TypeInv
  <2>4. ASSUME NEW j \in InodeId
        PROVE  /\ inode[j].open_cnt \in Int /\ inode'[j].sector = inode[j].sector
               /\ inode'[j].deny_write_cnt = inode[j].deny_write_cnt
               /\ inode'[j].open_cnt = inode[j].open_cnt + (0 - Points(i, j))
    <3>1. inode[j] \in Inode /\ inode[i] \in Inode
      BY <2>3
    <3>2. inode[j].open_cnt \in Int
      BY <3>1 DEF Inode
    <3>3. CASE j = i
      <4>1. inode'[j] = [inode[i] EXCEPT !.open_cnt = @ - 1]
        BY <2>2, <2>3, <3>3
      <4>2. /\ inode'[j].open_cnt = inode[j].open_cnt - 1
            /\ inode'[j].sector = inode[j].sector
            /\ inode'[j].deny_write_cnt = inode[j].deny_write_cnt
        BY <3>1, <3>3, <4>1 DEF Inode
      <4>3. inode[j].open_cnt - 1 = inode[j].open_cnt + (0 - 1)
        BY SMTT(20), <3>2
      <4> QED BY <3>2, <3>3, <4>2, <4>3 DEF Points
    <3>4. CASE j # i
      <4>1. inode'[j] = inode[j]
        BY <2>2, <2>3, <3>4
      <4>2. inode[j].open_cnt + (0 - 0) = inode[j].open_cnt
        BY SMTT(20), <3>2
      <4> QED BY <3>2, <3>4, <4>1, <4>2 DEF Points
    <3> QED BY <3>3, <3>4
  <2>5. FilesStayFiles(p)
    BY <2>4 DEF FilesStayFiles, NotRoot
  <2>6. NewFileInv(l, f) /\ FileRefInv(p, l, f)'
    <3>1. f.ret = "file_open" /\ f.inode # NULL => NotRoot(f.inode)'
      <4>1. f.ret = "file_open" /\ f.inode # NULL => NotRoot(f.inode) /\ f.inode \in InodeId
        BY <1>0, <1>1, <1>2, <1>3, ClosingUse
      <4> QED BY <2>4, <4>1 DEF NotRoot
    <3>2. l \in {f.ret, "inode_free", "release_inode", "release_data"}
      BY <1>4, <2>2
    <3> QED BY <1>0, <1>1, <1>2, <3>1, <3>2, ClosingUse
  <2>7. \A j \in InodeId : Held(l, f, j) - Held(pc[p], f, j) = 0 - Points(i, j)
    <3>1. l \in {r, "inode_free", "release_inode", "release_data"}
      BY <2>2
    <3> QED BY SMTT(20), <1>1, <1>4, <2>1, <3>1, HeldClosed
  <2>8. \A j \in InodeId :
          j \in Elements(open_inodes') => inode'[j].open_cnt > 0 \/ (l = "inode_free" /\ f.closing = j)
    <3>1. SUFFICES ASSUME NEW j \in InodeId, j \in Elements(open_inodes)
                   PROVE  inode'[j].open_cnt > 0 \/ (l = "inode_free" /\ i = j)
      BY <1>2, <2>1
    <3>2. inode[j].open_cnt > 0
      BY <1>1, <3>1 DEF UseInv, CountInv
    <3>3. inode[j].open_cnt \in Int /\ inode'[j].open_cnt = inode[j].open_cnt + (0 - Points(i, j))
      BY <2>4
    <3>4. (i # j => inode'[j].open_cnt > 0) /\ (inode'[j].open_cnt > 0 \/ inode'[j].open_cnt = 0)
      BY SMTT(20), <3>2, <3>3 DEF Points
    <3> QED BY <2>2, <3>4
  <2> QED BY SMTT(20), <1>0, <1>2, <2>2, <2>4, <2>5, <2>6, <2>7, <2>8, InodeUse
<1> QED BY <1>5, <1>6

\* What inode_free() and release_data() leave in the place of a struct inode is not
\* used.
LEMMA FreedUse ==
  ASSUME Facts, FileSysInv, UseInv, NEW p \in Proc, Actor(p), NEW i \in InodeId,
         inode[i].open_cnt = 0, inode' = [inode EXCEPT ![i] = NoInode]
  PROVE  /\ FilesStayFiles(p)
         /\ \A j \in InodeId : /\ inode'[j].open_cnt = inode[j].open_cnt
                               /\ inode'[j].deny_write_cnt = inode[j].deny_write_cnt
                               /\ NotRoot(j) => NotRoot(j)'
<1>1. inode \in [InodeId -> Inode] /\ TypeInv
  BY DEF FileSysInv, TypeInv
<1>2. inode[i].deny_write_cnt = 0
  BY <1>1, UsedIsOpen
<1>3. inode'[i] = NoInode /\ \A j \in InodeId \ {i} : inode'[j] = inode[j]
  BY <1>1
<1>4. /\ NoInode.open_cnt = 0 /\ NoInode.deny_write_cnt = 0
      /\ NoInode.sector = FREE_MAP_SECTOR
  BY DEF NoInode
<1>5. FREE_MAP_SECTOR # ROOT_DIR_SECTOR
  BY SMTT(20) DEF FREE_MAP_SECTOR, ROOT_DIR_SECTOR
<1>6. ASSUME NEW j \in InodeId
      PROVE  /\ inode'[j].open_cnt = inode[j].open_cnt
             /\ inode'[j].deny_write_cnt = inode[j].deny_write_cnt
             /\ NotRoot(j) => NotRoot(j)'
  <2>1. CASE j = i
    BY <1>2, <1>3, <1>4, <1>5, <2>1 DEF NotRoot
  <2>2. CASE j # i
    BY <1>3, <2>2 DEF NotRoot
  <2> QED BY <2>1, <2>2
<1> QED BY <1>6 DEF FilesStayFiles

\* It frees the struct inode and the sectors of a removed file.
LEMMA FreeUse ==
  ASSUME Facts, FileSysInv, UseInv, NEW p \in Proc, Actor(p),
         inode_free(p) \/ release_inode(p) \/ release_data(p)
  PROVE  UseInv'
<1>0. PICK f : f = frame[p]
  OBVIOUS
<1>1. /\ f \in Locals /\ ClosingInv(p)
      /\ pc[p] \in {"inode_free", "release_inode", "release_data"} /\ pc[p] \in Closing
  BY <1>0, UseFacts DEF inode_free, release_inode, release_data, At, Closing
<1>2. UNCHANGED <<disk_inode, disk_data, fileVars>> /\ UNCHANGED fileVars
  BY DEF inode_free, release_inode, release_data, diskVars
<1>3. PICK r \in {"return", "file_open", "dir_close", "exit"} : f.ret = r
  BY <1>0, <1>1 DEF ClosingInv
<1>4. PICK l \in {r, "release_inode", "release_data"} : Goto(p, l, f)
  BY <1>0, <1>3 DEF inode_free, release_inode, release_data
<1>5. open_inodes \in Seq(InodeId) /\ NoDuplicates(open_inodes) /\ TypeInv
  BY DEF FileSysInv, TypeInv, OpenInv
\* The struct inode that is freed has no openers.
<1>6. PICK i \in InodeId : i = f.closing /\ inode[i].open_cnt = 0
  <2>1. CASE pc[p] = "inode_free"
    <3>1. f.closing \in Elements(open_inodes) /\ inode[f.closing].open_cnt = 0
      BY <1>0, <1>1, <2>1 DEF ClosingInv
    <3>2. f.closing \in InodeId
      BY <1>5, <3>1, OpenIsInode
    <3> QED BY <3>1, <3>2
  <2>2. CASE pc[p] \in {"release_inode", "release_data"}
    <3>1. f.closing \in InodeId /\ f.closing \notin Elements(open_inodes)
      BY <1>0, <1>1, <2>2 DEF ClosingInv
    <3>2. ~ (inode[f.closing].open_cnt > 0)
      BY <3>1 DEF FileSysInv, OpenInv
    <3>3. inode[f.closing].open_cnt \in Nat
      BY <1>5, <3>1, UsedIsOpen
    <3>4. inode[f.closing].open_cnt = 0
      BY SMTT(20), <3>2, <3>3
    <3> QED BY <3>1, <3>4
  <2> QED BY <1>1, <2>1, <2>2
<1>7. UNCHANGED inode \/ inode' = [inode EXCEPT ![i] = NoInode]
  BY <1>0, <1>6 DEF inode_free, release_inode, release_data, inodeVars
<1>8. /\ FilesStayFiles(p)
      /\ \A j \in InodeId : /\ inode'[j].open_cnt = inode[j].open_cnt
                            /\ inode'[j].deny_write_cnt = inode[j].deny_write_cnt
                            /\ NotRoot(j) => NotRoot(j)'
  <2>1. CASE UNCHANGED inode
    BY <2>1 DEF FilesStayFiles, NotRoot
  <2>2. CASE inode' = [inode EXCEPT ![i] = NoInode]
    BY <1>6, <2>2, FreedUse
  <2> QED BY <1>7, <2>1, <2>2
<1>9. \A j \in InodeId : j \in Elements(open_inodes') =>
        j \in Elements(open_inodes) /\ ~ (pc[p] = "inode_free" /\ f.closing = j)
  <2>1. CASE pc[p] = "inode_free"
    <3>1. i \in Elements(open_inodes)
      BY <1>0, <1>1, <1>6, <2>1 DEF ClosingInv
    <3>2. open_inodes' = list_remove(open_inodes, i)
      BY <1>0, <1>6, <2>1 DEF inode_free, release_inode, release_data, At
    <3>3. Elements(open_inodes') = Elements(open_inodes) \ {i}
      BY <1>5, <3>1, <3>2 DEF Facts, ListFacts
    <3> QED BY <1>6, <3>3
  <2>2. CASE pc[p] # "inode_free"
    <3>1. UNCHANGED open_inodes
      BY <2>2 DEF inode_free, release_inode, release_data, At, inodeVars
    <3> QED BY <2>2, <3>1
  <2> QED BY <2>1, <2>2
<1>10. NewFileInv(l, f) /\ FileRefInv(p, l, f)'
  <2>1. l \in {f.ret, "inode_free", "release_inode", "release_data"}
    BY <1>3, <1>4
  <2>2. f.ret = "file_open" /\ f.inode # NULL => NotRoot(f.inode)'
    <3>1. f.ret = "file_open" /\ f.inode # NULL => NotRoot(f.inode) /\ f.inode \in InodeId
      BY <1>0, <1>1, <1>2, <2>1, ClosingUse
    <3> QED BY <1>8, <3>1
  <2> QED BY <1>0, <1>1, <1>2, <2>1, <2>2, ClosingUse
<1>11. \A j \in InodeId : Held(l, f, j) = Held(pc[p], f, j)
  <2>1. SUFFICES ASSUME NEW j \in InodeId PROVE Held(l, f, j) = Held(pc[p], f, j)
    OBVIOUS
  <2>2. \A m \in {r, "inode_free", "release_inode", "release_data"} : Held(m, f, j) = Held(r, f, j)
    BY SMTT(20), <1>3, HeldClosed
  <2> QED BY <1>1, <1>4, <2>2
<1>12. SameHeld(p, l, f) /\ SameCounts(p)
  BY <1>0, <1>8, <1>9, <1>11 DEF SameHeld, SameCounts
<1> QED BY <1>2, <1>4, <1>8, <1>10, <1>12, SameCountsUse

\* inode_remove() changes no count.
LEMMA RemoveUse ==
  ASSUME Facts, FileSysInv, UseInv, NEW p \in Proc, Actor(p), inode_remove(p)
  PROVE  UseInv'
<1>0. PICK f : f = frame[p]
  OBVIOUS
<1>1. /\ f \in Locals /\ FileRefInv(p, pc[p], f) /\ NewFileInv(pc[p], f)
      /\ pc[p] = "inode_remove" /\ f.op # "close"
  BY <1>0, UseFacts DEF inode_remove, At, Closing
<1>2. PICK g : g = [f EXCEPT !.closing = f.inode, !.ret = "dir_close"]
  OBVIOUS
<1>3. /\ g.op = f.op /\ g.done = f.done /\ g.ret = "dir_close" /\ g.size = f.size
      /\ g.closing = f.inode /\ g.dir = f.dir
  BY <1>1, <1>2 DEF Locals
<1>4. UNCHANGED <<disk_inode, disk_data, fileVars, open_inodes>> /\ Goto(p, "inode_close", g)
  BY <1>0, <1>2 DEF inode_remove, diskVars, CallInodeClose
<1>5. \A j \in InodeId : /\ inode'[j].open_cnt = inode[j].open_cnt
                         /\ inode'[j].deny_write_cnt = inode[j].deny_write_cnt
                         /\ inode'[j].sector = inode[j].sector
  <2>1. inode' = [inode EXCEPT ![f.inode].removed = TRUE]
    BY <1>0 DEF inode_remove
  <2>2. inode \in [InodeId -> Inode]
    BY DEF FileSysInv, TypeInv
  <2>3. ASSUME NEW j \in InodeId
        PROVE  /\ inode'[j].open_cnt = inode[j].open_cnt
               /\ inode'[j].deny_write_cnt = inode[j].deny_write_cnt
               /\ inode'[j].sector = inode[j].sector
    <3>1. inode'[j] = inode[j] \/ inode'[j] = [inode[j] EXCEPT !.removed = TRUE]
      BY <2>1, <2>2
    <3>2. inode[j] \in Inode
      BY <2>2
    <3> QED BY <3>1, <3>2 DEF Inode
  <2> QED BY <2>3
<1>6. FilesStayFiles(p)
  BY <1>5 DEF FilesStayFiles, NotRoot
<1>7. \A j \in InodeId : Held("inode_close", g, j) = Held(pc[p], f, j)
  <2>1. SUFFICES ASSUME NEW j \in InodeId PROVE Held("inode_close", g, j) = Held(pc[p], f, j)
    OBVIOUS
  <2>2. Held("inode_close", g, j) = Points(g.dir, j) + Points(g.closing, j)
    <3>1. g.op # "close" /\ g.ret = "dir_close"
      BY <1>1, <1>3
    <3> QED BY <3>1, HeldClosing
  <2>3. Held(pc[p], f, j) = Points(f.dir, j) + Points(f.inode, j)
    BY <1>1, HeldBoth
  <2> QED BY <1>3, <2>2, <2>3
<1>8. FileRefInv(p, "inode_close", g)'
  <2>1. ~ HoldsFile("inode_close", g)
    BY <1>3 DEF HoldsFile
  <2>2. g.op = "open" => Len(fd_tab'[p]) < MaxFd
    BY <1>1, <1>3, <1>4 DEF FileRefInv, fileVars
  <2>3. g.op = "load" => exec_file'[p] = NULL
    BY <1>1, <1>3, <1>4 DEF FileRefInv, fileVars
  <2> QED BY <1>1, <1>3, <2>1, <2>2, <2>3 DEF FileRefInv
<1>9. NewFileInv("inode_close", g)
  <2>1. f.done >= 0 /\ (f.op = "create" => f.size \in FileSize)
    BY <1>1 DEF NewFileInv
  <2> QED BY <1>3, <2>1 DEF NewFileInv, Allocating, Opening
<1>10. SameHeld(p, "inode_close", g) /\ SameCounts(p)
  BY <1>0, <1>1, <1>4, <1>5, <1>7 DEF SameHeld, SameCounts
<1> QED BY <1>1, <1>4, <1>6, <1>8, <1>9, <1>10, SameCountsUse
-----------------------------------------------------------------------------
(***************************************************************************)
(* The steps that open and close files.                                    *)
(***************************************************************************)

\* The descriptors of P become those it had and FD, or all of them but FD.
LEMMA RefsGrow ==
  ASSUME Facts, NEW p \in Proc, NEW fd \in 1..MaxFd, fd \notin OpenFd(p),
         OpenFd(p)' = OpenFd(p) \cup {fd},
         \A k \in OpenFd(p) : fd_tab'[p][k] = fd_tab[p][k],
         \A q \in Proc \ {p} : fd_tab'[q] = fd_tab[q], NEW i
  PROVE  Cardinality(Refs(i)') = Cardinality(Refs(i)) + Points(fd_tab'[p][fd].inode, i)
<1>1. PICK m : m = <<p, fd>>
  OBVIOUS
<1>2. m \in Proc \X (1..MaxFd) /\ m[1] = p /\ m[2] = fd
  BY SMTT(20), <1>1
<1>3. ASSUME NEW k \in Proc \X (1..MaxFd), k # m
      PROVE  k \in Refs(i)' <=> k \in Refs(i)
  <2>1. k[1] \in Proc /\ (k[1] = p => k[2] # fd)
    BY SMTT(20), <1>1, <1>3
  <2>2. CASE k[1] = p
    BY <2>1, <2>2 DEF Refs
  <2>3. CASE k[1] # p
    BY <2>1, <2>3 DEF Refs, OpenFd
  <2> QED BY <2>2, <2>3
<1>4. m \notin Refs(i) /\ (m \in Refs(i)' <=> fd_tab'[p][fd].inode = i)
  BY <1>2 DEF Refs
<1>5. Refs(i) \subseteq Proc \X (1..MaxFd) /\ Refs(i)' \subseteq Proc \X (1..MaxFd)
  BY DEF Refs
<1>6. CASE fd_tab'[p][fd].inode = i
  <2>1. Refs(i)' = Refs(i) \cup {m}
    BY <1>2, <1>3, <1>4, <1>5, <1>6
  <2>3. Cardinality(Refs(i) \cup {m}) = Cardinality(Refs(i)) + 1
    BY <1>4, OneRef
  <2> QED BY <1>6, <2>1, <2>3 DEF Points
<1>7. CASE fd_tab'[p][fd].inode # i
  <2>1. Refs(i)' = Refs(i)
    <3>1. \A k \in Proc \X (1..MaxFd) : k \in Refs(i)' <=> k \in Refs(i)
      BY <1>3, <1>4, <1>7
    <3>2. Refs(i)' \subseteq Refs(i) /\ Refs(i) \subseteq Refs(i)'
      BY <1>5, <3>1
    <3> QED BY <3>2
  <2>2. Cardinality(Refs(i)) + 0 = Cardinality(Refs(i))
    BY SMTT(20), CardinalRefs
  <2> QED BY <1>7, <2>1, <2>2 DEF Points
<1> QED BY <1>6, <1>7

\* A descriptor less is a reference less to its inode.
LEMMA RefsShrink ==
  ASSUME Facts, NEW p \in Proc, NEW fd \in OpenFd(p), fd \in 1..MaxFd,
         OpenFd(p)' = OpenFd(p) \ {fd},
         \A k \in OpenFd(p) \ {fd} : fd_tab'[p][k] = fd_tab[p][k],
         \A q \in Proc \ {p} : fd_tab'[q] = fd_tab[q], NEW i
  PROVE  Cardinality(Refs(i)') + Points(fd_tab[p][fd].inode, i) = Cardinality(Refs(i))
<1>1. PICK m : m = <<p, fd>>
  OBVIOUS
<1>2. m \in Proc \X (1..MaxFd) /\ m[1] = p /\ m[2] = fd
  BY SMTT(20), <1>1
<1>3. ASSUME NEW k \in Proc \X (1..MaxFd), k # m
      PROVE  k \in Refs(i)' <=> k \in Refs(i)
  <2>1. k[1] \in Proc /\ (k[1] = p => k[2] # fd)
    BY SMTT(20), <1>1, <1>3
  <2>2. CASE k[1] = p
    BY <2>1, <2>2 DEF Refs
  <2>3. CASE k[1] # p
    BY <2>1, <2>3 DEF Refs, OpenFd
  <2> QED BY <2>2, <2>3
<1>4. m \notin Refs(i)' /\ (m \in Refs(i) <=> fd_tab[p][fd].inode = i)
  BY <1>2 DEF Refs
<1>5. Refs(i) \subseteq Proc \X (1..MaxFd) /\ Refs(i)' \subseteq Proc \X (1..MaxFd)
  BY DEF Refs
<1>6. CASE fd_tab[p][fd].inode = i
  <2>1. Refs(i)' = Refs(i) \ {m} /\ m \in Refs(i)
    BY <1>3, <1>4, <1>5, <1>6
  <2>3. Cardinality(Refs(i) \ {m}) = Cardinality(Refs(i)) - 1 /\ Cardinality(Refs(i)) \in Nat
    BY <2>1, OneRef, CardinalRefs
  <2>4. (Cardinality(Refs(i)) - 1) + 1 = Cardinality(Refs(i))
    BY SMTT(20), <2>3
  <2> QED BY <1>6, <2>1, <2>3, <2>4 DEF Points
<1>7. CASE fd_tab[p][fd].inode # i
  <2>1. Refs(i)' = Refs(i)
    <3>1. \A k \in Proc \X (1..MaxFd) : k \in Refs(i)' <=> k \in Refs(i)
      BY <1>3, <1>4, <1>7
    <3>2. Refs(i)' \subseteq Refs(i) /\ Refs(i) \subseteq Refs(i)'
      BY <1>5, <3>1
    <3> QED BY <3>2
  <2>2. Cardinality(Refs(i)) + 0 = Cardinality(Refs(i))
    BY SMTT(20), CardinalRefs
  <2> QED BY <1>7, <2>1, <2>2 DEF Points
<1> QED BY <1>6, <1>7

\* And P begins or ends to run the program with struct inode I.
LEMMA RunsGrow ==
  ASSUME Facts, NEW p \in Proc, exec_file \in [Proc -> OpenFile \cup {NULL}], exec_file[p] = NULL,
         NEW file, file # NULL, exec_file' = [exec_file EXCEPT ![p] = file], NEW i
  PROVE  Cardinality(Runs(i)') = Cardinality(Runs(i)) + Points(file.inode, i)
<1>1. exec_file'[p] = file /\ \A q \in Proc \ {p} : exec_file'[q] = exec_file[q]
  OBVIOUS
<1>2. p \notin Runs(i) /\ Cardinality(Runs(i)) \in Nat
  BY CardinalRefs DEF Runs
<1>3. CASE file.inode = i
  <2>1. Runs(i)' = Runs(i) \cup {p}
    BY <1>1, <1>3 DEF Runs
  <2> QED BY <1>2, <1>3, <2>1, OneRef DEF Points
<1>4. CASE file.inode # i
  <2>1. Runs(i)' = Runs(i)
    BY <1>1, <1>4 DEF Runs
  <2>2. Cardinality(Runs(i)) + 0 = Cardinality(Runs(i))
    BY SMTT(20), <1>2
  <2> QED BY <1>4, <2>1, <2>2 DEF Points
<1> QED BY <1>3, <1>4

\* A program less is a reference less to its inode.
LEMMA RunsShrink ==
  ASSUME Facts, NEW p \in Proc, exec_file \in [Proc -> OpenFile \cup {NULL}], exec_file[p] # NULL,
         exec_file' = [exec_file EXCEPT ![p] = NULL], NEW i
  PROVE  Cardinality(Runs(i)') + Points(exec_file[p].inode, i) = Cardinality(Runs(i))
<1>1. exec_file'[p] = NULL /\ \A q \in Proc \ {p} : exec_file'[q] = exec_file[q]
  OBVIOUS
<1>2. p \notin Runs(i)' /\ Cardinality(Runs(i)) \in Nat
  BY <1>1, CardinalRefs DEF Runs
<1>3. CASE exec_file[p].inode = i
  <2>1. Runs(i)' = Runs(i) \ {p} /\ p \in Runs(i)
    BY <1>1, <1>3 DEF Runs
  <2>2. Cardinality(Runs(i) \ {p}) = Cardinality(Runs(i)) - 1
    BY <1>2, <2>1, OneRef
  <2>3. (Cardinality(Runs(i)) - 1) + 1 = Cardinality(Runs(i))
    BY SMTT(20), <1>2
  <2> QED BY <1>3, <2>1, <2>2, <2>3 DEF Points
<1>4. CASE exec_file[p].inode # i
  <2>1. Runs(i)' = Runs(i)
    BY <1>1, <1>4 DEF Runs
  <2>2. Cardinality(Runs(i)) + 0 = Cardinality(Runs(i))
    BY SMTT(20), <1>2
  <2> QED BY <1>4, <2>1, <2>2 DEF Points
<1> QED BY <1>3, <1>4

\* A step that opens or closes files of P and changes no number of openers.
OnlyFiles(p) ==
  /\ UNCHANGED <<disk_inode, disk_data, open_inodes>>
  /\ \A q \in Proc \ {p} : fd_tab'[q] = fd_tab[q] /\ exec_file'[q] = exec_file[q]

Balanced(p, l, f) ==
  \A i \in InodeId :
    /\ inode'[i].sector = inode[i].sector /\ inode'[i].open_cnt = inode[i].open_cnt
    /\ Cardinality(Refs(i)') + Cardinality(Runs(i)') + Held(l, f, i)
         = Cardinality(Refs(i)) + Cardinality(Runs(i)) + Held(pc[p], frame[p], i)
    /\ inode'[i].deny_write_cnt = Cardinality(Runs(i)')

\* A step that opens or closes files.
LEMMA FilesUse ==
  ASSUME Facts, FileSysInv, UseInv, NEW p \in Proc, Actor(p), pc[p] # "inode_free",
         OnlyFiles(p), NEW l, NEW f, Goto(p, l, f), Balanced(p, l, f),
         HandleInv(p)', FileRefInv(p, l, f)', NewFileInv(l, f)
  PROVE  UseInv'
<1> USE DEF OnlyFiles
<1>1. /\ pc'[p] = l /\ frame'[p] = f
      /\ OthersKept(p)
  BY DEF Goto, FileSysInv, TypeInv, OthersKept
<1>2. FilesStayFiles(p)
  BY DEF FilesStayFiles, NotRoot, Balanced
<1>3. FileRefInv(p, pc[p], frame[p])'
  BY <1>1 DEF FileRefInv
<1>4. NewFileInv(pc[p], frame[p])'
  BY <1>1 DEF NewFileInv
<1>5. DataInv'
  BY DEF DataInv, UseInv
<1>6. CountInv(p)'
  <2>1. CountInv(p)
    BY DEF UseInv
  <2> QED BY <1>1, <2>1 DEF CountInv, Balanced
<1> QED BY <1>1, <1>2, <1>3, <1>4, <1>5, <1>6, UseKeeps

\* What the locals of a call that is over say.
LEMMA ReturnUse ==
  ASSUME NEW p \in Proc, NEW l \in {"user", "exit", "none"}, l = "none" => exec_file'[p] = NULL
  PROVE  /\ NewFileInv(l, NoFrame) /\ FileRefInv(p, l, NoFrame)'
         /\ \A i : Held(l, NoFrame, i) = 0
<1>1. NoFrame.op = "none" /\ NoFrame.done = 0
  BY DEF NoFrame
<1>2. NoFrame.done >= 0
  BY SMTT(20), <1>1
<1>3. \A i : Held(l, NoFrame, i) = 0
  BY <1>1, HeldByNobody
<1>4. NewFileInv(l, NoFrame)
  BY <1>1, <1>2 DEF NewFileInv, Allocating, Opening
<1>5. FileRefInv(p, l, NoFrame)'
  BY <1>1 DEF FileRefInv, HoldsFile, Closing
<1> QED BY <1>3, <1>4, <1>5

\* file_open(): the call's reference becomes the descriptor's, or stays load()'s, or is
\* closed.
LEMMA FileOpenUse ==
  ASSUME Facts, FileSysInv, UseInv, NEW p \in Proc, Actor(p), file_open(p)
  PROVE  UseInv'
<1>0. PICK f : f = frame[p]
  OBVIOUS
<1>1. /\ f \in Locals /\ FileRefInv(p, pc[p], f) /\ NewFileInv(pc[p], f)
      /\ pc[p] = "file_open" /\ f.op # "close" /\ pc[p] # "inode_free"
  BY <1>0, UseFacts DEF file_open, At, Closing
<1>2. UNCHANGED <<disk_inode, disk_data, inodeVars, exec_file>>
  BY DEF file_open, diskVars
<1>3. \A i : Held(pc[p], f, i) = Points(f.inode, i)
  BY <1>1, HeldInode
<1>4. PICK file : file = [inode |-> f.inode, pos |-> 0, deny_write |-> FALSE]
  OBVIOUS
<1>5. \/ /\ UNCHANGED fd_tab
         /\ CallInodeClose(p, [f EXCEPT !.inode = NULL], f.inode, "return")
      \/ f.op = "load" /\ UNCHANGED fd_tab /\ Goto(p, "deny_write", f)
      \/ /\ f.inode # NULL /\ f.op = "open" /\ Goto(p, "user", NoFrame)
         /\ fd_tab' = [fd_tab EXCEPT ![p] = Append(fd_tab[p], file)]
  <2>1. PICK ok :
           IF f.inode = NULL \/ ~ ok
           THEN /\ CallInodeClose(p, [f EXCEPT !.inode = NULL], f.inode, "return")
                /\ UNCHANGED fd_tab
           ELSE \/ /\ f.op = "open"
                   /\ fd_tab' = [fd_tab EXCEPT ![p] = Append(@, file)]
                   /\ Goto(p, "user", NoFrame)
                \/ /\ f.op = "load" /\ Goto(p, "deny_write", f)
                   /\ UNCHANGED fd_tab
    BY <1>0, <1>4 DEF file_open, Return
  <2> QED BY <2>1
<1>6. CASE UNCHANGED fd_tab /\ CallInodeClose(p, [f EXCEPT !.inode = NULL], f.inode, "return")
  <2>1. PICK g : g = [f EXCEPT !.inode = NULL, !.closing = f.inode, !.ret = "return"]
    OBVIOUS
  <2>2. g = [[f EXCEPT !.inode = NULL] EXCEPT !.closing = f.inode, !.ret = "return"]
    BY <1>1, <2>1 DEF Locals
  <2>3. Goto(p, "inode_close", g)
    BY <1>6, <2>2 DEF CallInodeClose
  <2>4. g.op = f.op /\ g.done = f.done /\ g.size = f.size /\ g.closing = f.inode /\ g.ret = "return"
    BY <1>1, <2>1 DEF Locals
  <2>5. FileRefInv(p, "inode_close", g)
    <3>1. ~ HoldsFile("inode_close", g)
      BY <2>4 DEF HoldsFile
    <3> QED BY <1>1, <2>4, <3>1 DEF FileRefInv
  <2>6. NewFileInv("inode_close", g)
    <3>1. f.done >= 0 /\ (f.op = "create" => f.size \in FileSize)
      BY <1>1 DEF NewFileInv
    <3> QED BY <2>4, <3>1 DEF NewFileInv, Allocating, Opening
  <2>7. \A i \in InodeId : Held("inode_close", g, i) = Held(pc[p], f, i)
    BY <1>1, <1>3, <2>4, HeldClosing
  <2>8. SameHeld(p, "inode_close", g)
    BY <1>0, <2>7 DEF SameHeld
  <2> QED BY <1>1, <1>2, <1>6, <2>3, <2>5, <2>6, <2>8, UseQuiet DEF fileVars
<1>7. CASE f.op = "load" /\ UNCHANGED fd_tab /\ Goto(p, "deny_write", f)
  <2>1. FileRefInv(p, "deny_write", f)
    BY <1>1, <1>7 DEF FileRefInv, HoldsFile, Closing
  <2>2. NewFileInv("deny_write", f)
    BY <1>1 DEF NewFileInv, Allocating, Opening
  <2>3. \A i \in InodeId : Held("deny_write", f, i) = Held(pc[p], f, i)
    BY SMTT(20), <1>1, <1>3, HeldInode
  <2>4. SameHeld(p, "deny_write", f)
    BY <1>0, <2>3 DEF SameHeld
  <2> QED BY <1>1, <1>2, <1>7, <2>1, <2>2, <2>4, UseQuiet DEF fileVars
<1>8. CASE /\ f.inode # NULL /\ f.op = "open" /\ Goto(p, "user", NoFrame)
           /\ fd_tab' = [fd_tab EXCEPT ![p] = Append(fd_tab[p], file)]
  <2>1. f.inode \in InodeId /\ NotRoot(f.inode) /\ Len(fd_tab[p]) < MaxFd
    BY <1>1, <1>8 DEF Locals, FileRefInv, HoldsFile
  <2>2. file \in File /\ file.inode = f.inode /\ file # NULL
    <3>1. 0 \in Nat
      BY SMTT(20)
    <3>2. file \in File /\ file.inode = f.inode
      BY <1>4, <2>1, <3>1 DEF File
    <3> QED BY <3>2, NullAssumption
  <2>3. /\ fd_tab \in [Proc -> Seq(OpenFile \cup {NULL})]
        /\ fd_tab[p] \in Seq(OpenFile \cup {NULL})
    BY DEF FileSysInv, TypeInv
  <2>4. fd_tab'[p] = Append(fd_tab[p], file) /\ \A q \in Proc \ {p} : fd_tab'[q] = fd_tab[q]
    BY <1>8, <2>3
  <2>5. PICK fd : fd = Len(fd_tab[p]) + 1
    OBVIOUS
  <2>6. /\ fd \in 1..MaxFd /\ fd \notin 1..Len(fd_tab[p])
        /\ 1..Len(fd_tab'[p]) = 1..Len(fd_tab[p]) \cup {fd} /\ Len(fd_tab'[p]) <= MaxFd
        /\ fd_tab'[p][fd] = file
        /\ \A k \in 1..Len(fd_tab[p]) : fd_tab'[p][k] = fd_tab[p][k]
    BY SMTT(20), <2>1, <2>3, <2>4, <2>5, BoundsAssumption
  <2>7. OpenFd(p)' = OpenFd(p) \cup {fd} /\ fd \notin OpenFd(p)
    BY <2>2, <2>6 DEF OpenFd
  <2>8. \A k \in OpenFd(p) : fd_tab'[p][k] = fd_tab[p][k]
    BY <2>6 DEF OpenFd
  <2>9. \A i \in InodeId : Cardinality(Refs(i)') = Cardinality(Refs(i)) + Points(f.inode, i)
    <3>1. \A i \in InodeId : Cardinality(Refs(i)')
                               = Cardinality(Refs(i)) + Points(fd_tab'[p][fd].inode, i)
      BY <2>4, <2>6, <2>7, <2>8, RefsGrow
    <3>2. fd_tab'[p][fd].inode = f.inode
      BY <2>2, <2>6
    <3> QED BY <3>1, <3>2
  <2>10. \A i : Runs(i)' = Runs(i)
    BY <1>2 DEF Runs
  <2>11. HandleInv(p)'
    <3>1. HandleInv(p)
      BY DEF UseInv
    <3>2. \A k \in OpenFd(p) : fd_tab[p][k] \in File /\ NotRoot(fd_tab[p][k].inode)
      BY <3>1 DEF HandleInv
    <3>3. \A k \in OpenFd(p)' : fd_tab'[p][k] \in File /\ NotRoot(fd_tab'[p][k].inode)
      BY <2>1, <2>2, <2>6, <2>7, <2>8, <3>2
    <3>4. \A k \in OpenFd(p)' : fd_tab'[p][k] \in File /\ NotRoot(fd_tab[p][k].inode)'
      BY <1>2, <3>3 DEF NotRoot, inodeVars
    <3>5. exec_file'[p] # NULL => exec_file'[p] \in File /\ NotRoot(exec_file[p].inode)'
      BY <1>2, <3>1 DEF HandleInv, NotRoot, inodeVars
    <3> QED BY <2>6, <3>4, <3>5 DEF HandleInv
  <2>12. /\ NewFileInv("user", NoFrame) /\ FileRefInv(p, "user", NoFrame)'
         /\ \A i : Held("user", NoFrame, i) = 0
    BY ReturnUse
  <2>13. ASSUME NEW i \in InodeId
         PROVE  /\ Cardinality(Refs(i)') + Cardinality(Runs(i)') + Held("user", NoFrame, i)
                     = Cardinality(Refs(i)) + Cardinality(Runs(i)) + Held(pc[p], frame[p], i)
                /\ inode'[i].deny_write_cnt = Cardinality(Runs(i)')
                /\ inode'[i].sector = inode[i].sector /\ inode'[i].open_cnt = inode[i].open_cnt
    <3>1. PICK n, m, h : n = Cardinality(Refs(i)) /\ m = Cardinality(Runs(i)) /\ h = Points(f.inode, i)
      OBVIOUS
    <3>2. n \in Nat /\ m \in Nat /\ h \in Int
      BY <3>1, CardinalRefs, PointsType
    <3>3. (n + h) + m + 0 = n + m + h
      BY SMTT(20), <3>2
    <3>4. inode[i].deny_write_cnt = Cardinality(Runs(i))
      BY DEF UseInv, CountInv
    <3> QED BY <1>0, <1>2, <1>3, <2>9, <2>10, <2>12, <3>1, <3>3, <3>4 DEF inodeVars
  <2>14. OnlyFiles(p) /\ Balanced(p, "user", NoFrame)
    BY <1>2, <2>4, <2>13 DEF OnlyFiles, Balanced, inodeVars
  <2> QED BY <1>1, <1>8, <2>11, <2>12, <2>14, FilesUse
<1> QED BY <1>5, <1>6, <1>7, <1>8

\* load() makes the file the process's program and denies writes to it.
LEMMA DenyUse ==
  ASSUME Facts, FileSysInv, UseInv, NEW p \in Proc, Actor(p), deny_write(p)
  PROVE  UseInv'
<1>0. PICK f : f = frame[p]
  OBVIOUS
<1>1. /\ f \in Locals /\ FileRefInv(p, pc[p], f) /\ NewFileInv(pc[p], f) /\ ClosingInv(p)
      /\ pc[p] = "deny_write" /\ f.op # "close" /\ pc[p] # "inode_free"
  BY <1>0, UseFacts DEF deny_write, At, Closing
<1>2. UNCHANGED <<disk_inode, disk_data, open_inodes, fd_tab>>
  BY DEF deny_write, diskVars
<1>3. \A i : Held(pc[p], f, i) = Points(f.inode, i)
  BY <1>1, HeldInode
<1>4. PICK file : file = [inode |-> f.inode, pos |-> 0, deny_write |-> TRUE]
  OBVIOUS
<1>5. /\ exec_file' = [exec_file EXCEPT ![p] = file]
      /\ inode' = [inode EXCEPT ![f.inode].deny_write_cnt = @ + 1]
  BY <1>0, <1>4 DEF deny_write
<1>6. PICK l \in {"user", "exit"} : Goto(p, l, NoFrame)
  BY DEF deny_write, Return
<1>7. f.inode \in InodeId /\ NotRoot(f.inode)
  <2>1. f.inode \in InodeId
    BY <1>0, <1>1 DEF ClosingInv
  <2> QED BY <1>1, <2>1, NullAssumption DEF FileRefInv, HoldsFile
<1>8. file \in File /\ file.inode = f.inode /\ file # NULL
  <2>1. 0 \in Nat
    BY SMTT(20)
  <2>2. file \in File /\ file.inode = f.inode
    BY <1>4, <1>7, <2>1 DEF File
  <2> QED BY <2>2, NullAssumption
<1>9. exec_file[p] = NULL
  BY <1>1 DEF FileRefInv
<1>10. /\ exec_file \in [Proc -> OpenFile \cup {NULL}] /\ inode \in [InodeId -> Inode]
  BY DEF FileSysInv, TypeInv
<1>11. \A i : Cardinality(Runs(i)') = Cardinality(Runs(i)) + Points(f.inode, i)
  BY <1>5, <1>8, <1>9, <1>10, RunsGrow
<1>12. \A i : Refs(i)' = Refs(i)
  BY <1>2 DEF Refs, OpenFd
<1>13. /\ NewFileInv(l, NoFrame) /\ FileRefInv(p, l, NoFrame)'
       /\ \A i : Held(l, NoFrame, i) = 0
  BY ReturnUse
<1>14. ASSUME NEW i \in InodeId
       PROVE  /\ Cardinality(Refs(i)') + Cardinality(Runs(i)') + Held(l, NoFrame, i)
                   = Cardinality(Refs(i)) + Cardinality(Runs(i)) + Held(pc[p], frame[p], i)
              /\ inode'[i].deny_write_cnt = Cardinality(Runs(i)')
              /\ inode'[i].sector = inode[i].sector /\ inode'[i].open_cnt = inode[i].open_cnt
  <2>1. PICK n, m, h : n = Cardinality(Refs(i)) /\ m = Cardinality(Runs(i)) /\ h = Points(f.inode, i)
    OBVIOUS
  <2>2. n \in Nat /\ m \in Nat /\ h \in Int
    BY <2>1, CardinalRefs, PointsType
  <2>3. n + (m + h) + 0 = n + m + h
    BY SMTT(20), <2>2
  <2>4. inode[i].deny_write_cnt = m
    BY <2>1 DEF UseInv, CountInv
  <2>5. inode[i] \in Inode
    BY <1>10
  <2>6. /\ inode'[i].deny_write_cnt = m + h
        /\ inode'[i].sector = inode[i].sector /\ inode'[i].open_cnt = inode[i].open_cnt
    <3>1. CASE i = f.inode
      <4>1. inode'[i] = [inode[i] EXCEPT !.deny_write_cnt = @ + 1]
        BY <1>5, <1>10, <3>1
      <4>2. h = 1
        BY <2>1, <3>1 DEF Points
      <4> QED BY <2>4, <2>5, <4>1, <4>2 DEF Inode
    <3>2. CASE i # f.inode
      <4>1. inode'[i] = inode[i]
        BY <1>5, <1>7, <1>10, <3>2
      <4>2. h = 0
        BY <2>1, <3>2 DEF Points
      <4>3. m + 0 = m
        BY SMTT(20), <2>2
      <4> QED BY <2>4, <4>1, <4>2, <4>3
    <3> QED BY <3>1, <3>2
  <2> QED BY <1>0, <1>3, <1>11, <1>12, <1>13, <2>1, <2>3, <2>6
<1>15. HandleInv(p)'
  <2>1. HandleInv(p)
    BY DEF UseInv
  <2>2. \A i \in InodeId : NotRoot(i) => NotRoot(i)'
    BY <1>14 DEF NotRoot
  <2>3. OpenFd(p)' = OpenFd(p) /\ exec_file'[p] = file
    BY <1>2, <1>5, <1>10 DEF OpenFd
  <2>4. \A k \in OpenFd(p) : /\ fd_tab[p][k] \in File /\ NotRoot(fd_tab[p][k].inode)
                             /\ fd_tab[p][k].inode \in InodeId
    BY <2>1 DEF HandleInv, File
  <2>5. \A k \in OpenFd(p) : fd_tab[p][k] \in File /\ inode'[fd_tab[p][k].inode].sector # ROOT_DIR_SECTOR
    BY <2>2, <2>4 DEF NotRoot
  <2>6. inode'[file.inode].sector # ROOT_DIR_SECTOR
    BY <1>7, <1>8, <2>2 DEF NotRoot
  <2>7. Len(fd_tab[p]) <= MaxFd
    BY <2>1 DEF HandleInv
  <2> QED BY <1>2, <1>8, <2>3, <2>5, <2>6, <2>7 DEF HandleInv, NotRoot
<1>16. \A q \in Proc \ {p} : fd_tab'[q] = fd_tab[q] /\ exec_file'[q] = exec_file[q]
  BY <1>2, <1>5, <1>10
<1>17. OnlyFiles(p) /\ Balanced(p, l, NoFrame)
  BY <1>2, <1>14, <1>16 DEF OnlyFiles, Balanced
<1> QED BY <1>1, <1>6, <1>13, <1>15, <1>17, FilesUse

\* A call is over, and close forgets its descriptor.
LEMMA ReturnStepUse ==
  ASSUME Facts, FileSysInv, UseInv, NEW p \in Proc, Actor(p), return(p)
  PROVE  UseInv'
<1>0. PICK f : f = frame[p]
  OBVIOUS
<1>1. /\ f \in Locals /\ FileRefInv(p, pc[p], f) /\ NewFileInv(pc[p], f)
      /\ pc[p] = "return" /\ pc[p] # "inode_free"
  BY <1>0, UseFacts DEF return, At
<1>2. UNCHANGED <<disk_inode, disk_data, inodeVars, exec_file>>
  BY DEF return, diskVars
<1>3. PICK l \in {"user", "exit"} : Goto(p, l, NoFrame)
  BY DEF return, Return
<1>4. /\ NewFileInv(l, NoFrame) /\ FileRefInv(p, l, NoFrame)'
      /\ \A i : Held(l, NoFrame, i) = 0
  BY ReturnUse
<1>5. CASE f.op # "close"
  <2>1. UNCHANGED fd_tab
    BY <1>0, <1>5 DEF return
  <2>2. FileRefInv(p, l, NoFrame)
    BY <1>2, <1>4, <2>1 DEF FileRefInv, NotRoot, OpenFd, inodeVars
  <2>3. \A i : Held(pc[p], f, i) = 0
    BY SMTT(20), <1>1, <1>5, HeldByNobody
  <2>4. \A i \in InodeId : Held(l, NoFrame, i) = Held(pc[p], f, i)
    BY <1>4, <2>3
  <2>5. SameHeld(p, l, NoFrame)
    BY <1>0, <2>4 DEF SameHeld
  <2> QED BY <1>1, <1>2, <1>3, <1>4, <2>1, <2>2, <2>5, UseQuiet DEF fileVars
<1>6. CASE f.op = "close"
  <2>1. PICK fd \in OpenFd(p) : fd = f.fd /\ fd_tab[p][fd].inode = f.closing
    BY <1>1, <1>6 DEF FileRefInv
  <2>2. fd_tab' = [fd_tab EXCEPT ![p][fd] = NULL]
    BY <1>0, <1>6, <2>1 DEF return
  <2>3. /\ fd_tab \in [Proc -> Seq(OpenFile \cup {NULL})] /\ TypeInv
        /\ fd_tab[p] \in Seq(OpenFile \cup {NULL})
    BY DEF FileSysInv, TypeInv
  <2>4. fd \in 1..MaxFd /\ fd_tab[p][fd] \in File /\ fd \in 1..Len(fd_tab[p])
    BY <2>3, OpenFdIsRef DEF OpenFd
  <2>5. /\ fd_tab'[p] = [fd_tab[p] EXCEPT ![fd] = NULL]
        /\ \A q \in Proc \ {p} : fd_tab'[q] = fd_tab[q]
    BY <2>2, <2>3
  <2>6. /\ Len(fd_tab'[p]) = Len(fd_tab[p]) /\ fd_tab'[p][fd] = NULL
        /\ \A k \in 1..Len(fd_tab[p]) : k # fd => fd_tab'[p][k] = fd_tab[p][k]
    BY SMTT(20), <2>3, <2>4, <2>5
  <2>7. OpenFd(p)' = OpenFd(p) \ {fd} /\ \A k \in OpenFd(p) \ {fd} : fd_tab'[p][k] = fd_tab[p][k]
    BY <2>6 DEF OpenFd
  <2>8. \A i : Cardinality(Refs(i)') + Points(f.closing, i) = Cardinality(Refs(i))
    <3>1. \A i : Cardinality(Refs(i)') + Points(fd_tab[p][fd].inode, i) = Cardinality(Refs(i))
      BY <2>4, <2>5, <2>7, RefsShrink
    <3> QED BY <2>1, <3>1
  <2>9. HandleInv(p)'
    <3>1. HandleInv(p)
      BY DEF UseInv
    <3>2. \A k \in OpenFd(p)' : fd_tab'[p][k] \in File /\ NotRoot(fd_tab'[p][k].inode)
      BY <2>7, <3>1 DEF HandleInv
    <3> QED BY <1>2, <2>6, <3>1, <3>2 DEF HandleInv, NotRoot, inodeVars
  <2>10. \A i : Held(pc[p], f, i) = 0 - Points(f.closing, i)
    <3>1. ~ HoldsDir(pc[p], f) /\ ~ HoldsInode(pc[p], f) /\ pc[p] # "inode_close"
      BY <1>1 DEF HoldsDir, HoldsInode, Opening, Allocating, Closing
    <3> QED BY SMTT(20), <1>6, <3>1 DEF Held, Points
  <2>11. ASSUME NEW i \in InodeId
         PROVE  /\ Cardinality(Refs(i)') + Cardinality(Runs(i)') + Held(l, NoFrame, i)
                     = Cardinality(Refs(i)) + Cardinality(Runs(i)) + Held(pc[p], frame[p], i)
                /\ inode'[i].deny_write_cnt = Cardinality(Runs(i)')
                /\ inode'[i].sector = inode[i].sector /\ inode'[i].open_cnt = inode[i].open_cnt
    <3>1. PICK n, m, h : n = Cardinality(Refs(i)') /\ m = Cardinality(Runs(i)) /\ h = Points(f.closing, i)
      OBVIOUS
    <3>2. n \in Nat /\ m \in Nat /\ h \in Int
      BY <3>1, NextCardinalRefs, CardinalRefs, PointsType
    <3>3. n + m + 0 = (n + h) + m + (0 - h)
      BY SMTT(20), <3>2
    <3>4. Runs(i)' = Runs(i) /\ inode[i].deny_write_cnt = Cardinality(Runs(i))
      BY <1>2 DEF Runs, UseInv, CountInv
    <3> QED BY <1>0, <1>2, <1>4, <2>8, <2>10, <3>1, <3>3, <3>4 DEF inodeVars
  <2>12. OnlyFiles(p) /\ Balanced(p, l, NoFrame)
    BY <1>2, <2>5, <2>11 DEF OnlyFiles, Balanced, inodeVars
  <2> QED BY <1>1, <1>3, <1>4, <2>9, <2>12, FilesUse
<1> QED BY <1>5, <1>6

\* process_exit() closes the files one by one, and then the program, which may be
\* written to again.
LEMMA ExitUse ==
  ASSUME Facts, FileSysInv, UseInv, NEW p \in Proc, Actor(p), process_exit(p)
  PROVE  UseInv'
<1>0. PICK f : f = frame[p]
  OBVIOUS
<1>1. /\ f \in Locals /\ FileRefInv(p, pc[p], f) /\ NewFileInv(pc[p], f)
      /\ pc[p] = "exit" /\ f.op # "close" /\ pc[p] # "inode_free"
  BY <1>0, UseFacts DEF process_exit, At, Closing
<1>2. UNCHANGED <<disk_inode, disk_data, open_inodes>>
  BY DEF process_exit, diskVars
<1>3. \A i : Held(pc[p], f, i) = 0
  BY <1>1, HeldByNobody
<1>4. /\ fd_tab \in [Proc -> Seq(OpenFile \cup {NULL})] /\ TypeInv
      /\ fd_tab[p] \in Seq(OpenFile \cup {NULL}) /\ inode \in [InodeId -> Inode]
      /\ exec_file \in [Proc -> OpenFile \cup {NULL}]
  BY DEF FileSysInv, TypeInv
<1>5. HandleInv(p)
  BY DEF UseInv
\* The process closes struct inode C.
<1>6. ASSUME NEW c, NEW g, g = [f EXCEPT !.closing = c, !.ret = "exit"],
             f.op = "open" => Len(fd_tab'[p]) < MaxFd, f.op = "load" => exec_file'[p] = NULL
      PROVE  /\ NewFileInv("inode_close", g) /\ FileRefInv(p, "inode_close", g)'
             /\ \A i : Held("inode_close", g, i) = Points(c, i)
  <2>1. g.op = f.op /\ g.done = f.done /\ g.size = f.size /\ g.closing = c /\ g.ret = "exit"
    BY <1>1, <1>6 DEF Locals
  <2>2. f.done >= 0 /\ (f.op = "create" => f.size \in FileSize)
    BY <1>1 DEF NewFileInv
  <2>3. NewFileInv("inode_close", g)
    BY <2>1, <2>2 DEF NewFileInv, Allocating, Opening
  <2>4. \A i : Held("inode_close", g, i) = Points(c, i)
    BY <1>1, <2>1, HeldClosing
  <2>5. ~ HoldsFile("inode_close", g)
    BY <2>1 DEF HoldsFile
  <2>6. FileRefInv(p, "inode_close", g)'
    BY SMTT(20), <1>1, <1>6, <2>1, <2>5 DEF FileRefInv
  <2> QED BY <2>3, <2>4, <2>6
\* The last descriptor.
<1>7. CASE fd_tab[p] # <<>>
  <2>1. PICK fd : fd = Len(fd_tab[p])
    OBVIOUS
  <2>2. PICK c : c = IF fd_tab[p][fd] = NULL THEN NULL ELSE fd_tab[p][fd].inode
    OBVIOUS
  <2>3. PICK g : g = [f EXCEPT !.closing = c, !.ret = "exit"]
    OBVIOUS
  <2>4. /\ fd_tab' = [fd_tab EXCEPT ![p] = SubSeq(fd_tab[p], 1, fd - 1)]
        /\ Goto(p, "inode_close", g) /\ UNCHANGED <<inode, exec_file>>
    BY <1>0, <1>7, <2>1, <2>2, <2>3 DEF process_exit, CallInodeClose
  <2>5. /\ fd_tab'[p] = SubSeq(fd_tab[p], 1, fd - 1)
        /\ \A q \in Proc \ {p} : fd_tab'[q] = fd_tab[q]
    BY <1>4, <2>4
  <2>6. /\ Len(fd_tab'[p]) <= Len(fd_tab[p]) /\ Len(fd_tab'[p]) \in Nat /\ Len(fd_tab[p]) \in Nat
        /\ fd \in 1..Len(fd_tab[p]) /\ 1..Len(fd_tab'[p]) = 1..Len(fd_tab[p]) \ {fd}
        /\ \A k \in 1..Len(fd_tab[p]) : k # fd => fd_tab'[p][k] = fd_tab[p][k]
    BY SMTT(20), <1>4, <1>7, <2>1, <2>5
  <2>7. OpenFd(p)' = OpenFd(p) \ {fd} /\ \A k \in OpenFd(p) \ {fd} : fd_tab'[p][k] = fd_tab[p][k]
    BY <2>6 DEF OpenFd
  <2>8. \A i \in InodeId : Cardinality(Refs(i)') + Points(c, i) = Cardinality(Refs(i))
    <3>1. CASE fd_tab[p][fd] = NULL
      <4>1. OpenFd(p)' = OpenFd(p) /\ \A k \in OpenFd(p) : fd_tab'[p][k] = fd_tab[p][k]
        BY <2>6, <2>7, <3>1 DEF OpenFd
      <4>2. SUFFICES ASSUME NEW i \in InodeId
                     PROVE  Cardinality(Refs(i)') + Points(c, i) = Cardinality(Refs(i))
        OBVIOUS
      <4>3. Refs(i)' = Refs(i)
        <5>1. ASSUME NEW m \in Proc \X (1..MaxFd) PROVE m \in Refs(i)' <=> m \in Refs(i)
          <6>1. m[1] \in Proc
            BY SMTT(20)
          <6>2. CASE m[1] = p
            BY <4>1, <6>2 DEF Refs
          <6>3. CASE m[1] # p
            BY <2>5, <6>1, <6>3 DEF Refs, OpenFd
          <6> QED BY <6>2, <6>3
        <5>2. Refs(i) \subseteq Proc \X (1..MaxFd) /\ Refs(i)' \subseteq Proc \X (1..MaxFd)
          BY DEF Refs
        <5>3. Refs(i)' \subseteq Refs(i) /\ Refs(i) \subseteq Refs(i)'
          BY <5>1, <5>2
        <5> QED BY <5>3
      <4>4. Points(c, i) = 0
        BY <2>2, <3>1, PointsType
      <4>5. Cardinality(Refs(i)) + 0 = Cardinality(Refs(i))
        BY SMTT(20), CardinalRefs
      <4> QED BY <4>3, <4>4, <4>5
    <3>2. CASE fd_tab[p][fd] # NULL
      <4>1. fd \in OpenFd(p) /\ c = fd_tab[p][fd].inode
        BY <2>2, <2>6, <3>2 DEF OpenFd
      <4>2. fd \in 1..MaxFd
        BY <1>4, <4>1, OpenFdIsRef
      <4>3. \A i : Cardinality(Refs(i)') + Points(fd_tab[p][fd].inode, i) = Cardinality(Refs(i))
        BY <2>5, <2>7, <4>1, <4>2, RefsShrink
      <4> QED BY <4>1, <4>3
    <3> QED BY <3>1, <3>2
  <2>9. Len(fd_tab[p]) <= MaxFd /\ Len(fd_tab'[p]) <= MaxFd
    <3>1. Len(fd_tab[p]) <= MaxFd
      BY <1>5 DEF HandleInv
    <3>2. Len(fd_tab'[p]) <= MaxFd
      BY SMTT(20), <2>6, <3>1, BoundsAssumption
    <3> QED BY <3>1, <3>2
  <2>10. HandleInv(p)'
    <3>1. \A k \in OpenFd(p)' : fd_tab'[p][k] \in File /\ NotRoot(fd_tab'[p][k].inode)
      BY <1>5, <2>7 DEF HandleInv
    <3>2. exec_file[p] # NULL => exec_file[p] \in File /\ NotRoot(exec_file[p].inode)
      BY <1>5 DEF HandleInv
    <3> QED BY <2>4, <2>9, <3>1, <3>2 DEF HandleInv, NotRoot
  <2>11. /\ NewFileInv("inode_close", g) /\ FileRefInv(p, "inode_close", g)'
         /\ \A i : Held("inode_close", g, i) = Points(c, i)
    <3>1. f.op = "open" => Len(fd_tab[p]) < MaxFd
      BY <1>1 DEF FileRefInv
    <3>2. f.op = "open" => Len(fd_tab'[p]) < MaxFd
      BY SMTT(20), <2>6, <3>1, BoundsAssumption
    <3>3. f.op = "load" => exec_file'[p] = NULL
      BY <1>1, <2>4 DEF FileRefInv
    <3> QED BY <1>6, <2>3, <3>2, <3>3
  <2>12. ASSUME NEW i \in InodeId
         PROVE  /\ Cardinality(Refs(i)') + Cardinality(Runs(i)') + Held("inode_close", g, i)
                     = Cardinality(Refs(i)) + Cardinality(Runs(i)) + Held(pc[p], frame[p], i)
                /\ inode'[i].deny_write_cnt = Cardinality(Runs(i)')
                /\ inode'[i].sector = inode[i].sector /\ inode'[i].open_cnt = inode[i].open_cnt
    <3>1. PICK n, m, h : n = Cardinality(Refs(i)') /\ m = Cardinality(Runs(i)) /\ h = Points(c, i)
      OBVIOUS
    <3>2. n \in Nat /\ m \in Nat /\ h \in Int
      BY <3>1, NextCardinalRefs, CardinalRefs, PointsType
    <3>3. n + m + h = (n + h) + m + 0
      BY SMTT(20), <3>2
    <3>4. Runs(i)' = Runs(i) /\ inode[i].deny_write_cnt = Cardinality(Runs(i))
      BY <2>4 DEF Runs, UseInv, CountInv
    <3> QED BY <1>0, <1>3, <2>4, <2>8, <2>11, <3>1, <3>3, <3>4
  <2>13. \A q \in Proc \ {p} : fd_tab'[q] = fd_tab[q] /\ exec_file'[q] = exec_file[q]
    BY <2>4, <2>5
  <2>14. OnlyFiles(p) /\ Balanced(p, "inode_close", g)
    BY <1>2, <2>12, <2>13 DEF OnlyFiles, Balanced
  <2> QED BY <1>1, <2>4, <2>10, <2>11, <2>14, FilesUse
\* The program's file.
<1>8. CASE fd_tab[p] = <<>> /\ exec_file[p] # NULL
  <2>1. PICK c \in InodeId : c = exec_file[p].inode
    BY <1>8, ProgramIsRef
  <2>2. PICK g : g = [f EXCEPT !.closing = c, !.ret = "exit"]
    OBVIOUS
  <2>3. /\ exec_file' = [exec_file EXCEPT ![p] = NULL]
        /\ inode' = [inode EXCEPT ![c].deny_write_cnt = @ - 1]
        /\ Goto(p, "inode_close", g) /\ UNCHANGED fd_tab
    BY <1>0, <1>8, <2>1, <2>2 DEF process_exit, CallInodeClose
  <2>4. exec_file'[p] = NULL /\ \A q \in Proc \ {p} : exec_file'[q] = exec_file[q]
    BY <1>4, <2>3
  <2>5. \A i : Cardinality(Runs(i)') + Points(c, i) = Cardinality(Runs(i))
    <3>1. \A i : Cardinality(Runs(i)') + Points(exec_file[p].inode, i) = Cardinality(Runs(i))
      BY <1>4, <1>8, <2>3, RunsShrink
    <3> QED BY <2>1, <3>1
  <2>6. \A i : Refs(i)' = Refs(i)
    BY <2>3 DEF Refs, OpenFd
  <2>7. /\ NewFileInv("inode_close", g) /\ FileRefInv(p, "inode_close", g)'
        /\ \A i : Held("inode_close", g, i) = Points(c, i)
    <3>1. f.op = "open" => Len(fd_tab'[p]) < MaxFd
      BY <1>1, <2>3 DEF FileRefInv
    <3> QED BY <1>6, <2>2, <2>4, <3>1
  <2>8. ASSUME NEW i \in InodeId
        PROVE  /\ Cardinality(Refs(i)') + Cardinality(Runs(i)') + Held("inode_close", g, i)
                    = Cardinality(Refs(i)) + Cardinality(Runs(i)) + Held(pc[p], frame[p], i)
               /\ inode'[i].deny_write_cnt = Cardinality(Runs(i)')
               /\ inode'[i].sector = inode[i].sector /\ inode'[i].open_cnt = inode[i].open_cnt
    <3>1. PICK n, m, h : n = Cardinality(Refs(i)) /\ m = Cardinality(Runs(i)') /\ h = Points(c, i)
      OBVIOUS
    <3>2. n \in Nat /\ m \in Nat /\ h \in Int
      BY <3>1, NextCardinalRefs, CardinalRefs, PointsType
    <3>3. n + m + h = n + (m + h) + 0
      BY SMTT(20), <3>2
    <3>4. inode[i].deny_write_cnt = m + h
      BY <2>5, <3>1 DEF UseInv, CountInv
    <3>5. inode[i] \in Inode
      BY <1>4
    <3>6. /\ inode'[i].deny_write_cnt = m
          /\ inode'[i].sector = inode[i].sector /\ inode'[i].open_cnt = inode[i].open_cnt
      <4>1. CASE i = c
        <5>1. inode'[i] = [inode[i] EXCEPT !.deny_write_cnt = @ - 1]
          BY <1>4, <2>3, <4>1
        <5>2. h = 1
          BY <3>1, <4>1 DEF Points
        <5>3. (m + 1) - 1 = m
          BY SMTT(20), <3>2
        <5>4. /\ inode'[i].deny_write_cnt = inode[i].deny_write_cnt - 1
              /\ inode'[i].sector = inode[i].sector /\ inode'[i].open_cnt = inode[i].open_cnt
          BY <3>5, <5>1 DEF Inode
        <5> QED BY <3>4, <5>2, <5>3, <5>4
      <4>2. CASE i # c
        <5>1. inode'[i] = inode[i]
          BY <1>4, <2>3, <4>2
        <5>2. h = 0
          BY <3>1, <4>2 DEF Points
        <5>3. m + 0 = m
          BY SMTT(20), <3>2
        <5> QED BY <3>4, <5>1, <5>2, <5>3
      <4> QED BY <4>1, <4>2
    <3> QED BY <1>0, <1>3, <2>5, <2>6, <2>7, <3>1, <3>3, <3>6
  <2>9. HandleInv(p)'
    <3>1. OpenFd(p)' = OpenFd(p)
      BY <2>3 DEF OpenFd
    <3>2. \A k \in OpenFd(p) : /\ fd_tab[p][k] \in File /\ NotRoot(fd_tab[p][k].inode)
                               /\ fd_tab[p][k].inode \in InodeId
      BY <1>5 DEF HandleInv, File
    <3>3. \A k \in OpenFd(p) : /\ fd_tab[p][k] \in File
                               /\ inode'[fd_tab[p][k].inode].sector # ROOT_DIR_SECTOR
      BY <2>8, <3>2 DEF NotRoot
    <3>4. Len(fd_tab[p]) <= MaxFd
      BY <1>5 DEF HandleInv
    <3> QED BY <2>3, <2>4, <3>1, <3>3, <3>4 DEF HandleInv, NotRoot
  <2>10. \A q \in Proc \ {p} : fd_tab'[q] = fd_tab[q] /\ exec_file'[q] = exec_file[q]
    BY <2>3, <2>4
  <2>11. OnlyFiles(p) /\ Balanced(p, "inode_close", g)
    BY <1>2, <2>8, <2>10 DEF OnlyFiles, Balanced
  <2> QED BY <1>1, <2>3, <2>7, <2>9, <2>11, FilesUse
<1>9. CASE fd_tab[p] = <<>> /\ exec_file[p] = NULL
  <2>1. Goto(p, "none", NoFrame) /\ UNCHANGED <<inode, fileVars>>
    BY <1>9 DEF process_exit, Return
  <2>2. exec_file'[p] = NULL
    BY <1>9, <2>1 DEF fileVars
  <2>3. /\ NewFileInv("none", NoFrame) /\ FileRefInv(p, "none", NoFrame)'
        /\ \A i : Held("none", NoFrame, i) = 0
    BY <2>2, ReturnUse
  <2>4. FileRefInv(p, "none", NoFrame)
    BY <2>1, <2>3 DEF FileRefInv, NotRoot, OpenFd, fileVars
  <2>5. \A i \in InodeId : Held("none", NoFrame, i) = Held(pc[p], f, i)
    BY <1>3, <2>3
  <2>6. SameHeld(p, "none", NoFrame)
    BY <1>0, <2>5 DEF SameHeld
  <2> QED BY <1>1, <1>2, <2>1, <2>3, <2>4, <2>6, UseQuiet DEF inodeVars
<1> QED BY <1>7, <1>8, <1>9

\* Nothing is open when the machine starts.
LEMMA StartUse ==
  ASSUME Facts, inode = NoInodes, open_inodes = <<>>, fd_tab = NoFiles, exec_file = NoPrograms,
         pc = NoProcesses, frame = NoFrames, DataInv
  PROVE  UseInv
<1>1. /\ NoFrame.op = "none" /\ NoFrame.done = 0
      /\ NoInode.open_cnt = 0 /\ NoInode.deny_write_cnt = 0
  BY DEF NoFrame, NoInode
<1>2. NoFrame.done >= 0 /\ 0 <= MaxFd /\ 0 + 0 + 0 = 0 /\ Len(<<>>) = 0 /\ 1..0 = {}
  BY SMTT(20), <1>1, BoundsAssumption
<1>3. ASSUME NEW q \in Proc
      PROVE  /\ pc[q] = "none" /\ frame[q] = NoFrame /\ fd_tab[q] = <<>> /\ exec_file[q] = NULL
             /\ OpenFd(q) = {}
  <2>1. pc[q] = "none" /\ frame[q] = NoFrame /\ fd_tab[q] = <<>> /\ exec_file[q] = NULL
    BY DEF NoProcesses, NoFrames, NoFiles, NoPrograms
  <2> QED BY <1>2, <2>1 DEF OpenFd
<1>4. \A i : Refs(i) = {} /\ Runs(i) = {}
  <2>1. ASSUME NEW i, NEW m \in Proc \X (1..MaxFd) PROVE m \notin Refs(i)
    <3>1. m[1] \in Proc
      BY SMTT(20)
    <3> QED BY <1>3, <3>1 DEF Refs
  <2>2. \A i : Runs(i) = {}
    BY <1>3 DEF Runs
  <2>3. \A i : Refs(i) \subseteq Proc \X (1..MaxFd)
    BY DEF Refs
  <2> QED BY <2>1, <2>2, <2>3
<1>5. Cardinality({}) = 0
  BY DEF Facts, CountFacts
<1>6. Elements(<<>>) = {}
  BY SMTT(20) DEF Elements, Range
<1>7. ASSUME NEW q \in Proc PROVE CountInv(q)
  <2>1. \A i : Held(pc[q], frame[q], i) = 0
    BY <1>1, <1>3, HeldByNobody
  <2>2. \A i \in InodeId : inode[i] = NoInode
    BY DEF NoInodes
  <2> QED BY <1>1, <1>2, <1>4, <1>5, <1>6, <2>1, <2>2 DEF CountInv
<1>8. ASSUME NEW q \in Proc PROVE HandleInv(q)
  BY <1>2, <1>3 DEF HandleInv
<1>9. ASSUME NEW q \in Proc PROVE FileRefInv(q, pc[q], frame[q]) /\ NewFileInv(pc[q], frame[q])
  BY <1>1, <1>2, <1>3 DEF FileRefInv, NewFileInv, HoldsFile, Closing, Opening, Allocating
<1> QED BY <1>7, <1>8, <1>9 DEF UseInv

\* At the start nobody refers to anything.
LEMMA InitUse ==
  ASSUME Facts, Init
  PROVE  UseInv
<1>2. DataInv
  <2>1. disk_data = [s \in Sector |-> Zeros]
    BY DEF Init, Format
  <2>2. Zeros \in [0..BLOCK_SECTOR_SIZE - 1 -> Byte]
    BY DEF Zeros, Byte
  <2>3. \A s \in Sector : disk_inode[s].length = BLOCK_SECTOR_SIZE
    BY DEF Init, Format, NoInodeDisk
  <2> QED BY <2>1, <2>2, <2>3 DEF DataInv
<1> QED BY <1>2, StartUse DEF Init

\* Nor does anybody when the machine has booted again.
LEMMA RestartUse ==
  ASSUME Facts, UseInv, Restart
  PROVE  UseInv'
<1>1. DataInv'
  BY DEF UseInv, DataInv, Restart, diskVars
<1>2. /\ inode' = NoInodes /\ open_inodes' = <<>> /\ fd_tab' = NoFiles
      /\ exec_file' = NoPrograms /\ pc' = NoProcesses /\ frame' = NoFrames
  BY DEF Restart
<1>3. inode = NoInodes /\ open_inodes = <<>> /\ fd_tab = NoFiles /\ exec_file = NoPrograms
        /\ pc = NoProcesses /\ frame = NoFrames /\ DataInv => UseInv
  BY StartUse
<1>4. (inode = NoInodes /\ open_inodes = <<>> /\ fd_tab = NoFiles /\ exec_file = NoPrograms
         /\ pc = NoProcesses /\ frame = NoFrames /\ DataInv => UseInv)'
  BY StartUse, PTL
<1> QED BY <1>1, <1>2, <1>4 DEF NoInodes, NoFiles, NoPrograms, NoProcesses, NoFrames

\* Every step of a process.
LEMMA StepUse ==
  ASSUME Facts, FileSysInv, UseInv, NEW p \in Proc, Actor(p),
         InodeStep(p) \/ CreateStep(p) \/ OpenStep(p) \/ RemoveStep(p) \/ FileStep(p)
  PROVE  UseInv'
<1>1. CASE InodeStep(p)
  BY <1>1, OpenUse, AllocUse, ReadUse, CloseUse, FreeUse DEF InodeStep
<1>2. CASE CreateStep(p)
  BY <1>2, BeginUse, CreateUse, WriteInodeUse, WriteZerosUse DEF CreateStep
<1>3. CASE OpenStep(p)
  BY <1>3, BeginUse, DirectoryUse, FileOpenUse, DenyUse, ReturnStepUse DEF OpenStep
<1>4. CASE RemoveStep(p)
  BY <1>4, BeginUse, DirectoryUse, RemoveUse DEF RemoveStep
<1>5. CASE FileStep(p)
  BY <1>5, BeginUse, FileIoUse, SeekUse, ExitUse DEF FileStep
<1> QED BY <1>1, <1>2, <1>3, <1>4, <1>5
-----------------------------------------------------------------------------
(***************************************************************************)
(* What the files hold.                                                    *)
(***************************************************************************)

\* The byte at offset K of a file of N bytes is in one of the file's sectors.
LEMMA ByteIsInSector ==
  ASSUME NEW n \in Nat, NEW k \in 0..n - 1
  PROVE  /\ k \div BLOCK_SECTOR_SIZE \in 0..bytes_to_sectors(n) - 1
         /\ k % BLOCK_SECTOR_SIZE \in 0..BLOCK_SECTOR_SIZE - 1
<1>0. PICK b \in Nat : b = BLOCK_SECTOR_SIZE /\ b > 0
  BY SMTT(20), SizesAssumption
<1>1. PICK q \in Int, r \in 0..b - 1 : k = b * q + r /\ q = k \div b /\ r = k % b
  BY SMTT(20), <1>0
<1>2. PICK m \in Int, t \in 0..b - 1 : n + b - 1 = b * m + t /\ m = (n + b - 1) \div b
  BY SMTT(20), <1>0
<1>3. q >= 0
  BY SMTT(20), <1>0, <1>1
<1>4. q < m
  <2>1. b * q < b * m
    BY SMTT(20), <1>0, <1>1, <1>2
  <2> QED BY SMTT(20), <1>0, <1>1, <1>2, <2>1
<1>5. q \in 0..m - 1
  BY SMTT(20), <1>1, <1>2, <1>3, <1>4
<1> QED BY <1>0, <1>1, <1>2, <1>5 DEF bytes_to_sectors

\* So on the disk it is in a sector of the file's data.
LEMMA SectorOfByte ==
  ASSUME NEW d \in OnDisk, NEW o \in 0..d.length - 1
  PROVE  d.start + o \div BLOCK_SECTOR_SIZE \in DataSectors(d)
<1>1. d.start \in Nat /\ d.length \in Nat
  BY DEF OnDisk
<1>2. PICK k \in 0..bytes_to_sectors(d.length) - 1 : k = o \div BLOCK_SECTOR_SIZE
  BY <1>1, ByteIsInSector
<1>3. bytes_to_sectors(d.length) \in Int
  BY SMTT(20), <1>1, SizesAssumption DEF bytes_to_sectors
<1>4. d.start + k \in d.start..d.start + bytes_to_sectors(d.length) - 1
  BY SMTT(20), <1>1, <1>2, <1>3
<1> QED BY <1>2, <1>4 DEF DataSectors

\* So a file keeps its contents when its inode and its sectors are left alone.
LEMMA ContentsKept ==
  ASSUME NEW f, disk_inode[f] \in OnDisk, disk_inode'[f] = disk_inode[f],
         \A s \in DataSectors(disk_inode[f]) : disk_data'[s] = disk_data[s]
  PROVE  Contents(f)' = Contents(f)
<1>1. PICK d : d = disk_inode[f] /\ d.start \in Nat /\ d.length \in Nat
  BY DEF OnDisk
<1>2. \A i \in 1..d.length :
        disk_data'[d.start + (i - 1) \div BLOCK_SECTOR_SIZE]
          = disk_data[d.start + (i - 1) \div BLOCK_SECTOR_SIZE]
  <2>1. ASSUME NEW i \in 1..d.length
        PROVE  d.start + (i - 1) \div BLOCK_SECTOR_SIZE \in DataSectors(d)
    <3>1. i - 1 \in 0..d.length - 1
      BY SMTT(20), <1>1
    <3> QED BY <1>1, <3>1, SectorOfByte
  <2> QED BY <1>1, <2>1
<1>3. disk_inode'[f] = d
  BY <1>1
<1> QED BY <1>1, <1>2, <1>3 DEF Contents

\* The sectors of a live file are on the disk, and its inode is one.
LEMMA LiveFile ==
  ASSUME FileSysInv, NEW f \in LiveFiles
  PROVE  /\ f \in Sector \ SystemSectors /\ disk_inode[f] \in OnDisk
         /\ f \in SectorsOf(f) /\ DataSectors(disk_inode[f]) \subseteq SectorsOf(f)
         /\ SectorsOf(f) \subseteq Sector
<1>1. SectorsOf(f) \subseteq free_map \ SystemSectors /\ free_map \subseteq Sector
  BY DEF FileSysInv, SectorsInv, TypeInv
<1>2. f \in SectorsOf(f) /\ DataSectors(disk_inode[f]) \subseteq SectorsOf(f)
  BY DEF SectorsOf
<1> QED BY <1>1, <1>2 DEF FileSysInv, TypeInv

\* An open file that is not the directory is live.
LEMMA OpenIsLive ==
  ASSUME NEW i \in Elements(open_inodes), NotRoot(i)
  PROVE  inode[i].sector \in LiveFiles
  BY DEF LiveFiles, OpenSectors, NotRoot

\* The struct inodes on the list stay those of their sectors, until the last
\* opener closes one.
Listed == \A i \in Elements(open_inodes) : inode'[i].sector = inode[i].sector

\* A step that changes another field of a struct inode leaves its sector.
LEMMA FieldsOnly ==
  ASSUME TypeInv, NEW i, NEW r, NEW n,
         \/ r = [inode[i] EXCEPT !.open_cnt = n]
         \/ r = [inode[i] EXCEPT !.deny_write_cnt = n]
         \/ r = [inode[i] EXCEPT !.removed = n]
         \/ r = [inode[i] EXCEPT !.data = n],
         inode' = [inode EXCEPT ![i] = r]
  PROVE  Listed
<1>1. inode \in [InodeId -> Inode]
  BY DEF TypeInv
<1>2. i \in InodeId => r.sector = inode[i].sector
  <2>1. i \in InodeId => inode[i] \in Inode
    BY <1>1
  <2> QED BY <2>1 DEF Inode
<1>3. \A j \in InodeId : inode'[j].sector = inode[j].sector
  BY <1>1, <1>2
<1>4. Elements(open_inodes) \subseteq InodeId
  BY OpenIsInode DEF TypeInv
<1> QED BY <1>3, <1>4 DEF Listed

\* The only step that takes one off the list is inode_free, and the only one that
\* adds one is inode_alloc.
LEMMA ListedKept ==
  ASSUME FileSysInv, UseInv, NEW p \in Proc, Actor(p),
         InodeStep(p) \/ CreateStep(p) \/ OpenStep(p) \/ RemoveStep(p) \/ FileStep(p)
  PROVE  inode_free(p) \/ (Listed /\ (open_inodes' = open_inodes \/ inode_alloc(p)))
<1> USE DEF diskVars, memVars, inodeVars, fileVars
<1>1. TypeInv /\ inode \in [InodeId -> Inode] /\ Elements(open_inodes) \subseteq InodeId
  BY OpenIsInode DEF FileSysInv, TypeInv
<1>2. ClosingInv(p) /\ CountInv(p)
  BY DEF FileSysInv, CallInv, UseInv
<1>3. UNCHANGED inode => Listed
  BY DEF Listed
<1>4. CASE inode_open(p)
  <2>1. CASE UNCHANGED inode
    BY <1>3, <1>4, <2>1 DEF inode_open
  <2>2. ASSUME NEW i, inode' = [inode EXCEPT ![i].open_cnt = @ + 1]
        PROVE  Listed
    BY <1>1, <2>2, FieldsOnly
  <2> QED BY <1>4, <2>1, <2>2 DEF inode_open
<1>5. CASE inode_alloc(p)
  <2>1. PICK i \in InodeId, r \in {inode'[j] : j \in InodeId} :
          inode[i] = NoInode /\ inode' = [inode EXCEPT ![i] = r]
    BY <1>1, <1>5 DEF inode_alloc
  <2>2. i \notin Elements(open_inodes)
    <3>1. pc[p] # "inode_free" /\ NoInode.open_cnt = 0
      BY <1>5 DEF inode_alloc, At, NoInode
    <3>2. ~ (0 > 0)
      BY SMTT(20)
    <3> QED BY <1>2, <2>1, <3>1, <3>2 DEF CountInv
  <2> QED BY <1>1, <1>5, <2>1, <2>2 DEF Listed
<1>6. CASE inode_read(p) \/ inode_remove(p)
  <2>1. open_inodes' = open_inodes
    BY <1>6 DEF inode_read, inode_remove
  <2> QED BY <1>1, <1>6, <2>1, FieldsOnly DEF inode_read, inode_remove
<1>7. CASE inode_close(p)
  <2>1. open_inodes' = open_inodes
    BY <1>7 DEF inode_close
  <2>2. UNCHANGED inode
        \/ inode' = [inode EXCEPT ![frame[p].closing].open_cnt = @ - 1]
    BY <1>7 DEF inode_close
  <2> QED BY <1>1, <1>3, <2>1, <2>2, FieldsOnly
<1>8. CASE release_data(p)
  <2>1. /\ inode' = [inode EXCEPT ![frame[p].closing] = NoInode] /\ open_inodes' = open_inodes
        /\ frame[p].closing \notin Elements(open_inodes)
    BY <1>2, <1>8 DEF release_data, At, ClosingInv
  <2> QED BY <1>1, <2>1 DEF Listed
<1>9. CASE deny_write(p)
  <2>1. /\ inode' = [inode EXCEPT ![frame[p].inode].deny_write_cnt = @ + 1]
        /\ open_inodes' = open_inodes
    BY <1>9 DEF deny_write
  <2> QED BY <1>1, <2>1, FieldsOnly
<1>10. CASE process_exit(p)
  <2>1. /\ \/ UNCHANGED inode
           \/ inode' = [inode EXCEPT ![exec_file[p].inode].deny_write_cnt = @ - 1]
        /\ open_inodes' = open_inodes
    BY <1>10 DEF process_exit
  <2> QED BY <1>1, <1>3, <2>1, FieldsOnly
<1>11. ASSUME ~ inode_open(p), ~ inode_alloc(p), ~ inode_read(p), ~ inode_remove(p),
              ~ inode_close(p), ~ inode_free(p), ~ release_data(p), ~ deny_write(p),
              ~ process_exit(p)
       PROVE  UNCHANGED <<inode, open_inodes>>
  <2>1. CASE InodeStep(p)
    BY <1>11, <2>1 DEF InodeStep, release_inode
  <2>2. CASE CreateStep(p)
    BY <2>2 DEF CreateStep, syscall_create, allocate_scan, allocate_mark, inode_create,
       write_inode, write_zeros, dir_add, dir_write, rollback
  <2>3. CASE OpenStep(p)
    BY <1>11, <2>3 DEF OpenStep, syscall_open, load, dir_open, dir_lookup, lookup_done, file_open,
       dir_close, return
  <2>4. CASE RemoveStep(p)
    BY <1>11, <2>4 DEF RemoveStep, syscall_remove, dir_remove, erase_entry
  <2>5. CASE FileStep(p)
    BY <1>11, <2>5 DEF FileStep, syscall_read, inode_read_at, syscall_write, inode_write_at,
       syscall_seek, syscall_close, syscall_exit
  <2> QED BY <2>1, <2>2, <2>3, <2>4, <2>5
<1> QED BY <1>3, <1>4, <1>5, <1>6, <1>7, <1>8, <1>9, <1>10, <1>11

\* Nothing but dir_add() and dir_remove() writes to the directory.
LEMMA EntriesStay ==
  ASSUME NEW p \in Proc, ~ dir_write(p), ~ erase_entry(p),
         InodeStep(p) \/ CreateStep(p) \/ OpenStep(p) \/ RemoveStep(p) \/ FileStep(p)
  PROVE  UNCHANGED disk_entries
<1> USE DEF diskVars
<1>1. CASE InodeStep(p)
  BY <1>1 DEF InodeStep, inode_open, inode_alloc, inode_read, inode_close, inode_free,
     release_inode, release_data
<1>2. CASE OpenStep(p)
  BY <1>2 DEF OpenStep, syscall_open, load, dir_open, dir_lookup, lookup_done, file_open,
     deny_write, dir_close, return
<1>3. CASE FileStep(p)
  BY <1>3 DEF FileStep, syscall_read, inode_read_at, syscall_write, inode_write_at,
     syscall_seek, syscall_close, syscall_exit, process_exit
<1>4. CASE CreateStep(p)
  BY <1>4 DEF CreateStep, syscall_create, allocate_scan, allocate_mark, inode_create,
     write_inode, write_zeros, dir_add, rollback
<1>5. CASE RemoveStep(p)
  BY <1>5 DEF RemoveStep, syscall_remove, dir_remove, inode_remove
<1> QED BY <1>1, <1>2, <1>3, <1>4, <1>5

\* The files that have a name or are open stay the same, but for the steps that
\* give a file its name and that close the last opener.
LEMMA LiveKept ==
  ASSUME Facts, FileSysInv, UseInv, NEW p \in Proc, Actor(p),
         InodeStep(p) \/ CreateStep(p) \/ OpenStep(p) \/ RemoveStep(p) \/ FileStep(p),
         ~ inode_free(p), ~ dir_write(p)
  PROVE  LiveFiles' = LiveFiles
<1> USE DEF diskVars, memVars, inodeVars, fileVars
<1>1. LiveFiles = (OpenSectors \ {ROOT_DIR_SECTOR}) \cup NamedSectors
  BY DEF LiveFiles, NamedSectors
<1>2. LiveFiles' = (OpenSectors' \ {ROOT_DIR_SECTOR}) \cup NamedSectors'
  BY DEF LiveFiles, NamedSectors
<1>3. TypeInv /\ OpenInv /\ OpeningInv(p) /\ Listed
  BY ListedKept DEF FileSysInv, CallInv
<1>4. ASSUME ~ inode_alloc(p)
      PROVE  OpenSectors' = OpenSectors
  <2>1. open_inodes' = open_inodes
    BY <1>4, ListedKept
  <2>2. Elements(open_inodes)' = Elements(open_inodes)
    BY <2>1
  <2> QED BY <1>3, <2>2 DEF OpenSectors, Listed
<1>5. CASE UNCHANGED disk_entries /\ ~ inode_alloc(p)
  BY <1>1, <1>2, <1>4, <1>5 DEF NamedSectors, Entries
<1>6. CASE inode_alloc(p)
  <2>1. NamedSectors' = NamedSectors /\ pc[p] = "inode_alloc"
    BY <1>6 DEF inode_alloc, At, NamedSectors, Entries
  <2>2. PICK i \in InodeId, r \in {inode'[j] : j \in InodeId} :
          /\ r = inode'[i] /\ r.sector = frame[p].sector
          /\ open_inodes' = <<i>> \o open_inodes
    <3>1. PICK i \in InodeId, d \in {disk_inode[s] : s \in Sector} :
            /\ inode' = [inode EXCEPT ![i] = [NoInode EXCEPT !.sector = frame[p].sector,
                                                             !.open_cnt = 1, !.data = d]]
            /\ open_inodes' = <<i>> \o open_inodes
      BY <1>6 DEF inode_alloc
    <3>2. inode'[i] = [NoInode EXCEPT !.sector = frame[p].sector, !.open_cnt = 1, !.data = d]
      BY <1>3, <3>1 DEF TypeInv
    <3>3. inode'[i].sector = frame[p].sector
      BY <3>2 DEF NoInode
    <3> QED BY <3>1, <3>3
  <2>3. Elements(open_inodes)' = Elements(open_inodes) \cup {i}
    BY <1>3, <2>2 DEF TypeInv, Facts, ListFacts
  <2>4. OpenSectors' = {inode'[j].sector : j \in Elements(open_inodes) \cup {i}}
    BY <2>3 DEF OpenSectors
  <2>5. OpenSectors' = OpenSectors \cup {frame[p].sector}
    <3>1. \A j \in Elements(open_inodes) : inode'[j].sector = inode[j].sector
      BY <1>3 DEF Listed
    <3>2. inode'[i].sector = frame[p].sector
      BY <2>2
    <3> QED BY <2>4, <3>1, <3>2 DEF OpenSectors
  <2>6. frame[p].sector \in NamedSectors \cup {ROOT_DIR_SECTOR}
    BY <1>3, <2>1 DEF OpeningInv, Opening
  <2> QED BY <1>1, <1>2, <2>1, <2>5, <2>6
<1>7. CASE erase_entry(p) /\ disk_entries' # disk_entries
  <2>1. /\ pc[p] = "erase_entry" /\ frame[p].inode # NULL /\ ~ inode_alloc(p)
        /\ disk_entries' = [disk_entries EXCEPT ![frame[p].slot] =
             [in_use |-> FALSE, name |-> frame[p].name, inode_sector |-> frame[p].sector]]
    BY <1>7 DEF erase_entry, At, inode_alloc
  <2>2. /\ frame[p].slot \in Entries /\ frame[p].sector \in OpenSectors
        /\ disk_entries[frame[p].slot].inode_sector = frame[p].sector
    BY <1>3, <2>1 DEF OpeningInv, Erasing, IsOpen, OpenSectors
  <2>3. Entries' = Entries \ {frame[p].slot}
        /\ \A k \in Entries' : disk_entries'[k] = disk_entries[k]
    BY <1>3, <2>1, <2>2 DEF Entries, TypeInv
  <2>4. NamedSectors' \subseteq NamedSectors /\ NamedSectors \subseteq NamedSectors' \cup {frame[p].sector}
    BY <2>2, <2>3 DEF NamedSectors
  <2>5. frame[p].sector # ROOT_DIR_SECTOR
    <3>1. frame[p].sector \in LiveFiles
      BY <2>2 DEF LiveFiles
    <3>2. ROOT_DIR_SECTOR \in SystemSectors
      BY SMTT(20) DEF ROOT_DIR_SECTOR, SystemSectors
    <3> QED BY <3>1, <3>2, LiveFile
  <2> QED BY <1>1, <1>2, <1>4, <2>1, <2>2, <2>4, <2>5
<1>8. UNCHANGED disk_entries \/ erase_entry(p)
  BY EntriesStay
<1> QED BY <1>5, <1>6, <1>7, <1>8

\* The last opener closes an inode: it is off the list, and its file is gone if it
\* has no name.
LEMMA LastClose ==
  ASSUME Facts, FileSysInv, NEW p \in Proc, inode_free(p)
  PROVE  /\ UNCHANGED <<disk_inode, disk_data, disk_entries>>
         /\ LiveFiles' \subseteq LiveFiles
         /\ \A i \in Elements(open_inodes) : inode[i].open_cnt > 0 => inode'[i].sector = inode[i].sector
<1>1. UNCHANGED <<disk_inode, disk_data, disk_entries>>
  BY DEF inode_free, diskVars
<1>2. PICK i \in Elements(open_inodes) :
        /\ inode[i].open_cnt = 0
        /\ open_inodes' = list_remove(open_inodes, i)
        /\ UNCHANGED inode \/ inode' = [inode EXCEPT ![i] = NoInode]
  BY DEF inode_free, FileSysInv, CallInv, ClosingInv, At
<1>3. /\ inode \in [InodeId -> Inode] /\ Elements(open_inodes) \subseteq InodeId
      /\ Elements(open_inodes)' = Elements(open_inodes) \ {i}
  BY <1>2, OpenIsInode DEF FileSysInv, TypeInv, OpenInv, Facts, ListFacts
<1>4. \A j \in Elements(open_inodes) \ {i} : inode'[j] = inode[j]
  BY <1>2, <1>3
<1>5. OpenSectors' \subseteq OpenSectors /\ Entries' = Entries
  BY <1>1, <1>3, <1>4 DEF OpenSectors, Entries
<1>6. LiveFiles' \subseteq LiveFiles
  BY <1>1, <1>5 DEF LiveFiles
<1>7. ~ (0 > 0)
  BY SMTT(20)
<1> QED BY <1>1, <1>2, <1>4, <1>6, <1>7

\* The numbers among the locals.
LEMMA LocalNumbers ==
  ASSUME TypeInv, NEW p \in Proc
  PROVE  frame[p].done \in Int /\ frame[p].cnt \in Nat /\ frame[p].size \in Nat
<1>1. frame[p] \in Locals
  BY DEF TypeInv
<1> QED BY <1>1 DEF Locals

\* The least of three numbers is no more than the second.
LEMMA MinIsLeast ==
  ASSUME NEW a \in Int, NEW b \in Int, NEW c \in Int
  PROVE  Min({a, b, c}) \in Int /\ Min({a, b, c}) <= b
<1>1. \E x \in {a, b, c} : \A y \in {a, b, c} : x <= y
  BY SMTT(20)
<1> QED BY <1>1 DEF Min

\* Only writes change what a live file holds: what create writes goes to sectors
\* that are nobody's yet.
LEMMA ContentsStay ==
  ASSUME FileSysInv, UseInv, NEW p \in Proc,
         InodeStep(p) \/ CreateStep(p) \/ OpenStep(p) \/ RemoveStep(p) \/ FileStep(p),
         ~ inode_write_at(p), NEW f \in LiveFiles
  PROVE  Contents(f)' = Contents(f)
<1> USE DEF diskVars
<1>1. /\ disk_inode[f] \in OnDisk /\ f \in SectorsOf(f)
      /\ DataSectors(disk_inode[f]) \subseteq SectorsOf(f) /\ Claim(p) \cap SectorsOf(f) = {}
      /\ TypeInv
  BY LiveFile DEF FileSysInv, CallInv, ClaimInv
<1>2. CASE UNCHANGED <<disk_inode, disk_data>>
  BY <1>1, <1>2, ContentsKept
<1>3. CASE write_inode(p) /\ disk_inode' # disk_inode
  <2>1. /\ pc[p] = "write_inode" /\ UNCHANGED disk_data
        /\ \E d : disk_inode' = [disk_inode EXCEPT ![frame[p].inode_sector] = d]
    BY <1>3 DEF write_inode, At
  <2>2. frame[p].inode_sector \in Claim(p)
    BY <2>1 DEF Claim, Allocating
  <2>3. disk_inode'[f] = disk_inode[f]
    <3>1. frame[p].inode_sector # f
      BY <1>1, <2>2
    <3>2. disk_inode \in [Sector -> OnDisk] /\ f \in Sector
      BY <1>1, LiveFile DEF TypeInv
    <3>3. PICK g, d : g = frame[p].inode_sector /\ disk_inode' = [disk_inode EXCEPT ![g] = d]
      BY <2>1
    <3> QED BY <3>1, <3>2, <3>3
  <2> QED BY <1>1, <2>1, <2>3, ContentsKept
<1>4. CASE write_zeros(p) /\ disk_data' # disk_data
  <2>0. PICK g : g = frame[p]
    OBVIOUS
  <2>1. /\ pc[p] = "write_zeros" /\ UNCHANGED disk_inode /\ g.done < g.cnt
        /\ disk_data' = [disk_data EXCEPT ![g.start + g.done] = Zeros]
    BY <1>4, <2>0 DEF write_zeros, At
  <2>2. NewFileInv(pc[p], g) /\ Claim(p) = SectorsOf(g.inode_sector)
    BY <2>0, <2>1 DEF UseInv, Claim, Allocating
  <2>3. /\ g.size \in FileSize /\ g.start \in Nat /\ g.cnt = bytes_to_sectors(g.size)
        /\ disk_inode[g.inode_sector] = [start |-> g.start, length |-> g.size]
        /\ g.done >= 0
    BY <2>1, <2>2 DEF NewFileInv
  <2>4. g.done \in Int /\ g.cnt \in Nat
    BY <1>1, <2>0, LocalNumbers
  <2>5. g.start + g.done \in g.start..g.start + g.cnt - 1
    BY SMTT(20), <2>1, <2>3, <2>4
  <2>6. g.start + g.done \in Claim(p)
    <3>1. DataSectors([start |-> g.start, length |-> g.size]) = g.start..g.start + g.cnt - 1
      BY <2>3 DEF DataSectors
    <3> QED BY <2>2, <2>3, <2>5, <3>1 DEF SectorsOf
  <2>7. \A s \in DataSectors(disk_inode[f]) : disk_data'[s] = disk_data[s]
    <3>1. disk_data \in [Sector -> [0..BLOCK_SECTOR_SIZE - 1 -> Byte]]
      BY DEF UseInv, DataInv
    <3>2. \A s \in DataSectors(disk_inode[f]) : s \in Sector /\ s # g.start + g.done
      BY <1>1, <2>6, LiveFile
    <3> QED BY <2>1, <3>1, <3>2
  <2> QED BY <1>1, <2>1, <2>7, ContentsKept
<1>5. UNCHANGED <<disk_inode, disk_data>> \/ write_inode(p) \/ write_zeros(p)
  <2>1. CASE InodeStep(p)
    BY <2>1 DEF InodeStep, inode_open, inode_alloc, inode_read, inode_close, inode_free,
       release_inode, release_data
  <2>2. CASE OpenStep(p)
    BY <2>2 DEF OpenStep, syscall_open, load, dir_open, dir_lookup, lookup_done, file_open,
       deny_write, dir_close, return
  <2>3. CASE FileStep(p)
    BY <2>3 DEF FileStep, syscall_read, inode_read_at, syscall_write,
       syscall_seek, syscall_close, syscall_exit, process_exit
  <2>4. CASE CreateStep(p)
    BY <2>4 DEF CreateStep, syscall_create, allocate_scan, allocate_mark, inode_create,
       dir_add, dir_write, rollback
  <2>5. CASE RemoveStep(p)
    BY <2>5 DEF RemoveStep, syscall_remove, dir_remove, erase_entry, inode_remove
  <2> QED BY <2>1, <2>2, <2>3, <2>4, <2>5
<1>6. write_inode(p) => UNCHANGED disk_data
  BY DEF write_inode
<1>7. write_zeros(p) => UNCHANGED disk_inode
  BY DEF write_zeros
<1> QED BY <1>2, <1>3, <1>4, <1>5, <1>6, <1>7

\* The file that P reads or writes.
LEMMA FileInUse ==
  ASSUME Facts, FileSysInv, UseInv, NEW p \in Proc, pc[p] \in {"inode_read_at", "inode_write_at"}
  PROVE  LET i == fd_tab[p][frame[p].fd].inode IN
         /\ i \in InodeId /\ i \in Elements(open_inodes) /\ inode[i].sector \in LiveFiles
         /\ inode[i].data = disk_inode[inode[i].sector]
         /\ Ofs(p) \in Nat
<1>1. /\ Actor(p) /\ TypeInv /\ frame[p].fd \in OpenFd(p) /\ frame[p].op # "close"
      /\ NewFileInv(pc[p], frame[p]) /\ frame[p].done \in Int
  BY UseFacts, LocalNumbers DEF FileSysInv, ClosingInv, Closing, Actor, InCall
<1>2. PICK i : i = fd_tab[p][frame[p].fd].inode
  OBVIOUS
<1>3. i \in InodeId /\ fd_tab[p][frame[p].fd] \in File
  BY <1>1, <1>2, OpenFdIsRef
<1>4. i \in Elements(open_inodes)
  BY <1>1, <1>2, <1>3, HandlesAreOpen DEF FileSysInv, OpenInv
<1>5. NotRoot(i)
  BY <1>1, <1>2 DEF UseInv, HandleInv
<1>6. inode[i].sector \in LiveFiles
  BY <1>4, <1>5, OpenIsLive
<1>7. inode[i].data = disk_inode[inode[i].sector]
  <2>1. \A q \in Proc : pc[q] # "inode_read"
    BY <1>1 DEF FileSysInv, OneCall, Actor, InCall
  <2> QED BY <1>4, <2>1 DEF FileSysInv, OpenInv, InodeIsCurrent, At
<1>8. Ofs(p) \in Nat
  <2>1. fd_tab[p][frame[p].fd].pos \in Nat /\ frame[p].done >= 0
    BY <1>1, <1>3 DEF File, NewFileInv
  <2> QED BY SMTT(20), <1>1, <2>1 DEF Ofs
<1> QED BY <1>2, <1>3, <1>4, <1>6, <1>7, <1>8

\* A write changes no file but its own, and that one only if no program runs from it.
LEMMA WriteIsOwn ==
  ASSUME Facts, FileSysInv, UseInv, NEW p \in Proc, inode_write_at(p)
  PROVE  /\ Ino(p).sector \in LiveFiles /\ UNCHANGED <<disk_inode, disk_entries>>
         /\ \A f \in LiveFiles \ {Ino(p).sector} : Contents(f)' = Contents(f)
         /\ UNCHANGED disk_data \/ Ino(p).deny_write_cnt = 0
<1>1. /\ pc[p] = "inode_write_at" /\ UNCHANGED <<disk_inode, disk_entries>>
      /\ TypeInv /\ FileRefInv(p, pc[p], frame[p])
  BY DEF inode_write_at, At, FileSysInv, UseInv
<1>2. PICK i : i = fd_tab[p][frame[p].fd].inode
  OBVIOUS
<1>3. /\ i \in InodeId /\ i \in Elements(open_inodes) /\ inode[i].sector \in LiveFiles
      /\ inode[i].data = disk_inode[inode[i].sector] /\ Ofs(p) \in Nat
  BY <1>1, <1>2, FileInUse
<1>4. Ino(p) = inode[i]
  BY <1>2 DEF Ino
<1>5. CASE UNCHANGED disk_data
  <2>1. \A f \in LiveFiles : Contents(f)' = Contents(f)
    BY <1>1, <1>5, LiveFile, ContentsKept
  <2> QED BY <1>1, <1>3, <1>4, <1>5, <2>1
<1>6. CASE disk_data' # disk_data
  <2>1. /\ ~ (frame[p].done = 0 /\ Ino(p).deny_write_cnt > 0) /\ ~ (chunk_size(p) <= 0)
        /\ WriteTurn(p)
    BY <1>6 DEF inode_write_at
  <2>2. PICK d : d = disk_inode[inode[i].sector] /\ d \in OnDisk
    BY <1>3, LiveFile
  <2>3. PICK s : s = d.start + Ofs(p) \div BLOCK_SECTOR_SIZE
    OBVIOUS
  <2>4. disk_data' = [disk_data EXCEPT ![s] = Written(p, s)]
    BY <1>3, <1>4, <1>6, <2>1, <2>2, <2>3 DEF WriteTurn
  <2>5. Ofs(p) \in 0..d.length - 1
    <3>1. d.length \in Nat /\ frame[p].size \in Int /\ frame[p].done \in Int
      <4>1. d.length \in Nat /\ frame[p].size \in Nat /\ frame[p].done \in Int
        BY <1>1, <2>2, LocalNumbers DEF OnDisk
      <4> QED BY SMTT(20), <4>1
    <3>2. Ino(p).data.length = d.length
      BY <1>3, <1>4, <2>2
    <3>3. PICK a \in Int, b \in Int, c \in Int :
            b = d.length - Ofs(p) /\ chunk_size(p) = Min({a, b, c})
      <4>1. /\ frame[p].size - frame[p].done \in Int /\ d.length - Ofs(p) \in Int
            /\ BLOCK_SECTOR_SIZE - (Ofs(p) % BLOCK_SECTOR_SIZE) \in Int
        BY SMTT(20), <1>3, <3>1, SizesAssumption
      <4> QED BY <3>2, <4>1 DEF chunk_size
    <3>4. chunk_size(p) \in Int /\ chunk_size(p) <= b
      <4>1. Min({a, b, c}) \in Int /\ Min({a, b, c}) <= b
        BY MinIsLeast
      <4> QED BY <3>3, <4>1
    <3> QED BY SMTT(20), <1>3, <2>1, <3>1, <3>3, <3>4
  <2>6. s \in DataSectors(d)
    BY <2>2, <2>3, <2>5, SectorOfByte
  <2>7. ASSUME NEW f \in LiveFiles \ {inode[i].sector}
        PROVE  Contents(f)' = Contents(f)
    <3>1. s \notin DataSectors(disk_inode[f])
      <4>1. SectorsOf(f) \cap SectorsOf(inode[i].sector) = {}
        BY <1>3 DEF FileSysInv, SectorsInv
      <4>2. s \in SectorsOf(inode[i].sector)
        BY <2>2, <2>6 DEF SectorsOf
      <4> QED BY <4>1, <4>2 DEF SectorsOf
    <3>2. disk_data \in [Sector -> [0..BLOCK_SECTOR_SIZE - 1 -> Byte]]
      BY DEF UseInv, DataInv
    <3>3. \A t \in DataSectors(disk_inode[f]) : t \in Sector
      BY LiveFile
    <3>4. \A t \in DataSectors(disk_inode[f]) : disk_data'[t] = disk_data[t]
      BY <2>4, <3>1, <3>2, <3>3
    <3> QED BY <1>1, <3>4, LiveFile, ContentsKept
  <2>8. Ino(p).deny_write_cnt = 0
    <3>1. /\ frame[p].done \in Int /\ frame[p].done >= 0
          /\ inode[i].deny_write_cnt \in Int /\ 0 <= inode[i].deny_write_cnt
      <4>1. inode[i].deny_write_cnt \in Int
        BY <1>1, <1>3 DEF TypeInv, Inode
      <4>2. 0 <= inode[i].deny_write_cnt
        BY <1>1, <1>3, UsedIsOpen DEF Actor, InCall
      <4> QED BY <1>1, <4>1, <4>2, LocalNumbers DEF UseInv, NewFileInv
    <3>2. frame[p].done > 0 => inode[i].deny_write_cnt = 0
      BY <1>1, <1>2 DEF FileRefInv
    <3> QED BY SMTT(20), <1>4, <2>1, <3>1, <3>2
  <2> QED BY <1>1, <1>3, <1>4, <2>7, <2>8
<1> QED BY <1>5, <1>6

\* The program that Q runs is not written to.
LEMMA ProgramStays ==
  ASSUME Facts, FileSysInv, UseInv, NEW p \in Proc, Actor(p),
         InodeStep(p) \/ CreateStep(p) \/ OpenStep(p) \/ RemoveStep(p) \/ FileStep(p),
         NEW q \in Proc, exec_file[q] # NULL, exec_file'[q] = exec_file[q]
  PROVE  LET f == inode[exec_file[q].inode].sector IN Contents(f)' = Contents(f)
<1>1. PICK i : i = exec_file[q].inode
  OBVIOUS
<1>2. i \in InodeId /\ NotRoot(i) /\ inode[i].open_cnt > 0 /\ q \in Runs(i)
  <2>1. exec_file[q] \in File /\ NotRoot(i)
    BY <1>1 DEF UseInv, HandleInv
  <2> QED BY <1>1, <2>1, HandlesAreOpen DEF FileSysInv, File, Runs
<1>3. i \in Elements(open_inodes)
  BY <1>2 DEF FileSysInv, OpenInv
<1>4. PICK f : f = inode[i].sector /\ f \in LiveFiles
  BY <1>2, <1>3, OpenIsLive
<1>5. inode'[i].sector = f
  <2>1. CASE inode_free(p)
    BY <1>2, <1>3, <1>4, <2>1, LastClose
  <2>2. CASE ~ inode_free(p)
    BY <1>3, <1>4, <2>2, ListedKept DEF Listed
  <2> QED BY <2>1, <2>2
<1>6. Contents(f)' = Contents(f)
  <2>1. CASE ~ inode_write_at(p)
    BY <1>4, <2>1, ContentsStay
  <2>2. CASE inode_write_at(p)
    <3>1. PICK j : j = fd_tab[p][frame[p].fd].inode /\ j \in Elements(open_inodes)
      BY <2>2, FileInUse DEF inode_write_at, At
    <3>2. Ino(p) = inode[j]
      BY <3>1 DEF Ino
    <3>3. CASE f # inode[j].sector
      BY <1>4, <2>2, <3>2, <3>3, WriteIsOwn
    <3>4. CASE f = inode[j].sector
      <4>1. i = j
        BY <1>3, <1>4, <3>1, <3>4 DEF FileSysInv, OpenInv, OneInodePerSector
      <4>2. inode[i].deny_write_cnt # 0
        <5>1. CountInv(p) /\ Runs(i) # {}
          BY <1>2 DEF UseInv
        <5>2. inode[i].deny_write_cnt > 0
          BY <1>2, <5>1, CardinalRefs DEF CountInv
        <5>3. ~ (0 > 0)
          BY SMTT(20)
        <5> QED BY <5>2, <5>3
      <4>3. UNCHANGED <<disk_inode, disk_data>>
        BY <2>2, <3>2, <4>1, <4>2, WriteIsOwn
      <4> QED BY <1>4, <4>3, LiveFile, ContentsKept
    <3> QED BY <3>3, <3>4
  <2> QED BY <2>1, <2>2
<1> QED BY <1>1, <1>4, <1>5, <1>6 DEF Contents
=============================================================================
