------------------------------- MODULE Paging -------------------------------
(***************************************************************************)
(* Virtual memory: page faults, stack growth, the clock that picks a       *)
(* victim, the swap area and the destruction of an address space (vm/*.c,  *)
(* page_fault() of exception.c, handle_mm_fault(), setup_stack() and       *)
(* stack_grow() of process.c, the parts of pagedir.c and palloc.c they     *)
(* use).                                                                   *)
(*                                                                         *)
(* A struct page is named by the frame in its kaddr, a page_entry by the   *)
(* process and the virtual page.  A step ends where another process may    *)
(* get the CPU with shared state half changed: at a lock, at disk I/O,     *)
(* between a check and its use, and while setup_stack() and stack_grow()   *)
(* fill in the page_entry of a page that is on the list already.           *)
(* swap_lock is never held across such a point, list_LRU_lock is.          *)
(***************************************************************************)
EXTENDS Integers, Sequences, FiniteSets, FiniteSetsExt, KernelList

CONSTANTS
  Proc,       \* threads that run user programs, one after the other
  Frame,      \* pages of the user pool, by number
  Slot,       \* swap slots, by number
  BinPage,    \* pages that load_segment() takes from the executable
  StackTop,   \* the page that setup_stack() makes
  StackPage,  \* pages that stack_grow() makes
  Writable,   \* the pages of BinPage that may be stored into
  Image,      \* what the executable has in each page of BinPage
  Value,      \* contents of a page; 0 is a page of zeros
  JUNK,       \* what palloc_free_page() leaves in a frame
  NULL

Page == BinPage \cup {StackTop} \cup StackPage

ASSUME PagesAssumption ==
  /\ Frame \subseteq Nat /\ Slot \subseteq Nat
  /\ IsFiniteSet(Frame) /\ IsFiniteSet(Slot)
  /\ BinPage \cap ({StackTop} \cup StackPage) = {}
  /\ Writable \subseteq BinPage
  /\ Image \in [BinPage -> Value]
  /\ 0 \in Value /\ JUNK \notin Value
  /\ NULL \notin Proc \cup Frame \cup Slot \cup Page

VARIABLES
  used,        \* used_map of the user pool
  content,     \* of each frame
  page,        \* page->thread and page->pge of the struct page of each frame
  list_LRU, LRU_clock,
  LRU_holder,  \* of list_LRU_lock
  pagedir,     \* pagedir[p][v]: the frame mapped there, or NULL
  accessed, dirty,    \* the page table entries with these bits
  type,        \* of each page_entry; "none" when sup_page_tab has no such entry
  swap_slot,   \* of each page_entry; NULL is the code's 0
  swap_bitmap, \* slots in use
  disk,        \* contents of the slots
  pc,
  va,          \* the page being worked on
  kpage,       \* the frame being worked on
  victim, slot,       \* locals of replacement_mem()
  panicked,    \* PANIC() stops the machine
  dangling     \* a struct page was freed that its owner is still filling in

frameVars == <<used, content, page>>
lruVars == <<list_LRU, LRU_clock, LRU_holder>>
tableVars == <<pagedir, accessed, dirty, type, swap_slot>>
swapVars == <<swap_bitmap, disk>>
localVars == <<va, kpage, victim, slot>>
vars == <<frameVars, lruVars, tableVars, swapVars, localVars, pc, panicked, dangling>>

Label == {"start", "user", "alloc", "load", "add", "grow", "grow_install", "grow_entry",
          "evict", "evict_out", "evict_free", "exit", "exit_vaddr", "exit_free"}

Init ==
  /\ used = {}
  /\ content = [f \in Frame |-> JUNK]
  /\ page = [f \in Frame |-> NULL]
  /\ list_LRU = <<>> /\ LRU_clock = NULL /\ LRU_holder = NULL
  /\ pagedir = [p \in Proc |-> [v \in Page |-> NULL]]
  /\ accessed = {} /\ dirty = {}
  /\ type = [p \in Proc |-> [v \in Page |-> "none"]]
  /\ swap_slot = [p \in Proc |-> [v \in Page |-> NULL]]
  /\ swap_bitmap = {}
  /\ disk = [s \in Slot |-> JUNK]
  /\ pc = [p \in Proc |-> "start"]
  /\ va = [p \in Proc |-> NULL]
  /\ kpage = [p \in Proc |-> NULL]
  /\ victim = [p \in Proc |-> NULL]
  /\ slot = [p \in Proc |-> NULL]
  /\ panicked = FALSE /\ dangling = FALSE

At(p, label) == ~panicked /\ ~dangling /\ pc[p] = label

Goto(p, label) == pc' = [pc EXCEPT ![p] = label]

\* The call that P was in is over, and its locals with it.
Forget(p) ==
  /\ va' = [va EXCEPT ![p] = NULL]
  /\ kpage' = [kpage EXCEPT ![p] = NULL]

\* A failed ASSERT or NOT_REACHED().
Panic ==
  /\ panicked' = TRUE
  /\ UNCHANGED <<frameVars, lruVars, tableVars, swapVars, localVars, pc, dangling>>
-----------------------------------------------------------------------------
(***************************************************************************)
(* The list of pages and its clock.                                        *)
(***************************************************************************)

\* The pages in the order in which get_next_LRU_clock() returns them.  NULL
\* stands both for the null clock and for the end of the list.
ClockOrder ==
  LET n == Len(list_LRU)
      hand == IF LRU_clock = NULL THEN 0 ELSE CHOOSE i \in 1..n : list_LRU[i] = LRU_clock
  IN  [k \in 1..n |-> list_LRU[((hand + k - 1) % n) + 1]]

\* setup_stack() and stack_grow() put a page on the list before they fill in
\* its page_entry.  Until memset() its vaddr is what malloc() left there, a
\* pointer into the kernel's heap: whether get_victim() finds it accessed depends
\* on who used that part of the heap, and whoever frees it meets a failed ASSERT.
HalfBuilt(f) == \E p \in Proc : pc[p] = "grow_install" /\ kpage[p] = f

\* From memset() on the page_entry is that of a page of zeros at address 0, until
\* vaddr is set, and the owner still has a pointer to the struct page.
Unfinished(f) == \E p \in Proc : pc[p] = "grow_entry" /\ kpage[p] = f

\* How many pages get_victim() passes over: those accessed since it last came
\* by, and those of HELD, whose page_entry points to memory that is in use.
\* When all others have been, it comes round to the first of them again.
Passed(held) ==
  LET n == Len(list_LRU)
      others == {k \in 1..n : ClockOrder[k] \notin held}
      idle == {k \in others : page[ClockOrder[k]] \notin accessed}
  IN  IF idle # {} THEN Min(idle) - 1
      ELSE IF others # {} THEN n + Min(others) - 1
      ELSE n

Victim(held) == ClockOrder[(Passed(held) % Len(list_LRU)) + 1]

\* Mutant of del_page_from_list_LRU(): the clock stays on the page that is freed.
del_page_keep_clock(f) ==
  /\ list_LRU' = list_remove(list_LRU, f)
  /\ UNCHANGED LRU_clock

\* del_page_from_list_LRU(): a clock on F moves to the page after F.
del_page_from_list_LRU(f) ==
  LET i == CHOOSE i \in 1..Len(list_LRU) : list_LRU[i] = f
  IN  /\ list_LRU' = list_remove(list_LRU, f)
      /\ LRU_clock' = IF LRU_clock # f THEN LRU_clock
                      ELSE IF i = Len(list_LRU) THEN NULL
                      ELSE list_LRU[i + 1]

palloc_free_page(f) ==
  /\ used' = used \ {f}
  /\ content' = [content EXCEPT ![f] = JUNK]

\* Mutant of __free_page(): the page stays mapped.
__free_page_mapped(f) ==
  /\ UNCHANGED <<pagedir, dangling>>
  /\ del_page_from_list_LRU(f)
  /\ palloc_free_page(f)
  /\ page' = [page EXCEPT ![f] = NULL]

\* __free_page().  With a vaddr of 0 pagedir_clear_page() finds nothing to clear,
\* and the page stays mapped; an owner that is not finished has a kpage to freed
\* memory.
__free_page(f) ==
  /\ \/ pagedir' = [pagedir EXCEPT ![page[f][1]][page[f][2]] = NULL]
     \/ Unfinished(f) /\ UNCHANGED pagedir
  /\ dangling' = Unfinished(f)
  /\ del_page_from_list_LRU(f)
  /\ palloc_free_page(f)
  /\ page' = [page EXCEPT ![f] = NULL]
-----------------------------------------------------------------------------
(***************************************************************************)
(* A program starts, runs, and touches its memory.                         *)
(***************************************************************************)

\* load(): load_segment() enters the pages of the executable, setup_stack()
\* asks for the first stack page.
start_process(p) ==
  /\ At(p, "start")
  /\ type' = [type EXCEPT ![p] = [v \in Page |-> IF v \in BinPage THEN "VM_BIN" ELSE "none"]]
  /\ swap_slot' = [swap_slot EXCEPT ![p] = [v \in Page |-> NULL]]
  /\ va' = [va EXCEPT ![p] = StackTop]
  /\ Goto(p, "alloc")
  /\ UNCHANGED <<frameVars, lruVars, pagedir, accessed, dirty, swapVars,
                 kpage, victim, slot, panicked, dangling>>

\* The processor reads a mapped page.
read(p, v) ==
  /\ At(p, "user") /\ pagedir[p][v] # NULL
  /\ accessed' = accessed \cup {<<p, v>>}
  /\ UNCHANGED <<frameVars, lruVars, pagedir, dirty, type, swap_slot, swapVars, localVars,
                 pc, panicked, dangling>>

\* The processor stores into a mapped page; into a read-only one it would fault.
write(p, v, x) ==
  /\ At(p, "user") /\ pagedir[p][v] # NULL
  /\ v \in BinPage => v \in Writable
  /\ content' = [content EXCEPT ![pagedir[p][v]] = x]
  /\ accessed' = accessed \cup {<<p, v>>}
  /\ dirty' = dirty \cup {<<p, v>>}
  /\ UNCHANGED <<used, page, lruVars, pagedir, type, swap_slot, swapVars, localVars,
                 pc, panicked, dangling>>

\* page_fault() on a page that is not mapped: handle_mm_fault() if sup_page_tab
\* has it, stack_grow() if it has not.  A fault that is neither ends the
\* process, see exit.
page_fault(p, v) ==
  /\ At(p, "user") /\ pagedir[p][v] = NULL
  /\ va' = [va EXCEPT ![p] = v]
  /\ Goto(p, "alloc")
  /\ UNCHANGED <<frameVars, lruVars, tableVars, swapVars, kpage, victim, slot, panicked, dangling>>

\* alloc_page() with its palloc_get_page(), tried again after each eviction.  A
\* stack page is asked for with PAL_ZERO.
alloc_page(p) ==
  /\ At(p, "alloc")
  /\ IF used = Frame
     THEN Goto(p, "evict") /\ UNCHANGED <<frameVars, kpage>>
     ELSE LET f == Min(Frame \ used)
          IN  /\ used' = used \cup {f}
              /\ page' = [page EXCEPT ![f] = <<p, va[p]>>]
              /\ kpage' = [kpage EXCEPT ![p] = f]
              /\ content' = [content EXCEPT ![f] =
                               IF type[p][va[p]] = "none" THEN 0 ELSE @]
              /\ Goto(p, IF type[p][va[p]] = "none" THEN "grow" ELSE "load")
  /\ UNCHANGED <<lruVars, tableVars, swapVars, va, victim, slot, panicked, dangling>>

\* install_page() of a fresh page table entry: not accessed, not dirty.
install_page(p) ==
  /\ pagedir' = [pagedir EXCEPT ![p][va[p]] = kpage[p]]
  /\ accessed' = accessed \ {<<p, va[p]>>}
  /\ dirty' = dirty \ {<<p, va[p]>>}

\* handle_mm_fault() after alloc_page(): load_file() or swap_in(), which frees
\* the slot but leaves its number in the page_entry.
handle_mm_fault(p) ==
  /\ At(p, "load")
  /\ LET s == swap_slot[p][va[p]]
     IN  IF type[p][va[p]] = "VM_ANON" /\ s = NULL
         THEN Panic
         ELSE /\ IF type[p][va[p]] = "VM_BIN"
                 THEN /\ content' = [content EXCEPT ![kpage[p]] = Image[va[p]]]
                      /\ UNCHANGED swap_bitmap
                 ELSE /\ content' = [content EXCEPT ![kpage[p]] = disk[s]]
                      /\ swap_bitmap' = swap_bitmap \ {s}
              /\ install_page(p)
              /\ Goto(p, "add")
              /\ UNCHANGED <<used, page, lruVars, type, swap_slot, disk, localVars, panicked, dangling>>

\* When load_file() or install_page() fails, free_page_kaddr() is given the
\* struct page instead of its kaddr, and its search asserts pg_ofs (kaddr) == 0.
load_fails(p) ==
  /\ At(p, "load") \/ At(p, "grow_install")
  /\ Panic

\* The end of handle_mm_fault(), and with "grow" the middle of setup_stack()
\* and stack_grow(): add_page_to_list_LRU().
add_page_to_list_LRU(p) ==
  /\ At(p, "add") \/ At(p, "grow")
  /\ LRU_holder = NULL
  /\ list_LRU' = Append(list_LRU, kpage[p])
  /\ IF pc[p] = "add"
     THEN Goto(p, "user") /\ Forget(p)
     ELSE Goto(p, "grow_install") /\ UNCHANGED <<va, kpage>>
  /\ UNCHANGED <<frameVars, LRU_clock, LRU_holder, tableVars, swapVars, victim, slot,
                 panicked, dangling>>

\* setup_stack() and stack_grow() go on: the page is mapped and memset() clears
\* its page_entry, which makes its type VM_ANON and its slot none.
stack_install(p) ==
  /\ At(p, "grow_install")
  /\ install_page(p)
  /\ type' = [type EXCEPT ![p][va[p]] = "VM_ANON"]
  /\ swap_slot' = [swap_slot EXCEPT ![p][va[p]] = NULL]
  /\ Goto(p, "grow_entry")
  /\ UNCHANGED <<frameVars, lruVars, swapVars, localVars, panicked, dangling>>

\* The rest of them: vaddr is set and the page_entry entered in sup_page_tab.
stack_grow(p) ==
  /\ At(p, "grow_entry")
  /\ Forget(p)
  /\ Goto(p, "user")
  /\ UNCHANGED <<frameVars, lruVars, tableVars, swapVars, victim, slot, panicked, dangling>>
-----------------------------------------------------------------------------
(***************************************************************************)
(* Eviction: replacement_mem(), under list_LRU_lock from get_victim() to   *)
(* __free_page().  The victim's owner may run meanwhile.                   *)
(***************************************************************************)

\* Mutant of MustSwapOut: only dirty pages are written out.
MustSwapOutDirty(p, v) == <<p, v>> \in dirty

\* The switch in replacement_mem(): an executable's page that was not stored
\* into can be read again from its file.
MustSwapOut(p, v) == type[p][v] = "VM_ANON" \/ <<p, v>> \in dirty

\* get_victim(), and whether the victim is dirty.
get_victim(p) ==
  /\ At(p, "evict")
  /\ LRU_holder = NULL
  /\ \E held \in SUBSET {f \in Frame : HalfBuilt(f)} :
       LET f == Victim(held)
           n == Min({Passed(held), Len(list_LRU)})
       IN  IF list_LRU = <<>> \/ HalfBuilt(f)
           THEN Panic
           ELSE /\ victim' = [victim EXCEPT ![p] = f]
                /\ LRU_clock' = f
                /\ accessed' = accessed \ {page[ClockOrder[k]] : k \in 1..n}
                /\ LRU_holder' = p
                /\ Goto(p, IF MustSwapOut(page[f][1], page[f][2])
                           THEN "evict_out" ELSE "evict_free")
                /\ UNCHANGED <<frameVars, list_LRU, pagedir, dirty, type, swap_slot,
                               swapVars, va, kpage, slot, panicked, dangling>>

\* swap_out(); a full swap area ends in NOT_REACHED().
swap_out(p) ==
  /\ At(p, "evict_out")
  /\ IF swap_bitmap = Slot
     THEN Panic
     ELSE LET s == Min(Slot \ swap_bitmap)
          IN  /\ swap_bitmap' = swap_bitmap \cup {s}
              /\ disk' = [disk EXCEPT ![s] = content[victim[p]]]
              /\ slot' = [slot EXCEPT ![p] = s]
              /\ Goto(p, "evict_free")
              /\ UNCHANGED <<frameVars, lruVars, tableVars, va, kpage, victim, panicked, dangling>>

\* Mutant of replacement_mem(): the lock is not released.
replacement_mem_locked(p) ==
  /\ At(p, "evict_free")
  /\ LET q == page[victim[p]][1]
         v == page[victim[p]][2]
     IN  /\ swap_slot' = [swap_slot EXCEPT ![q][v] = IF slot[p] = NULL THEN @ ELSE slot[p]]
         /\ type' = [type EXCEPT ![q][v] = IF slot[p] = NULL THEN @ ELSE "VM_ANON"]
  /\ __free_page(victim[p])
  /\ victim' = [victim EXCEPT ![p] = NULL]
  /\ slot' = [slot EXCEPT ![p] = NULL]
  /\ Goto(p, "alloc")
  /\ UNCHANGED <<LRU_holder, accessed, dirty, swapVars, va, kpage, panicked>>

\* The end of replacement_mem(): the page_entry says where the page went.
replacement_mem(p) ==
  /\ At(p, "evict_free")
  /\ LET q == page[victim[p]][1]
         v == page[victim[p]][2]
     IN  /\ swap_slot' = [swap_slot EXCEPT ![q][v] = IF slot[p] = NULL THEN @ ELSE slot[p]]
         /\ type' = [type EXCEPT ![q][v] = IF slot[p] = NULL THEN @ ELSE "VM_ANON"]
  /\ __free_page(victim[p])
  /\ LRU_holder' = NULL
  /\ victim' = [victim EXCEPT ![p] = NULL]
  /\ slot' = [slot EXCEPT ![p] = NULL]
  /\ Goto(p, "alloc")
  /\ UNCHANGED <<accessed, dirty, swapVars, va, kpage, panicked>>
-----------------------------------------------------------------------------
(***************************************************************************)
(* Exit: process_exit() destroys sup_page_tab entry by entry, then the     *)
(* page directory.                                                         *)
(***************************************************************************)

exit(p) ==
  /\ At(p, "user")
  /\ Goto(p, "exit")
  /\ UNCHANGED <<frameVars, lruVars, tableVars, swapVars, localVars, panicked, dangling>>

\* spt_destroy_func() for the next entry that hash_destroy() comes to, up to
\* swap_clear() of whatever slot number the page_entry holds.
swap_clear(p) ==
  /\ At(p, "exit")
  /\ \E v \in Page :
       /\ type[p][v] # "none"
       /\ va' = [va EXCEPT ![p] = v]
       /\ swap_bitmap' = swap_bitmap \ {swap_slot[p][v]}
  /\ Goto(p, "exit_vaddr")
  /\ UNCHANGED <<frameVars, lruVars, tableVars, disk, kpage, victim, slot, panicked, dangling>>

\* free_page_vaddr() looks up the frame before free_page_kaddr() has the lock.
free_page_vaddr(p) ==
  /\ At(p, "exit_vaddr")
  /\ kpage' = [kpage EXCEPT ![p] = pagedir[p][va[p]]]
  /\ Goto(p, "exit_free")
  /\ UNCHANGED <<frameVars, lruVars, tableVars, swapVars, va, victim, slot, panicked, dangling>>

\* Mutant of free_page_kaddr(): the lock is released only if the page is found.
free_page_kaddr_locked(p) ==
  /\ At(p, "exit_free")
  /\ LRU_holder = NULL
  /\ IF kpage[p] \in Elements(list_LRU)
     THEN __free_page(kpage[p]) /\ UNCHANGED LRU_holder
     ELSE LRU_holder' = p /\ UNCHANGED <<pagedir, list_LRU, LRU_clock, frameVars, dangling>>
  /\ type' = [type EXCEPT ![p][va[p]] = "none"]
  /\ Forget(p)
  /\ Goto(p, "exit")
  /\ UNCHANGED <<accessed, dirty, swap_slot, swapVars, victim, slot, panicked>>

\* free_page_kaddr(), with find_page_from_list_LRU(), and free (pge).
free_page_kaddr(p) ==
  /\ At(p, "exit_free")
  /\ LRU_holder = NULL
  /\ IF kpage[p] # NULL /\ HalfBuilt(kpage[p])
     THEN Panic
     ELSE /\ IF kpage[p] \in Elements(list_LRU)
             THEN __free_page(kpage[p])
             ELSE UNCHANGED <<pagedir, list_LRU, LRU_clock, frameVars, dangling>>
          /\ type' = [type EXCEPT ![p][va[p]] = "none"]
          /\ Forget(p)
          /\ Goto(p, "exit")
          /\ UNCHANGED <<LRU_holder, accessed, dirty, swap_slot, swapVars, victim, slot,
                         panicked>>

\* pagedir_destroy() frees what is still mapped.
pagedir_destroy(p) ==
  /\ At(p, "exit") /\ \A v \in Page : type[p][v] = "none"
  /\ LET left == {pagedir[p][v] : v \in Page} \ {NULL}
     IN  /\ used' = used \ left
         /\ content' = [f \in Frame |-> IF f \in left THEN JUNK ELSE content[f]]
  /\ pagedir' = [pagedir EXCEPT ![p] = [v \in Page |-> NULL]]
  /\ accessed' = accessed \ ({p} \X Page)
  /\ dirty' = dirty \ ({p} \X Page)
  /\ Goto(p, "start")
  /\ UNCHANGED <<page, lruVars, type, swap_slot, swapVars, localVars, panicked, dangling>>
-----------------------------------------------------------------------------
\* What a process does inside the kernel until it is back in its program.
Kernel(p) ==
  \/ alloc_page(p) \/ handle_mm_fault(p) \/ add_page_to_list_LRU(p)
  \/ stack_install(p) \/ stack_grow(p)
  \/ get_victim(p) \/ swap_out(p) \/ replacement_mem(p)
  \/ swap_clear(p) \/ free_page_vaddr(p) \/ free_page_kaddr(p) \/ pagedir_destroy(p)

User(p) ==
  \/ start_process(p) \/ exit(p) \/ load_fails(p)
  \/ \E v \in Page : read(p, v) \/ page_fault(p, v)
  \/ \E v \in Page, x \in Value : write(p, v, x)

\* The machine stays where PANIC() left it.  With a dangling
\* pointer it runs on and writes to freed memory: that is not followed.
Halted == (panicked \/ dangling) /\ UNCHANGED vars

Next == Halted \/ \E p \in Proc : Kernel(p) \/ User(p)

Spec == Init /\ [][Next]_vars

\* A process in the kernel gets the CPU again and again: see Process.
FairSpec == Spec /\ \A p \in Proc : WF_vars(Kernel(p))
-----------------------------------------------------------------------------
\* Every variable stays in its domain; in particular LRU_clock never points to a
\* struct page that has left the list.
TypeOK ==
  /\ used \subseteq Frame
  /\ content \in [Frame -> Value \cup {JUNK}]
  /\ page \in [Frame -> (Proc \X Page) \cup {NULL}]
  /\ list_LRU \in Seq(Frame) /\ LRU_clock \in Elements(list_LRU) \cup {NULL}
  /\ LRU_holder \in Proc \cup {NULL}
  /\ pagedir \in [Proc -> [Page -> Frame \cup {NULL}]]
  /\ accessed \subseteq Proc \X Page /\ dirty \subseteq Proc \X Page
  /\ type \in [Proc -> [Page -> {"none", "VM_BIN", "VM_ANON"}]]
  /\ swap_slot \in [Proc -> [Page -> Slot \cup {NULL}]]
  /\ swap_bitmap \subseteq Slot
  /\ disk \in [Slot -> Value \cup {JUNK}]
  /\ pc \in [Proc -> Label]
  /\ va \in [Proc -> Page \cup {NULL}]
  /\ kpage \in [Proc -> Frame \cup {NULL}]
  /\ victim \in [Proc -> Frame \cup {NULL}]
  /\ slot \in [Proc -> Slot \cup {NULL}]
  /\ panicked \in BOOLEAN /\ dangling \in BOOLEAN

\* The frame that a process has allocated and not yet mapped.
InTransit(p) == IF pc[p] \in {"load", "grow", "grow_install"} THEN {kpage[p]} ELSE {}

Mapped == {m \in Proc \X Page : pagedir[m[1]][m[2]] # NULL}

\* Each frame of the user pool is free, or mapped at exactly one page, or on its
\* way to one; the clock's list holds mapped frames once each, with the page
\* they are mapped at.  So no frame is shared, leaked, or freed while mapped,
\* however the faults, evictions and exits of processes overlap, as long as no
\* process loses a page whose page_entry it is still filling in.
FramesAccounted ==
  ~dangling =>
    /\ used = {pagedir[m[1]][m[2]] : m \in Mapped} \cup UNION {InTransit(p) : p \in Proc}
    /\ \A m, n \in Mapped : pagedir[m[1]][m[2]] = pagedir[n[1]][n[2]] => m = n
    /\ \A p \in Proc, m \in Mapped : pagedir[m[1]][m[2]] \notin InTransit(p)
    /\ NoDuplicates(list_LRU)
    /\ \A f \in Elements(list_LRU) :
         HalfBuilt(f) \/ (page[f] \in Mapped /\ pagedir[page[f][1]][page[f][2]] = f)

\* What process P would read at V.
Sees(p, v) ==
  CASE pc[p] \in {"start", "exit", "exit_vaddr", "exit_free"} -> JUNK
    [] OTHER ->
         IF pagedir[p][v] # NULL THEN content[pagedir[p][v]]
         ELSE CASE type[p][v] = "none" -> JUNK
                [] type[p][v] = "VM_BIN" -> Image[v]
                [] OTHER -> IF swap_slot[p][v] = NULL THEN JUNK ELSE disk[swap_slot[p][v]]

M == INSTANCE Memory WITH
       mem <- [p \in Proc |-> [v \in Page |-> Sees(p, v)]], NoPage <- JUNK

\* Paging is transparent: wherever the pages are, a process reads what it last
\* stored, or the executable's contents, or zeros.
ImplementsMemory == M!Spec

\* The same said of single steps: what a running process sees on a page it has
\* changes only when the process itself stores into it.
MemoryIsKept ==
  [][\A p \in Proc, v \in Page :
       Sees(p, v) # JUNK /\ Sees(p, v)' # Sees(p, v) =>
         exit(p) \/ \E x \in Value : write(p, v, x)]_vars

\* P is not in the kernel.
Outside(p) == pc[p] \in {"start", "user"}

Stopped == panicked \/ dangling

\* From some time on every process but P stays out of the kernel.  Without it P may
\* starve: each frame it evicts, or list_LRU_lock, may be taken by another first.
LeftAlone(p) == <>[](\A q \in Proc \ {p} : Outside(q))

\* A page fault is resolved, whatever has to be evicted for it and whatever the
\* others were doing with the list and the frames when they left the kernel.
FaultsReturn ==
  \A p \in Proc : LeftAlone(p) => (pc[p] = "alloc" ~> (pc[p] = "user" \/ Stopped))

\* An exiting process gets to the end of process_exit(), wherever its pages are.
ExitEnds ==
  \A p \in Proc : LeftAlone(p) => (pc[p] = "exit" ~> (pc[p] = "start" \/ Stopped))

\* However processes contend for the frames and for list_LRU_lock, they never all
\* stay in the kernel: evicting each other's pages is no livelock.
SomeoneLeavesKernel == []<>(Stopped \/ \E p \in Proc : Outside(p))
=============================================================================
