---------------------------- MODULE PagingProofs ----------------------------
(***************************************************************************)
(* The frames of module Paging are accounted for, whatever the numbers of  *)
(* processes, pages, frames and swap slots.  FramesAccounted is not        *)
(* inductive: that a frame can be freed, mapped or put on the clock's list *)
(* depends on where each process is and on page[f], the owner that the     *)
(* struct page of the frame names.  FrameInv holds until a process loses   *)
(* the struct page it is filling in (dangling).                            *)
(***************************************************************************)
EXTENDS Paging, KernelListProofs

\* The prover of the leaves that name none.
USE ZenonT(120)

Transit == {"load", "grow", "grow_install"}

Faulting == Transit \cup {"alloc", "evict", "evict_out", "evict_free"}

\* A frame in use has an owner, which maps it or is about to.
FrameOwned(f) ==
  f \in used =>
    /\ page[f] \in Proc \X Page
    /\ \/ pagedir[page[f][1]][page[f][2]] = f
       \/ pc[page[f][1]] \in Transit /\ kpage[page[f][1]] = f

\* So has a frame on the clock's list.
FrameListed(f) ==
  f \in Elements(list_LRU) =>
    /\ page[f] \in Proc \X Page
    /\ \/ pagedir[page[f][1]][page[f][2]] = f
       \/ pc[page[f][1]] = "grow_install" /\ kpage[page[f][1]] = f

\* A frame that is mapped somewhere is in use, is owned by that page, and is on
\* the list as soon as handle_mm_fault() is over; its page has a page_entry.
PageMapped(p, v) ==
  /\ pagedir[p][v] # NULL =>
       /\ pagedir[p][v] \in used
       /\ page[pagedir[p][v]] = <<p, v>>
       /\ pagedir[p][v] \in Elements(list_LRU) \/ (pc[p] = "add" /\ va[p] = v)
       /\ type[p][v] # "none"
  /\ type[p][v] = "VM_BIN" => v \in BinPage

\* What a process relies on at each point of a fault, an eviction or an exit.
ProcInv(p) ==
  /\ pc[p] = "start" => \A v \in Page : pagedir[p][v] = NULL
  /\ pc[p] \in Faulting => va[p] \in Page /\ pagedir[p][va[p]] = NULL
  /\ pc[p] \in Transit \cup {"add"} =>
       va[p] \in Page /\ kpage[p] \in used /\ page[kpage[p]] = <<p, va[p]>>
  /\ pc[p] = "add" => pagedir[p][va[p]] = kpage[p]
  /\ pc[p] \in {"load", "grow", "add"} => kpage[p] \notin Elements(list_LRU)
  /\ pc[p] = "grow_install" => kpage[p] \in Elements(list_LRU)
  /\ pc[p] = "load" => type[p][va[p]] # "none"
  /\ pc[p] \in {"evict_out", "evict_free"} =>
       LRU_holder = p /\ victim[p] \in Elements(list_LRU) /\ ~ HalfBuilt(victim[p])
  /\ pc[p] \in {"exit_vaddr", "exit_free"} => va[p] \in Page
  /\ pc[p] = "exit_free" => pagedir[p][va[p]] \in {NULL, kpage[p]}

FrameInv ==
  /\ \A f \in Frame : FrameOwned(f) /\ FrameListed(f)
  /\ \A p \in Proc : ProcInv(p)
  /\ \A p \in Proc, v \in Page : PageMapped(p, v)
  /\ NoDuplicates(list_LRU)

PagingInv == TypeOK /\ FrameInv

\* The inductive invariant.
Sound == TypeOK /\ (~ dangling => FrameInv)

-----------------------------------------------------------------------------
\* The first free frame and the first free slot are free.
LEMMA MinIn ==
  ASSUME NEW S, S \subseteq Nat, S # {}
  PROVE  Min(S) \in S
<1>1. \E m \in S : \A n \in S : m <= n
  BY LeastNatural
<1> QED BY <1>1 DEF Min

\* The clock stops at a page of its list.
LEMMA VictimListed ==
  ASSUME TypeOK, list_LRU # <<>>, NEW held
  PROVE  Victim(held) \in Elements(list_LRU)
<1> DEFINE n == Len(list_LRU)
           hand == IF LRU_clock = NULL THEN 0
                   ELSE CHOOSE i \in 1..n : list_LRU[i] = LRU_clock
<1>1. n \in Nat /\ n > 0 /\ list_LRU \in Seq(Frame)
  BY SMTT(20) DEF TypeOK
<1>2. hand \in Nat
  <2>1. LRU_clock # NULL => \E i \in 1..n : list_LRU[i] = LRU_clock
    BY SMTT(20) DEF TypeOK, Elements, Range
  <2>2. LRU_clock # NULL => hand \in 1..n
    BY <2>1
  <2>3. hand \in 1..n \/ hand = 0
    BY <2>2
  <2> HIDE DEF hand, n
  <2> QED BY SMTT(20), <1>1, <2>3
<1> HIDE DEF hand
<1>3. ClockOrder = [k \in 1..n |-> list_LRU[((hand + k - 1) % n) + 1]]
  BY DEF ClockOrder, hand
<1>4. Passed(held) \in Nat
  <2> DEFINE others == {k \in 1..n : ClockOrder[k] \notin held}
             idle == {k \in others : page[ClockOrder[k]] \notin accessed}
  <2>1. idle # {} => Min(idle) \in 1..n
    <3>1. idle \subseteq Nat
      BY SMTT(20), <1>1
    <3>2. idle \subseteq 1..n
      OBVIOUS
    <3> QED BY <3>1, <3>2, MinIn
  <2>2. others # {} => Min(others) \in 1..n
    <3>1. others \subseteq Nat
      BY SMTT(20), <1>1
    <3> QED BY <3>1, MinIn
  <2>3. Passed(held) = IF idle # {} THEN Min(idle) - 1
                       ELSE IF others # {} THEN n + Min(others) - 1
                       ELSE n
    BY DEF Passed
  <2> HIDE DEF idle, others
  <2> QED BY SMTT(20), <1>1, <2>1, <2>2, <2>3
<1> DEFINE k == (Passed(held) % n) + 1
<1>5. k \in 1..n
  BY SMTT(20), <1>1, <1>4
<1>6. ((hand + k - 1) % n) + 1 \in 1..n
  BY SMTT(20), <1>1, <1>2, <1>5
<1>7. Victim(held) = list_LRU[((hand + k - 1) % n) + 1]
  BY <1>3, <1>5 DEF Victim
<1> HIDE DEF k
<1> QED BY SMTT(20), <1>1, <1>6, <1>7 DEF Elements, Range

-----------------------------------------------------------------------------
(***************************************************************************)
(* Type correctness.                                                       *)
(***************************************************************************)

\* An update of one entry of a table per process.
LEMMA EntryType ==
  ASSUME NEW S, NEW f \in [Proc -> [Page -> S]], NEW p \in Proc, NEW v \in Page, NEW x \in S
  PROVE  [f EXCEPT ![p][v] = x] \in [Proc -> [Page -> S]]
  OBVIOUS

\* The entries of a page's tables.
LEMMA Entries ==
  ASSUME TypeOK, NEW p \in Proc, NEW v \in Page
  PROVE  /\ pagedir[p][v] \in Frame \cup {NULL}
         /\ type[p][v] \in {"none", "VM_BIN", "VM_ANON"}
         /\ swap_slot[p][v] \in Slot \cup {NULL}
<1>1. pagedir \in [Proc -> [Page -> Frame \cup {NULL}]]
  BY DEF TypeOK
<1>2. type \in [Proc -> [Page -> {"none", "VM_BIN", "VM_ANON"}]]
  BY DEF TypeOK
<1>3. swap_slot \in [Proc -> [Page -> Slot \cup {NULL}]]
  BY DEF TypeOK
<1>4. pagedir[p][v] \in Frame \cup {NULL}
  BY <1>1
<1>5. type[p][v] \in {"none", "VM_BIN", "VM_ANON"}
  BY <1>2
<1>6. swap_slot[p][v] \in Slot \cup {NULL}
  BY <1>3
<1> QED BY <1>4, <1>5, <1>6

\* del_page_from_list_LRU() keeps the list a list of frames and the clock on it.
LEMMA DelPage ==
  ASSUME PagingInv, NEW f \in Elements(list_LRU), del_page_from_list_LRU(f)
  PROVE  /\ list_LRU' \in Seq(Frame)
         /\ LRU_clock' \in Elements(list_LRU') \cup {NULL}
         /\ Elements(list_LRU') = Elements(list_LRU) \ {f}
         /\ NoDuplicates(list_LRU')
<1>1. /\ list_LRU \in Seq(Frame) /\ NoDuplicates(list_LRU)
      /\ LRU_clock \in Elements(list_LRU) \cup {NULL}
  BY DEF PagingInv, FrameInv, TypeOK
<1>2. list_LRU' = list_remove(list_LRU, f)
  BY DEF del_page_from_list_LRU
<1>3. /\ list_LRU' \in Seq(Frame)
      /\ Elements(list_LRU') = Elements(list_LRU) \ {f}
      /\ NoDuplicates(list_LRU')
  BY <1>1, <1>2, RemoveElements
<1> DEFINE i == CHOOSE i \in 1..Len(list_LRU) : list_LRU[i] = f
<1>4. i \in 1..Len(list_LRU) /\ list_LRU[i] = f
  <2>1. \E j \in 1..Len(list_LRU) : list_LRU[j] = f
    BY SMTT(20), <1>1 DEF Elements, Range
  <2> QED BY <2>1
<1>5. LRU_clock' = IF LRU_clock # f THEN LRU_clock
                   ELSE IF i = Len(list_LRU) THEN NULL
                   ELSE list_LRU[i + 1]
  BY DEF del_page_from_list_LRU
<1> HIDE DEF i
<1>6. i # Len(list_LRU) => list_LRU[i + 1] \in Elements(list_LRU) \ {f}
  BY SMTT(20), <1>1, <1>4 DEF Elements, Range, NoDuplicates
<1> QED BY <1>1, <1>3, <1>5, <1>6

\* __free_page() of a listed frame keeps its variables in their domains.
LEMMA FreePageType ==
  ASSUME PagingInv, NEW f \in Elements(list_LRU), __free_page(f)
  PROVE  /\ used' \subseteq Frame
         /\ content' \in [Frame -> Value \cup {JUNK}]
         /\ page' \in [Frame -> (Proc \X Page) \cup {NULL}]
         /\ list_LRU' \in Seq(Frame) /\ LRU_clock' \in Elements(list_LRU') \cup {NULL}
         /\ pagedir' \in [Proc -> [Page -> Frame \cup {NULL}]]
         /\ dangling' \in BOOLEAN
<1>1. TypeOK
  BY DEF PagingInv
<1>2. list_LRU' \in Seq(Frame) /\ LRU_clock' \in Elements(list_LRU') \cup {NULL}
  BY DelPage DEF __free_page
<1>3. used' \subseteq Frame
  BY <1>1 DEF __free_page, palloc_free_page, TypeOK
<1>8. content' \in [Frame -> Value \cup {JUNK}]
  BY <1>1 DEF __free_page, palloc_free_page, TypeOK
<1>4. page' \in [Frame -> (Proc \X Page) \cup {NULL}]
  BY <1>1 DEF __free_page, TypeOK
<1>5. f \in Frame
  BY <1>1, EmptyElements DEF TypeOK
<1>6. page[f] \in Proc \X Page
  BY <1>5 DEF PagingInv, FrameInv, FrameListed
<1>7. pagedir' \in [Proc -> [Page -> Frame \cup {NULL}]]
  <2>1. CASE pagedir' = [pagedir EXCEPT ![page[f][1]][page[f][2]] = NULL]
    BY SMTT(20), <1>1, <1>6, <2>1 DEF TypeOK
  <2>2. CASE pagedir' = pagedir
    BY <1>1, <2>2 DEF TypeOK
  <2> QED BY <2>1, <2>2 DEF __free_page
<1>9. dangling' \in BOOLEAN
  BY DEF __free_page, Unfinished
<1> QED BY <1>2, <1>3, <1>4, <1>7, <1>8, <1>9

\* What get_victim() does when it chooses F.
Evicts(p, f) ==
  /\ pc[p] = "evict" /\ LRU_holder = NULL /\ list_LRU # <<>> /\ ~ HalfBuilt(f)
  /\ victim' = [victim EXCEPT ![p] = f] /\ LRU_clock' = f /\ LRU_holder' = p
  /\ accessed' \subseteq accessed
  /\ pc' = [pc EXCEPT ![p] = IF MustSwapOut(page[f][1], page[f][2])
                             THEN "evict_out" ELSE "evict_free"]
  /\ UNCHANGED <<frameVars, list_LRU, pagedir, dirty, type, swap_slot, swapVars,
                 va, kpage, slot, panicked, dangling>>

LEMMA VictimChosen ==
  ASSUME TypeOK, NEW p \in Proc, get_victim(p), ~ Panic
  PROVE  \E f \in Elements(list_LRU) : Evicts(p, f)
<1>1. pc[p] = "evict" /\ LRU_holder = NULL
  BY DEF get_victim, At
<1>2. PICK held \in SUBSET {f \in Frame : HalfBuilt(f)} :
        LET f == Victim(held)
            n == Min({Passed(held), Len(list_LRU)})
        IN  IF list_LRU = <<>> \/ HalfBuilt(f)
            THEN Panic
            ELSE /\ victim' = [victim EXCEPT ![p] = f]
                 /\ LRU_clock' = f
                 /\ accessed' = accessed \ {page[ClockOrder[k]] : k \in 1..n}
                 /\ LRU_holder' = p
                 /\ Goto(p, IF MustSwapOut(page[f][1], page[f][2])
                            THEN "evict_out" ELSE "evict_free")
                 /\ UNCHANGED <<frameVars, list_LRU, pagedir, dirty, type, swap_slot,
                                swapVars, va, kpage, slot, panicked, dangling>>
  BY DEF get_victim
<1>3. Evicts(p, Victim(held))
  BY <1>1, <1>2 DEF Evicts, Goto
<1>4. Victim(held) \in Elements(list_LRU)
  BY <1>3, VictimListed DEF Evicts
<1> QED BY <1>3, <1>4

\* Every step keeps every variable in its domain.
LEMMA TypeStep ==
  ASSUME PagingInv, [Next]_vars
  PROVE  TypeOK'
<1> USE DEF Goto, At, vars, frameVars, lruVars, tableVars, swapVars, localVars
<1>1. TypeOK /\ NULL \notin Frame \cup Slot \cup Page /\ StackTop \in Page
  BY PagesAssumption DEF PagingInv, Page
<1>2. CASE UNCHANGED vars
  BY <1>1, <1>2 DEF TypeOK
<1>3. ASSUME Panic PROVE TypeOK'
  BY <1>1, <1>3 DEF Panic, TypeOK
<1>4. ASSUME NEW p \in Proc, start_process(p) PROVE TypeOK'
  <2>1. type' \in [Proc -> [Page -> {"none", "VM_BIN", "VM_ANON"}]]
    <3>1. [v \in Page |-> IF v \in BinPage THEN "VM_BIN" ELSE "none"]
            \in [Page -> {"none", "VM_BIN", "VM_ANON"}]
      OBVIOUS
    <3> QED BY <1>1, <1>4, <3>1 DEF start_process, TypeOK
  <2>2. swap_slot' \in [Proc -> [Page -> Slot \cup {NULL}]]
    <3>1. [v \in Page |-> NULL] \in [Page -> Slot \cup {NULL}]
      OBVIOUS
    <3> QED BY <1>1, <1>4, <3>1 DEF start_process, TypeOK
  <2>3. va' \in [Proc -> Page \cup {NULL}] /\ pc' \in [Proc -> Label]
    BY <1>1, <1>4 DEF start_process, TypeOK, Label
  <2> QED BY <1>1, <1>4, <2>1, <2>2, <2>3 DEF start_process, TypeOK
<1>5. ASSUME NEW p \in Proc, exit(p) PROVE TypeOK'
  BY <1>1, <1>5 DEF exit, TypeOK, Label
<1>6. ASSUME NEW p \in Proc, alloc_page(p) PROVE TypeOK'
  <2>1. CASE used = Frame
    BY <1>1, <1>6, <2>1 DEF alloc_page, TypeOK, Label
  <2>2. CASE used # Frame
    <3> DEFINE f == Min(Frame \ used)
    <3>1. f \in Frame
      <4>1. Frame \ used \subseteq Nat /\ Frame \ used # {}
        BY <1>1, <2>2, PagesAssumption DEF TypeOK
      <4> QED BY <4>1, MinIn
    <3>2. va[p] \in Page /\ 0 \in Value
      BY <1>6, PagesAssumption DEF PagingInv, FrameInv, ProcInv, Faulting, alloc_page
    <3> HIDE DEF f
    <3>3. /\ used' = used \cup {f}
          /\ page' = [page EXCEPT ![f] = <<p, va[p]>>]
          /\ kpage' = [kpage EXCEPT ![p] = f]
          /\ content' = [content EXCEPT ![f] = IF type[p][va[p]] = "none" THEN 0 ELSE @]
          /\ pc' = [pc EXCEPT ![p] = IF type[p][va[p]] = "none" THEN "grow" ELSE "load"]
      BY <1>6, <2>2 DEF alloc_page, f
    <3>4. used' \subseteq Frame /\ kpage' \in [Proc -> Frame \cup {NULL}]
      BY <1>1, <3>1, <3>3 DEF TypeOK
    <3>5. page' \in [Frame -> (Proc \X Page) \cup {NULL}]
      BY <1>1, <3>1, <3>2, <3>3 DEF TypeOK
    <3>6. content' \in [Frame -> Value \cup {JUNK}]
      BY <1>1, <3>1, <3>2, <3>3 DEF TypeOK
    <3>7. pc' \in [Proc -> Label]
      BY <1>1, <3>3 DEF TypeOK, Label
    <3> QED BY <1>1, <1>6, <3>4, <3>5, <3>6, <3>7 DEF alloc_page, TypeOK
  <2> QED BY <2>1, <2>2
<1>7. ASSUME NEW p \in Proc, handle_mm_fault(p), ~ Panic PROVE TypeOK'
  <2> DEFINE s == swap_slot[p][va[p]]
  <2>1. /\ va[p] \in Page /\ kpage[p] \in Frame /\ type[p][va[p]] # "none"
        /\ type[p][va[p]] = "VM_BIN" => va[p] \in BinPage
    <3>1. pc[p] = "load" /\ ProcInv(p)
      BY <1>7 DEF handle_mm_fault, PagingInv, FrameInv
    <3>2. va[p] \in Page /\ kpage[p] \in used /\ type[p][va[p]] # "none"
      <4>1. pc[p] \in Transit \cup {"add"}
        BY <3>1 DEF Transit
      <4> QED BY <3>1, <4>1 DEF ProcInv
    <3>3. PageMapped(p, va[p])
      BY <3>2 DEF PagingInv, FrameInv
    <3> QED BY <1>1, <3>2, <3>3 DEF PageMapped, TypeOK
  <2>2. type[p][va[p]] = "VM_BIN" \/ s \in Slot
    <3>1. s \in Slot \cup {NULL} /\ type[p][va[p]] \in {"none", "VM_BIN", "VM_ANON"}
      BY <1>1, <2>1, Entries
    <3> QED BY <1>7, <2>1, <3>1 DEF handle_mm_fault
  <2>3. content' \in [Frame -> Value \cup {JUNK}]
    <3>1. CASE type[p][va[p]] = "VM_BIN"
      <4>1. content' = [content EXCEPT ![kpage[p]] = Image[va[p]]]
        BY <1>7, <3>1 DEF handle_mm_fault
      <4>2. Image[va[p]] \in Value
        BY <2>1, <3>1, PagesAssumption
      <4> QED BY <1>1, <4>1, <4>2 DEF TypeOK
    <3>2. CASE type[p][va[p]] # "VM_BIN"
      <4>1. content' = [content EXCEPT ![kpage[p]] = disk[s]]
        BY <1>7, <3>2 DEF handle_mm_fault
      <4>2. disk[s] \in Value \cup {JUNK}
        BY <1>1, <2>2, <3>2 DEF TypeOK
      <4> QED BY <1>1, <4>1, <4>2 DEF TypeOK
    <3> QED BY <3>1, <3>2
  <2>4. swap_bitmap' \subseteq Slot
    BY <1>1, <1>7 DEF handle_mm_fault, TypeOK
  <2>5. pagedir' \in [Proc -> [Page -> Frame \cup {NULL}]]
    <3>1. pagedir' = [pagedir EXCEPT ![p][va[p]] = kpage[p]]
      BY <1>7 DEF handle_mm_fault, install_page
    <3> QED BY <1>1, <2>1, <3>1 DEF TypeOK
  <2>6. accessed' \subseteq Proc \X Page /\ dirty' \subseteq Proc \X Page
    BY <1>1, <1>7 DEF handle_mm_fault, install_page, TypeOK
  <2>7. pc' \in [Proc -> Label]
    <3>1. pc' = [pc EXCEPT ![p] = "add"]
      BY <1>7 DEF handle_mm_fault
    <3> QED BY <1>1, <3>1 DEF TypeOK, Label
  <2> QED BY <1>1, <1>7, <2>3, <2>4, <2>5, <2>6, <2>7 DEF handle_mm_fault, TypeOK
<1>8. ASSUME NEW p \in Proc, add_page_to_list_LRU(p) PROVE TypeOK'
  <2>1. kpage[p] \in Frame
    BY <1>1, <1>8 DEF PagingInv, FrameInv, ProcInv, Transit, add_page_to_list_LRU, TypeOK
  <2>2. /\ list_LRU' \in Seq(Frame)
        /\ Elements(list_LRU') = Elements(list_LRU) \cup {kpage[p]}
    <3> DEFINE list == list_LRU
               f == kpage[p]
    <3>1. list_LRU' = Append(list, f)
      BY <1>8 DEF add_page_to_list_LRU
    <3>2. list \in Seq(Frame) /\ f \in Frame
      BY <1>1, <2>1 DEF TypeOK
    <3> HIDE DEF list, f
    <3>3. /\ Append(list, f) \in Seq(Frame)
          /\ Elements(Append(list, f)) = Elements(list) \cup {f}
      BY SMTT(20), <3>2, PushBackElements
    <3> QED BY <3>1, <3>3 DEF list, f
  <2>3. va' \in [Proc -> Page \cup {NULL}] /\ kpage' \in [Proc -> Frame \cup {NULL}]
    BY <1>1, <1>8 DEF add_page_to_list_LRU, Forget, TypeOK
  <2>4. pc' \in [Proc -> Label]
    <3>1. \/ pc' = [pc EXCEPT ![p] = "user"]
          \/ pc' = [pc EXCEPT ![p] = "grow_install"]
      BY <1>8 DEF add_page_to_list_LRU
    <3> QED BY <1>1, <3>1 DEF TypeOK, Label
  <2> QED BY <1>1, <1>8, <2>2, <2>3, <2>4 DEF add_page_to_list_LRU, TypeOK
<1>9. ASSUME NEW p \in Proc, stack_install(p) PROVE TypeOK'
  <2>1. va[p] \in Page /\ kpage[p] \in Frame
    <3>1. pc[p] = "grow_install" /\ ProcInv(p)
      BY <1>9 DEF stack_install, PagingInv, FrameInv
    <3>2. pc[p] \in Transit \cup {"add"}
      BY <3>1 DEF Transit
    <3> QED BY <1>1, <3>1, <3>2 DEF ProcInv, TypeOK
  <2> QED BY <1>1, <1>9, <2>1 DEF stack_install, TypeOK, Label, install_page
<1>20. ASSUME NEW p \in Proc, stack_grow(p) PROVE TypeOK'
  BY <1>1, <1>20 DEF stack_grow, TypeOK, Label, Forget
<1>10. ASSUME NEW p \in Proc, get_victim(p), ~ Panic PROVE TypeOK'
  <2>0. PICK f \in Elements(list_LRU) : Evicts(p, f)
    BY <1>1, <1>10, VictimChosen
  <2>1. f \in Elements(list_LRU) /\ f \in Frame
    BY <1>1, EmptyElements DEF TypeOK
  <2>2. \/ pc' = [pc EXCEPT ![p] = "evict_out"]
        \/ pc' = [pc EXCEPT ![p] = "evict_free"]
    BY <2>0 DEF Evicts
  <2>3. /\ victim' = [victim EXCEPT ![p] = f] /\ LRU_clock' = f /\ LRU_holder' = p
        /\ accessed' \subseteq accessed
        /\ UNCHANGED <<frameVars, list_LRU, pagedir, dirty, type, swap_slot, swapVars,
                       va, kpage, slot, panicked, dangling>>
    BY <2>0 DEF Evicts
  <2>4. pc' \in [Proc -> Label]
    BY <1>1, <2>2 DEF TypeOK, Label
  <2>5. victim' \in [Proc -> Frame \cup {NULL}] /\ accessed' \subseteq Proc \X Page
    BY <1>1, <2>1, <2>3 DEF TypeOK
  <2> QED BY <1>1, <2>1, <2>3, <2>4, <2>5 DEF TypeOK
<1>11. ASSUME NEW p \in Proc, swap_out(p), ~ Panic PROVE TypeOK'
  <2> DEFINE s == Min(Slot \ swap_bitmap)
  <2>1. s \in Slot
    <3>1. Slot \ swap_bitmap \subseteq Nat /\ Slot \ swap_bitmap # {}
      BY <1>1, <1>11, PagesAssumption DEF swap_out, TypeOK
    <3> QED BY <3>1, MinIn
  <2>2. content[victim[p]] \in Value \cup {JUNK}
    <3>1. victim[p] \in Frame
      BY <1>1, <1>11, EmptyElements DEF PagingInv, FrameInv, ProcInv, swap_out, TypeOK
    <3> QED BY <1>1, <3>1 DEF TypeOK
  <2> HIDE DEF s
  <2>3. /\ swap_bitmap' = swap_bitmap \cup {s}
        /\ disk' = [disk EXCEPT ![s] = content[victim[p]]]
        /\ slot' = [slot EXCEPT ![p] = s]
    BY <1>11 DEF swap_out, s
  <2>4. pc' \in [Proc -> Label]
    <3>1. pc' = [pc EXCEPT ![p] = "evict_free"]
      BY <1>11 DEF swap_out
    <3> QED BY <1>1, <3>1 DEF TypeOK, Label
  <2>5. disk' \in [Slot -> Value \cup {JUNK}] /\ slot' \in [Proc -> Slot \cup {NULL}]
    BY <1>1, <2>1, <2>2, <2>3 DEF TypeOK
  <2> QED BY <1>1, <1>11, <2>1, <2>3, <2>4, <2>5 DEF swap_out, TypeOK
<1>12. ASSUME NEW p \in Proc, replacement_mem(p) PROVE TypeOK'
  <2> DEFINE q == page[victim[p]][1]
             v == page[victim[p]][2]
  <2>1. victim[p] \in Elements(list_LRU)
    BY <1>12 DEF PagingInv, FrameInv, ProcInv, replacement_mem
  <2>2. __free_page(victim[p])
    BY <1>12 DEF replacement_mem
  <2>3. q \in Proc /\ v \in Page
    <3>1. victim[p] \in Frame
      BY <1>1, <2>1, EmptyElements DEF TypeOK
    <3>2. page[victim[p]] \in Proc \X Page
      BY <2>1, <3>1 DEF PagingInv, FrameInv, FrameListed
    <3> QED BY <3>2
  <2>4. /\ swap_slot' \in [Proc -> [Page -> Slot \cup {NULL}]]
        /\ type' \in [Proc -> [Page -> {"none", "VM_BIN", "VM_ANON"}]]
    <3> DEFINE x == IF slot[p] = NULL THEN swap_slot[q][v] ELSE slot[p]
               y == IF slot[p] = NULL THEN type[q][v] ELSE "VM_ANON"
    <3>1. swap_slot' = [swap_slot EXCEPT ![q][v] = x]
      BY <1>12 DEF replacement_mem
    <3>2. type' = [type EXCEPT ![q][v] = y]
      BY <1>12 DEF replacement_mem
    <3> HIDE DEF q, v
    <3>3. x \in Slot \cup {NULL} /\ y \in {"none", "VM_BIN", "VM_ANON"}
      <4>1. slot[p] \in Slot \cup {NULL}
        BY <1>1 DEF TypeOK
      <4> QED BY <1>1, <2>3, <4>1, Entries
    <3>4. /\ swap_slot \in [Proc -> [Page -> Slot \cup {NULL}]]
          /\ type \in [Proc -> [Page -> {"none", "VM_BIN", "VM_ANON"}]]
      BY <1>1 DEF TypeOK
    <3> HIDE DEF x, y
    <3> QED BY <2>3, <3>1, <3>2, <3>3, <3>4, EntryType
  <2>5. /\ victim' \in [Proc -> Frame \cup {NULL}] /\ slot' \in [Proc -> Slot \cup {NULL}]
        /\ pc' \in [Proc -> Label]
    BY <1>1, <1>12 DEF replacement_mem, TypeOK, Label
  <2> QED BY <1>1, <1>12, <2>1, <2>2, <2>3, <2>4, <2>5, FreePageType
          DEF replacement_mem, TypeOK
<1>13. ASSUME NEW p \in Proc, swap_clear(p) PROVE TypeOK'
  <2>1. PICK v \in Page : /\ va' = [va EXCEPT ![p] = v]
                          /\ swap_bitmap' = swap_bitmap \ {swap_slot[p][v]}
    BY <1>13 DEF swap_clear
  <2>2. pc' = [pc EXCEPT ![p] = "exit_vaddr"]
    BY <1>13 DEF swap_clear
  <2>3. va' \in [Proc -> Page \cup {NULL}] /\ pc' \in [Proc -> Label]
    BY <1>1, <2>1, <2>2 DEF TypeOK, Label
  <2>4. swap_bitmap' \subseteq Slot
    BY <1>1, <2>1 DEF TypeOK
  <2> QED BY <1>1, <1>13, <2>3, <2>4 DEF swap_clear, TypeOK
<1>14. ASSUME NEW p \in Proc, free_page_vaddr(p) PROVE TypeOK'
  <2>1. pagedir[p][va[p]] \in Frame \cup {NULL}
    <3>1. pc[p] = "exit_vaddr" /\ ProcInv(p)
      BY <1>14 DEF free_page_vaddr, PagingInv, FrameInv
    <3>2. va[p] \in Page
      BY <3>1 DEF ProcInv
    <3> QED BY <1>1, <3>2, Entries
  <2>2. /\ kpage' = [kpage EXCEPT ![p] = pagedir[p][va[p]]]
        /\ pc' = [pc EXCEPT ![p] = "exit_free"]
    BY <1>14 DEF free_page_vaddr
  <2>3. kpage' \in [Proc -> Frame \cup {NULL}] /\ pc' \in [Proc -> Label]
    BY <1>1, <2>1, <2>2 DEF TypeOK, Label
  <2> QED BY <1>1, <1>14, <2>3 DEF free_page_vaddr, TypeOK
<1>15. ASSUME NEW p \in Proc, free_page_kaddr(p), ~ Panic PROVE TypeOK'
  <2>1. /\ type' \in [Proc -> [Page -> {"none", "VM_BIN", "VM_ANON"}]]
        /\ va' \in [Proc -> Page \cup {NULL}] /\ kpage' \in [Proc -> Frame \cup {NULL}]
        /\ pc' \in [Proc -> Label]
    <3>1. /\ type' = [type EXCEPT ![p][va[p]] = "none"]
          /\ pc' = [pc EXCEPT ![p] = "exit"]
          /\ va' = [va EXCEPT ![p] = NULL] /\ kpage' = [kpage EXCEPT ![p] = NULL]
      BY <1>15 DEF free_page_kaddr, Forget
    <3>2. type' \in [Proc -> [Page -> {"none", "VM_BIN", "VM_ANON"}]]
      BY <1>1, <3>1 DEF TypeOK
    <3> QED BY <1>1, <3>1, <3>2 DEF TypeOK, Label
  <2>2. CASE kpage[p] \in Elements(list_LRU)
    <3>1. __free_page(kpage[p])
      BY <1>15, <2>2 DEF free_page_kaddr
    <3> QED BY <1>1, <1>15, <2>1, <2>2, <3>1, FreePageType DEF free_page_kaddr, TypeOK
  <2>3. CASE kpage[p] \notin Elements(list_LRU)
    BY <1>1, <1>15, <2>1, <2>3 DEF free_page_kaddr, TypeOK
  <2> QED BY <2>2, <2>3
<1>16. ASSUME NEW p \in Proc, pagedir_destroy(p) PROVE TypeOK'
  <2> DEFINE left == {pagedir[p][v] : v \in Page} \ {NULL}
  <2>1. /\ used' = used \ left
        /\ content' = [f \in Frame |-> IF f \in left THEN JUNK ELSE content[f]]
    BY <1>16 DEF pagedir_destroy
  <2> HIDE DEF left
  <2>2. content' \in [Frame -> Value \cup {JUNK}]
    BY <1>1, <2>1 DEF TypeOK
  <2>3. [v \in Page |-> NULL] \in [Page -> Frame \cup {NULL}]
    OBVIOUS
  <2> QED BY <1>1, <1>16, <2>1, <2>2, <2>3 DEF pagedir_destroy, TypeOK, Label
<1>17. ASSUME NEW p \in Proc, NEW v \in Page, read(p, v) PROVE TypeOK'
  <2>1. accessed' \subseteq Proc \X Page
    <3>1. accessed \subseteq Proc \X Page /\ accessed' = accessed \cup {<<p, v>>}
      BY <1>1, <1>17 DEF read, TypeOK
    <3> QED BY SMTT(20), <3>1
  <2> QED BY <1>1, <1>17, <2>1 DEF read, TypeOK
<1>18. ASSUME NEW p \in Proc, NEW v \in Page, page_fault(p, v) PROVE TypeOK'
  BY <1>1, <1>18 DEF page_fault, TypeOK, Label
<1>19. ASSUME NEW p \in Proc, NEW v \in Page, NEW x \in Value, write(p, v, x) PROVE TypeOK'
  <2>1. content' \in [Frame -> Value \cup {JUNK}]
    BY <1>1, <1>19 DEF write, TypeOK
  <2>2. accessed' \subseteq Proc \X Page /\ dirty' \subseteq Proc \X Page
    <3>1. /\ accessed \subseteq Proc \X Page /\ accessed' = accessed \cup {<<p, v>>}
          /\ dirty \subseteq Proc \X Page /\ dirty' = dirty \cup {<<p, v>>}
      BY <1>1, <1>19 DEF write, TypeOK
    <3> QED BY SMTT(20), <3>1
  <2> QED BY <1>1, <1>19, <2>1, <2>2 DEF write, TypeOK
<1> QED
  <2>1. ASSUME NEW p \in Proc, Kernel(p) PROVE TypeOK'
    BY <2>1, <1>3, <1>6, <1>7, <1>8, <1>9, <1>10, <1>11, <1>12, <1>13, <1>14, <1>15, <1>16,
       <1>20 DEF Kernel
  <2>2. ASSUME NEW p \in Proc, User(p) PROVE TypeOK'
    BY <2>2, <1>3, <1>4, <1>5, <1>17, <1>18, <1>19 DEF User, load_fails
  <2> QED BY <1>2, <2>1, <2>2 DEF Next, Halted

-----------------------------------------------------------------------------
(***************************************************************************)
(* The frames.  A step moves one process, P, and leaves the others where   *)
(* they are.                                                               *)
(***************************************************************************)
Moves(p, label) ==
  /\ pc'[p] = label
  /\ \A q \in Proc \ {p} : /\ pc'[q] = pc[q] /\ va'[q] = va[q]
                           /\ kpage'[q] = kpage[q] /\ victim'[q] = victim[q]

Evicting == {"evict_out", "evict_free"}

\* list_LRU_lock keeps a second process out of an eviction.
LEMMA OneEvicts ==
  ASSUME PagingInv, NEW p \in Proc, LRU_holder \in {NULL, p}, NEW q \in Proc \ {p}
  PROVE  pc[q] \notin Evicting
<1>1. ProcInv(q)
  BY DEF PagingInv, FrameInv
<1>2. pc[q] \in Evicting => LRU_holder = q
  BY <1>1 DEF ProcInv, Evicting
<1>3. NULL \notin Proc
  BY PagesAssumption
<1> QED BY <1>2, <1>3

\* What a process relies on stays true when a step of another one takes nothing
\* away that it uses.
LEMMA ProcKept ==
  ASSUME PagingInv, NEW q \in Proc,
         pc'[q] = pc[q], va'[q] = va[q], kpage'[q] = kpage[q], victim'[q] = victim[q],
         \A v \in Page : pagedir'[q][v] \in {NULL, pagedir[q][v]},
         pc[q] = "load" => type'[q][va[q]] # "none",
         pc[q] = "add" => pagedir'[q][va[q]] = pagedir[q][va[q]],
         pc[q] \in Transit \cup {"add"} =>
           /\ kpage[q] \in used' /\ page'[kpage[q]] = page[kpage[q]]
           /\ kpage[q] \in Elements(list_LRU') <=> kpage[q] \in Elements(list_LRU),
         pc[q] \in Evicting =>
           /\ LRU_holder' = LRU_holder /\ victim[q] \in Elements(list_LRU')
           /\ ~ HalfBuilt(victim[q])'
  PROVE  ProcInv(q)'
<1>1. ProcInv(q)
  BY DEF PagingInv, FrameInv
<1>2. pc[q] = "start" => \A v \in Page : pagedir'[q][v] = NULL
  BY <1>1 DEF ProcInv
<1>3. pc[q] \in Faulting => va[q] \in Page /\ pagedir'[q][va[q]] = NULL
  BY <1>1 DEF ProcInv
<1>4. pc[q] \in Transit \cup {"add"} =>
        va[q] \in Page /\ kpage[q] \in used' /\ page'[kpage[q]] = <<q, va[q]>>
  BY <1>1 DEF ProcInv
<1>5. pc[q] = "add" => pagedir'[q][va[q]] = kpage[q]
  BY <1>1 DEF ProcInv
<1>6. pc[q] \in {"load", "grow", "add"} => kpage[q] \notin Elements(list_LRU')
  <2>1. pc[q] \in {"load", "grow", "add"} => pc[q] \in Transit \cup {"add"}
    BY DEF Transit
  <2>2. pc[q] \in {"load", "grow", "add"} => kpage[q] \notin Elements(list_LRU)
    BY <1>1 DEF ProcInv
  <2> QED BY <2>1, <2>2
<1>7. pc[q] = "grow_install" => kpage[q] \in Elements(list_LRU')
  <2>1. pc[q] = "grow_install" => pc[q] \in Transit \cup {"add"}
    BY DEF Transit
  <2>2. pc[q] = "grow_install" => kpage[q] \in Elements(list_LRU)
    BY <1>1 DEF ProcInv
  <2> QED BY <2>1, <2>2
<1>8. pc[q] \in Evicting =>
        LRU_holder' = q /\ victim[q] \in Elements(list_LRU') /\ ~ HalfBuilt(victim[q])'
  BY <1>1 DEF ProcInv, Evicting
<1>9. pc[q] \in {"exit_vaddr", "exit_free"} => va[q] \in Page
  BY <1>1 DEF ProcInv
<1>10. pc[q] = "exit_free" => pagedir'[q][va[q]] \in {NULL, kpage[q]}
  <2>1. pc[q] = "exit_free" => va[q] \in Page /\ pagedir[q][va[q]] \in {NULL, kpage[q]}
    BY <1>1 DEF ProcInv
  <2> QED BY <2>1
<1> QED
  BY <1>2, <1>3, <1>4, <1>5, <1>6, <1>7, <1>8, <1>9, <1>10 DEF ProcInv, Evicting

\* A frame that a process has allocated is not the mapped frame of a listed page.
LEMMA ListedNotTaken ==
  ASSUME PagingInv, NEW f \in Elements(list_LRU), ~ HalfBuilt(f)
  PROVE  /\ f \in Frame /\ page[f] \in Proc \X Page
         /\ pagedir[page[f][1]][page[f][2]] = f
         /\ \A q \in Proc : pc[q] \in Transit \cup {"add"} => kpage[q] # f
<1>1. f \in Frame
  BY EmptyElements DEF PagingInv, TypeOK
<1>2. FrameListed(f)
  BY <1>1 DEF PagingInv, FrameInv
<1>3. page[f] \in Proc \X Page
  BY <1>2 DEF FrameListed
<1>4. page[f][1] \in Proc /\ page[f][2] \in Page /\ page[f] = <<page[f][1], page[f][2]>>
  BY SMTT(20), <1>3
<1>5. pagedir[page[f][1]][page[f][2]] = f
  BY <1>2, <1>4 DEF FrameListed, HalfBuilt
<1>6. ASSUME NEW q \in Proc, pc[q] \in Transit \cup {"add"}, kpage[q] = f PROVE FALSE
  <2>1. ProcInv(q) /\ NULL \notin Frame
    BY PagesAssumption DEF PagingInv, FrameInv
  <2>2. page[f] = <<q, va[q]>>
    BY <1>6, <2>1 DEF ProcInv
  <2>3. page[f][1] = q /\ page[f][2] = va[q]
    BY SMTT(20), <2>2
  <2>4. pc[q] = "add" => f \notin Elements(list_LRU)
    BY <1>6, <2>1 DEF ProcInv
  <2>5. pc[q] \in Transit => pagedir[q][va[q]] = NULL
    BY <2>1 DEF ProcInv, Faulting
  <2> QED BY <1>1, <1>5, <1>6, <2>1, <2>3, <2>4, <2>5
<1> QED BY <1>1, <1>3, <1>5, <1>6

\* The part of FrameInv that is not about the process that moves.
Rest(p) ==
  /\ \A f \in Frame : FrameOwned(f) /\ FrameListed(f)
  /\ \A q \in Proc \ {p} : ProcInv(q)
  /\ \A q \in Proc, v \in Page : PageMapped(q, v)
  /\ NoDuplicates(list_LRU)

\* A step that neither maps, frees nor lists a frame.
LEMMA Still ==
  ASSUME PagingInv, NEW p \in Proc, NEW label,
         UNCHANGED <<used, page, list_LRU, pagedir>>,
         Moves(p, label),
         pc[p] \notin Transit \cup {"add"}, label \notin Transit \cup {"add"},
         LRU_holder' = LRU_holder \/ LRU_holder = NULL,
         \A q \in Proc \ {p} : type'[q] = type[q],
         \A v \in Page : /\ type'[p][v] = "none" => pagedir[p][v] = NULL
                         /\ type'[p][v] = "VM_BIN" => v \in BinPage
  PROVE  Rest(p)'
<1>1. ASSUME NEW f \in Frame PROVE FrameOwned(f)' /\ FrameListed(f)'
  <2>1. FrameOwned(f) /\ FrameListed(f)
    BY DEF PagingInv, FrameInv
  <2>2. ASSUME page[f] \in Proc \X Page, pc[page[f][1]] \in Transit
        PROVE  pc'[page[f][1]] = pc[page[f][1]] /\ kpage'[page[f][1]] = kpage[page[f][1]]
    <3>1. page[f][1] \in Proc
      BY SMTT(20), <2>2
    <3> QED BY <2>2, <3>1 DEF Moves
  <2>3. FrameOwned(f)'
    BY <2>1, <2>2 DEF FrameOwned
  <2>4. FrameListed(f)'
    BY <2>1, <2>2 DEF FrameListed, Transit
  <2> QED BY <2>3, <2>4
<1>2. ASSUME NEW q \in Proc \ {p} PROVE ProcInv(q)'
  <2>1. ProcInv(q)
    BY DEF PagingInv, FrameInv
  <2>2. /\ pc'[q] = pc[q] /\ va'[q] = va[q] /\ kpage'[q] = kpage[q] /\ victim'[q] = victim[q]
        /\ type'[q] = type[q] /\ pagedir'[q] = pagedir[q]
    BY DEF Moves
  <2>3. pc[q] = "load" => type'[q][va[q]] # "none"
    BY <2>1, <2>2 DEF ProcInv
  <2>4. pc[q] \in Transit \cup {"add"} => kpage[q] \in used'
    BY <2>1 DEF ProcInv
  <2>5. pc[q] \in Evicting =>
          LRU_holder = q /\ victim[q] \in Elements(list_LRU) /\ ~ HalfBuilt(victim[q])
    BY <2>1 DEF ProcInv, Evicting
  <2>6. HalfBuilt(victim[q])' => HalfBuilt(victim[q])
    BY <2>2 DEF HalfBuilt, Moves, Transit
  <2>7. pc[q] \in Evicting => LRU_holder' = LRU_holder
    BY <2>5, PagesAssumption
  <2> QED BY <2>2, <2>3, <2>4, <2>5, <2>6, <2>7, ProcKept
<1>3. ASSUME NEW q \in Proc, NEW v \in Page PROVE PageMapped(q, v)'
  <2>1. PageMapped(q, v)
    BY DEF PagingInv, FrameInv
  <2>2. /\ pc[q] = "add" /\ va[q] = v => pc'[q] = "add" /\ va'[q] = v
    BY DEF Moves
  <2>3. /\ type'[q][v] = "none" => pagedir[q][v] = NULL
        /\ type'[q][v] = "VM_BIN" => v \in BinPage
    BY <2>1 DEF PageMapped
  <2> QED BY <2>1, <2>2, <2>3 DEF PageMapped
<1>4. NoDuplicates(list_LRU)'
  BY DEF PagingInv, FrameInv, NoDuplicates
<1> QED BY <1>1, <1>2, <1>3, <1>4 DEF Rest

\* The same when the page_entries stay as they are, too.
LEMMA StillTyped ==
  ASSUME PagingInv, NEW p \in Proc, NEW label,
         UNCHANGED <<used, page, list_LRU, pagedir, type>>,
         Moves(p, label),
         pc[p] \notin Transit \cup {"add"}, label \notin Transit \cup {"add"},
         LRU_holder' = LRU_holder \/ LRU_holder = NULL
  PROVE  Rest(p)'
<1>1. ASSUME NEW v \in Page
      PROVE  /\ type'[p][v] = "none" => pagedir[p][v] = NULL
             /\ type'[p][v] = "VM_BIN" => v \in BinPage
  <2>1. PageMapped(p, v)
    BY DEF PagingInv, FrameInv
  <2> QED BY <2>1 DEF PageMapped
<1> QED BY <1>1, Still

\* __free_page() of a listed page that is complete, by which no pointer dangles.
LEMMA FreeStep ==
  ASSUME PagingInv, NEW p \in Proc, NEW label, NEW f \in Elements(list_LRU),
         ~ HalfBuilt(f), __free_page(f), ~ dangling', Moves(p, label),
         pc[p] \notin Transit \cup {"add"}, label \notin Transit \cup {"add"},
         LRU_holder \in {NULL, p},
         \A q \in Proc, v \in Page :
           \/ type'[q][v] = type[q][v]
           \/ type'[q][v] = "VM_ANON"
           \/ q = p /\ type'[q][v] = "none" /\ pagedir[q][v] \in {NULL, f}
  PROVE  /\ Rest(p)'
         /\ \A v \in Page : pagedir'[p][v] \in {NULL, pagedir[p][v]}
<1>1. TypeOK /\ NULL \notin Frame
  BY PagesAssumption DEF PagingInv
<1>2. /\ f \in Frame /\ page[f] \in Proc \X Page
      /\ pagedir[page[f][1]][page[f][2]] = f
      /\ \A q \in Proc : pc[q] \in Transit \cup {"add"} => kpage[q] # f
  BY ListedNotTaken
<1>3. /\ Elements(list_LRU') = Elements(list_LRU) \ {f}
      /\ NoDuplicates(list_LRU')
  BY DelPage DEF __free_page
<1>4. /\ used' = used \ {f}
      /\ page' = [page EXCEPT ![f] = NULL]
      /\ pagedir' = [pagedir EXCEPT ![page[f][1]][page[f][2]] = NULL]
  BY DEF __free_page, palloc_free_page
<1>5. \A g \in Frame \ {f} : page'[g] = page[g]
  BY <1>1, <1>4 DEF TypeOK
<1>6. ASSUME NEW q \in Proc, NEW v \in Page
      PROVE  pagedir'[q][v] = IF <<q, v>> = page[f] THEN NULL ELSE pagedir[q][v]
  <2>1. pagedir \in [Proc -> [Page -> Frame \cup {NULL}]]
    BY <1>1 DEF TypeOK
  <2> QED BY SMTT(20), <1>2, <1>4, <2>1
\* The page that is freed is the only one where F is mapped.
<1>7. ASSUME NEW q \in Proc, NEW v \in Page
      PROVE  /\ pagedir[q][v] = f <=> <<q, v>> = page[f]
             /\ pagedir'[q][v] = IF pagedir[q][v] = f THEN NULL ELSE pagedir[q][v]
  <2>1. PageMapped(q, v)
    BY DEF PagingInv, FrameInv
  <2>2. ASSUME pagedir[q][v] = f PROVE <<q, v>> = page[f]
    <3>1. pagedir[q][v] # NULL
      BY <1>1, <1>2, <2>2
    <3>2. page[pagedir[q][v]] = <<q, v>>
      BY <2>1, <3>1 DEF PageMapped
    <3> QED BY <2>2, <3>2
  <2>3. ASSUME <<q, v>> = page[f] PROVE pagedir[q][v] = f
    <3>1. q = page[f][1] /\ v = page[f][2]
      BY SMTT(20), <2>3
    <3> QED BY <1>2, <3>1
  <2>4. pagedir[q][v] = f <=> <<q, v>> = page[f]
    BY <2>2, <2>3
  <2>5. pagedir'[q][v] = IF <<q, v>> = page[f] THEN NULL ELSE pagedir[q][v]
    BY <1>6
  <2> QED BY SMTT(20), <2>4, <2>5
<1>8. ASSUME NEW g \in Frame PROVE FrameOwned(g)' /\ FrameListed(g)'
  <2>1. CASE g = f
    BY <1>3, <1>4, <2>1 DEF FrameOwned, FrameListed
  <2>2. CASE g # f
    <3>1. FrameOwned(g) /\ FrameListed(g) /\ page'[g] = page[g]
      BY <1>5, <2>2 DEF PagingInv, FrameInv
    <3>2. ASSUME page[g] \in Proc \X Page
          PROVE  /\ pagedir[page[g][1]][page[g][2]] = g => pagedir'[page[g][1]][page[g][2]] = g
                 /\ pc[page[g][1]] \in Transit =>
                      /\ pc'[page[g][1]] = pc[page[g][1]]
                      /\ kpage'[page[g][1]] = kpage[page[g][1]]
      <4>1. page[g][1] \in Proc /\ page[g][2] \in Page
        BY SMTT(20), <3>2
      <4>2. ASSUME pagedir[page[g][1]][page[g][2]] = g
            PROVE  pagedir'[page[g][1]][page[g][2]] = g
        <5>1. pagedir'[page[g][1]][page[g][2]] =
                IF pagedir[page[g][1]][page[g][2]] = f
                THEN NULL ELSE pagedir[page[g][1]][page[g][2]]
          BY SMTT(20), <1>7, <4>1
        <5> QED BY <2>2, <4>2, <5>1
      <4> QED BY <4>1, <4>2 DEF Moves
    <3>3. FrameOwned(g)'
      BY <1>4, <3>1, <3>2 DEF FrameOwned
    <3>4. FrameListed(g)'
      BY <1>3, <3>1, <3>2 DEF FrameListed, Transit
    <3> QED BY <3>3, <3>4
  <2> QED BY <2>1, <2>2
<1>9. ASSUME NEW q \in Proc \ {p} PROVE ProcInv(q)'
  <2>1. ProcInv(q) /\ pc[q] \notin Evicting
    BY OneEvicts DEF PagingInv, FrameInv
  <2>2. /\ pc'[q] = pc[q] /\ va'[q] = va[q] /\ kpage'[q] = kpage[q] /\ victim'[q] = victim[q]
    BY DEF Moves
  <2>3. ASSUME NEW v \in Page PROVE pagedir'[q][v] \in {NULL, pagedir[q][v]}
    <3>1. pagedir'[q][v] = IF pagedir[q][v] = f THEN NULL ELSE pagedir[q][v]
      BY <1>7
    <3> QED BY <3>1
  <2>4. pc[q] = "load" => type'[q][va[q]] # "none"
    <3>1. pc[q] = "load" => va[q] \in Page /\ type[q][va[q]] # "none"
      BY <2>1 DEF ProcInv, Faulting, Transit
    <3> QED BY <3>1
  <2>5. pc[q] \in Transit \cup {"add"} =>
          va[q] \in Page /\ kpage[q] \in used /\ kpage[q] \in Frame /\ kpage[q] # f
    BY <1>1, <1>2, <2>1 DEF ProcInv, TypeOK
  <2>6. pc[q] = "add" => pagedir'[q][va[q]] = pagedir[q][va[q]]
    <3>1. pc[q] = "add" => pagedir[q][va[q]] = kpage[q]
      BY <2>1 DEF ProcInv
    <3> QED BY <1>7, <2>5, <3>1
  <2>7. pc[q] \in Transit \cup {"add"} =>
          /\ kpage[q] \in used' /\ page'[kpage[q]] = page[kpage[q]]
          /\ kpage[q] \in Elements(list_LRU') <=> kpage[q] \in Elements(list_LRU)
    BY <1>3, <1>4, <1>5, <2>5
  <2> QED BY <2>1, <2>2, <2>3, <2>4, <2>6, <2>7, ProcKept
<1>10. ASSUME NEW q \in Proc, NEW v \in Page PROVE PageMapped(q, v)'
  <2>1. PageMapped(q, v) /\ pagedir[q][v] \in Frame \cup {NULL}
    BY <1>1, Entries DEF PagingInv, FrameInv
  <2>2. pc[q] = "add" /\ va[q] = v => pc'[q] = "add" /\ va'[q] = v
    BY DEF Moves
  <2>3. type'[q][v] = "VM_BIN" => v \in BinPage
    BY <2>1 DEF PageMapped
  <2>4. ASSUME pagedir'[q][v] # NULL
        PROVE  /\ pagedir'[q][v] \in used'
               /\ page'[pagedir'[q][v]] = <<q, v>>
               /\ pagedir'[q][v] \in Elements(list_LRU') \/ (pc'[q] = "add" /\ va'[q] = v)
               /\ type'[q][v] # "none"
    <3>1. pagedir'[q][v] = pagedir[q][v] /\ pagedir[q][v] \in Frame \ {f}
      BY <1>7, <2>1, <2>4
    <3>2. type[q][v] # "none" /\ type'[q][v] # "none"
      BY <2>1, <2>4, <3>1 DEF PageMapped
    <3>3. /\ pagedir[q][v] \in used /\ page[pagedir[q][v]] = <<q, v>>
          /\ pagedir[q][v] \in Elements(list_LRU) \/ (pc[q] = "add" /\ va[q] = v)
      BY <2>1, <2>4, <3>1 DEF PageMapped
    <3>4. pagedir[q][v] \in used' /\ page'[pagedir[q][v]] = <<q, v>>
      BY <1>4, <1>5, <3>1, <3>3
    <3>5. pagedir[q][v] \in Elements(list_LRU') \/ (pc'[q] = "add" /\ va'[q] = v)
      BY <1>3, <2>2, <3>1, <3>3
    <3> QED BY <3>1, <3>2, <3>4, <3>5
  <2> QED BY <2>3, <2>4 DEF PageMapped
<1>11. \A v \in Page : pagedir'[p][v] \in {NULL, pagedir[p][v]}
  BY SMTT(20), <1>7
<1> QED BY <1>3, <1>8, <1>9, <1>10, <1>11 DEF Rest

\* install_page() by handle_mm_fault(), setup_stack() or stack_grow().
LEMMA MapStep ==
  ASSUME PagingInv, NEW p \in Proc, NEW label \in {"add", "grow_entry"},
         pc[p] \in {"load", "grow_install"}, pc[p] = "load" <=> label = "add",
         label = "add" => va'[p] = va[p],
         UNCHANGED <<used, page, list_LRU, LRU_holder>>,
         pagedir' = [pagedir EXCEPT ![p][va[p]] = kpage[p]],
         Moves(p, label),
         \A q \in Proc \ {p} : type'[q] = type[q],
         \A v \in Page : \/ type'[p][v] = type[p][v] /\ (v = va[p] => type[p][v] # "none")
                         \/ type'[p][v] = "VM_ANON"
  PROVE  Rest(p)'
<1>1. TypeOK /\ NULL \notin Frame /\ ProcInv(p)
  BY PagesAssumption DEF PagingInv, FrameInv
<1>2. pc[p] \in Transit /\ pc[p] \in Faulting
  BY DEF Transit, Faulting
<1>3. /\ va[p] \in Page /\ kpage[p] \in used /\ page[kpage[p]] = <<p, va[p]>>
      /\ pagedir[p][va[p]] = NULL
  BY <1>1, <1>2 DEF ProcInv
<1>4. /\ pagedir'[p][va[p]] = kpage[p]
      /\ \A v \in Page \ {va[p]} : pagedir'[p][v] = pagedir[p][v]
      /\ \A q \in Proc \ {p} : pagedir'[q] = pagedir[q]
  <2>1. pagedir \in [Proc -> [Page -> Frame \cup {NULL}]]
    BY <1>1 DEF TypeOK
  <2> QED BY <1>3, <2>1
\* What was mapped stays mapped.
<1>5. ASSUME NEW q \in Proc, NEW v \in Page, NEW g \in Frame, pagedir[q][v] = g
      PROVE  pagedir'[q][v] = g
  BY <1>1, <1>3, <1>4, <1>5
<1>6. ASSUME NEW f \in Frame PROVE FrameOwned(f)' /\ FrameListed(f)'
  <2>1. FrameOwned(f) /\ FrameListed(f)
    BY DEF PagingInv, FrameInv
  <2>2. ASSUME page[f] \in Proc \X Page
        PROVE  /\ pagedir[page[f][1]][page[f][2]] = f => pagedir'[page[f][1]][page[f][2]] = f
               /\ page[f][1] # p =>
                    /\ pc'[page[f][1]] = pc[page[f][1]]
                    /\ kpage'[page[f][1]] = kpage[page[f][1]]
               /\ page[f][1] = p /\ kpage[p] = f => pagedir'[page[f][1]][page[f][2]] = f
    <3>1. page[f][1] \in Proc /\ page[f][2] \in Page
      BY SMTT(20), <2>2
    <3>2. pagedir[page[f][1]][page[f][2]] = f => pagedir'[page[f][1]][page[f][2]] = f
      BY <1>5, <3>1
    <3>3. kpage[p] = f => page[f][1] = p /\ page[f][2] = va[p]
      BY SMTT(20), <1>3
    <3>4. kpage[p] = f => pagedir'[page[f][1]][page[f][2]] = f
      BY <1>4, <3>3
    <3> QED BY <3>1, <3>2, <3>4 DEF Moves
  <2>3. FrameOwned(f)'
    BY <2>1, <2>2 DEF FrameOwned
  <2>4. FrameListed(f)'
    BY <2>1, <2>2 DEF FrameListed
  <2> QED BY <2>3, <2>4
<1>7. ASSUME NEW q \in Proc \ {p} PROVE ProcInv(q)'
  <2>1. ProcInv(q)
    BY DEF PagingInv, FrameInv
  <2>2. /\ pc'[q] = pc[q] /\ va'[q] = va[q] /\ kpage'[q] = kpage[q] /\ victim'[q] = victim[q]
        /\ type'[q] = type[q] /\ pagedir'[q] = pagedir[q]
    BY <1>4 DEF Moves
  <2>3. pc[q] = "load" => type'[q][va[q]] # "none"
    BY <2>1, <2>2 DEF ProcInv
  <2>4. pc[q] \in Transit \cup {"add"} => kpage[q] \in used'
    BY <2>1 DEF ProcInv
  <2>5. pc[q] \in Evicting =>
          LRU_holder = q /\ victim[q] \in Elements(list_LRU) /\ ~ HalfBuilt(victim[q])
    BY <2>1 DEF ProcInv, Evicting
  <2>6. HalfBuilt(victim[q])' => HalfBuilt(victim[q])
    BY <2>2 DEF HalfBuilt, Moves
  <2> QED BY <2>2, <2>3, <2>4, <2>5, <2>6, ProcKept
<1>8. ASSUME NEW q \in Proc, NEW v \in Page PROVE PageMapped(q, v)'
  <2>1. PageMapped(q, v)
    BY DEF PagingInv, FrameInv
  <2>2. CASE q = p /\ v = va[p]
    <3>1. pc[p] = "grow_install" => kpage[p] \in Elements(list_LRU)
      BY <1>1 DEF ProcInv
    <3>2. pc'[p] = label
      BY DEF Moves
    <3>3. type'[p][va[p]] # "none" /\ (type'[p][va[p]] = "VM_BIN" => va[p] \in BinPage)
      BY <1>3, <2>1, <2>2 DEF PageMapped
    <3>4. kpage[p] \in Elements(list_LRU') \/ (pc'[p] = "add" /\ va'[p] = va[p])
      BY <3>1, <3>2
    <3>5. kpage[p] \in used' /\ page'[kpage[p]] = <<p, va[p]>>
      BY <1>3
    <3> QED BY <1>4, <2>2, <3>3, <3>4, <3>5 DEF PageMapped
  <2>3. CASE ~ (q = p /\ v = va[p])
    <3>1. pagedir'[q][v] = pagedir[q][v]
      BY <1>4, <2>3
    <3>2. pc[q] = "add" /\ va[q] = v => pc'[q] = "add" /\ va'[q] = v
      BY DEF Moves
    <3>3. type'[q][v] = type[q][v] \/ type'[q][v] = "VM_ANON"
      OBVIOUS
    <3>4. type'[q][v] = "VM_BIN" => v \in BinPage
      BY <2>1, <3>3 DEF PageMapped
    <3>5. pagedir[q][v] # NULL => type'[q][v] # "none"
      BY <2>1, <3>3 DEF PageMapped
    <3>6. pagedir[q][v] # NULL =>
            /\ pagedir[q][v] \in used' /\ page'[pagedir[q][v]] = <<q, v>>
            /\ pagedir[q][v] \in Elements(list_LRU') \/ (pc'[q] = "add" /\ va'[q] = v)
      BY <2>1, <3>2 DEF PageMapped
    <3> QED BY <3>1, <3>4, <3>5, <3>6 DEF PageMapped
  <2> QED BY <2>2, <2>3
<1>9. NoDuplicates(list_LRU)'
  BY DEF PagingInv, FrameInv, NoDuplicates
<1> QED BY <1>6, <1>7, <1>8, <1>9 DEF Rest

\* A listed frame is in use.
LEMMA ListedUsed ==
  ASSUME PagingInv, NEW f \in Elements(list_LRU)
  PROVE  f \in used
<1>1. f \in Frame /\ NULL \notin Frame
  <2>1. f \in Frame
    BY EmptyElements DEF PagingInv, TypeOK
  <2> QED BY <2>1, PagesAssumption
<1>2. FrameListed(f)
  BY <1>1 DEF PagingInv, FrameInv
<1>3. page[f] \in Proc \X Page
  BY <1>2 DEF FrameListed
<1>4. page[f][1] \in Proc /\ page[f][2] \in Page
  BY SMTT(20), <1>3
<1>5. PageMapped(page[f][1], page[f][2]) /\ ProcInv(page[f][1])
  <2>1. \A q \in Proc : ProcInv(q)
    BY DEF PagingInv, FrameInv
  <2>2. \A q \in Proc, v \in Page : PageMapped(q, v)
    BY DEF PagingInv, FrameInv
  <2> QED BY <1>4, <2>1, <2>2
<1>6. CASE pagedir[page[f][1]][page[f][2]] = f
  BY <1>1, <1>5, <1>6 DEF PageMapped
<1>7. CASE pc[page[f][1]] = "grow_install" /\ kpage[page[f][1]] = f
  BY <1>5, <1>7 DEF ProcInv, Transit
<1> QED BY <1>2, <1>6, <1>7 DEF FrameListed

\* alloc_page() takes a frame that nobody has.
LEMMA AllocStep ==
  ASSUME PagingInv, NEW p \in Proc, NEW f \in Frame \ used, NEW label \in {"load", "grow"},
         pc[p] = "alloc", Moves(p, label), kpage'[p] = f, va' = va,
         used' = used \cup {f}, page' = [page EXCEPT ![f] = <<p, va[p]>>],
         label = "load" => type[p][va[p]] # "none",
         UNCHANGED <<list_LRU, LRU_holder, pagedir, type>>
  PROVE  FrameInv'
<1>1. TypeOK /\ NULL \notin Frame /\ ProcInv(p)
  BY PagesAssumption DEF PagingInv, FrameInv
<1>2. va[p] \in Page /\ pagedir[p][va[p]] = NULL
  BY <1>1 DEF ProcInv, Faulting
<1>3. page'[f] = <<p, va[p]>> /\ \A g \in Frame \ {f} : page'[g] = page[g]
  BY <1>1 DEF TypeOK
<1>4. f \notin Elements(list_LRU)
  BY ListedUsed
<1>5. label \in Transit /\ pc'[p] = label
  BY DEF Transit, Moves
<1>6. ASSUME NEW g \in Frame PROVE FrameOwned(g)' /\ FrameListed(g)'
  <2>1. CASE g = f
    <3>1. <<p, va[p]>> \in Proc \X Page /\ <<p, va[p]>>[1] = p
      BY SMTT(20), <1>2
    <3> QED BY <1>3, <1>4, <1>5, <2>1, <3>1 DEF FrameOwned, FrameListed
  <2>2. CASE g # f
    <3>1. FrameOwned(g) /\ FrameListed(g) /\ page'[g] = page[g]
      BY <1>3, <2>2 DEF PagingInv, FrameInv
    <3>2. ASSUME page[g] \in Proc \X Page, pc[page[g][1]] \in Transit
          PROVE  pc'[page[g][1]] = pc[page[g][1]] /\ kpage'[page[g][1]] = kpage[page[g][1]]
      <4>1. page[g][1] \in Proc /\ page[g][1] # p
        BY SMTT(20), <3>2 DEF Transit
      <4> QED BY <4>1 DEF Moves
    <3>3. FrameOwned(g)'
      BY <2>2, <3>1, <3>2 DEF FrameOwned
    <3>4. FrameListed(g)'
      BY <3>1, <3>2 DEF FrameListed, Transit
    <3> QED BY <3>3, <3>4
  <2> QED BY <2>1, <2>2
<1>7. ASSUME NEW q \in Proc \ {p} PROVE ProcInv(q)'
  <2>1. ProcInv(q)
    BY DEF PagingInv, FrameInv
  <2>2. /\ pc'[q] = pc[q] /\ va'[q] = va[q] /\ kpage'[q] = kpage[q] /\ victim'[q] = victim[q]
    BY DEF Moves
  <2>3. pc[q] = "load" => type'[q][va[q]] # "none"
    BY <2>1 DEF ProcInv
  <2>4. pc[q] \in Transit \cup {"add"} => kpage[q] \in used
    BY <2>1 DEF ProcInv
  <2>5. pc[q] \in Transit \cup {"add"} =>
          kpage[q] \in used' /\ page'[kpage[q]] = page[kpage[q]]
    <3>1. used \subseteq Frame
      BY <1>1 DEF TypeOK
    <3> QED BY <1>3, <2>4, <3>1
  <2>6. pc[q] \in Evicting => victim[q] \in Elements(list_LRU) /\ ~ HalfBuilt(victim[q])
    BY <2>1 DEF ProcInv, Evicting
  <2>7. HalfBuilt(victim[q])' => HalfBuilt(victim[q])
    BY <1>5, <2>2 DEF HalfBuilt, Moves
  <2> QED BY <2>2, <2>3, <2>5, <2>6, <2>7, ProcKept
<1>8. ProcInv(p)'
  <2>1. pc'[p] \in {"load", "grow"} /\ pc'[p] \in Transit
    BY <1>5
  <2>2. /\ va'[p] \in Page /\ pagedir'[p][va'[p]] = NULL /\ kpage'[p] \in used'
        /\ page'[kpage'[p]] = <<p, va'[p]>> /\ kpage'[p] \notin Elements(list_LRU')
        /\ pc'[p] = "load" => type'[p][va'[p]] # "none"
    BY <1>2, <1>3, <1>4, <1>5
  <2> QED BY <2>1, <2>2 DEF ProcInv
<1>9. ASSUME NEW q \in Proc, NEW v \in Page PROVE PageMapped(q, v)'
  <2>1. PageMapped(q, v)
    BY DEF PagingInv, FrameInv
  <2>2. pc[q] = "add" /\ va[q] = v => pc'[q] = "add" /\ va'[q] = v
    BY DEF Moves
  <2>3. ASSUME pagedir[q][v] # NULL
        PROVE  pagedir[q][v] \in used' /\ page'[pagedir[q][v]] = <<q, v>>
    <3>1. pagedir[q][v] \in Frame \ {f} /\ pagedir[q][v] \in used
      BY <1>1, <2>1, <2>3 DEF PageMapped, TypeOK
    <3> QED BY <1>3, <2>1, <2>3, <3>1 DEF PageMapped
  <2>4. pagedir[q][v] # NULL =>
          pagedir[q][v] \in Elements(list_LRU') \/ (pc'[q] = "add" /\ va'[q] = v)
    BY <2>1, <2>2 DEF PageMapped
  <2> QED BY <2>1, <2>3, <2>4 DEF PageMapped
<1>10. NoDuplicates(list_LRU)'
  BY DEF PagingInv, FrameInv, NoDuplicates
<1> QED BY <1>6, <1>7, <1>8, <1>9, <1>10 DEF FrameInv

\* add_page_to_list_LRU(), after handle_mm_fault() or before stack_grow().
LEMMA AddStep ==
  ASSUME PagingInv, NEW p \in Proc, add_page_to_list_LRU(p)
  PROVE  FrameInv'
<1>1. TypeOK /\ NULL \notin Frame /\ ProcInv(p)
  BY PagesAssumption DEF PagingInv, FrameInv
<1>2. /\ pc[p] \in {"add", "grow"} /\ LRU_holder = NULL
      /\ list_LRU' = Append(list_LRU, kpage[p])
      /\ UNCHANGED <<used, page, LRU_holder, pagedir, type, victim>>
  BY DEF add_page_to_list_LRU, At, frameVars, tableVars
<1>3. /\ va[p] \in Page /\ kpage[p] \in used /\ page[kpage[p]] = <<p, va[p]>>
      /\ kpage[p] \notin Elements(list_LRU)
  <2>1. pc[p] \in Transit \cup {"add"}
    BY <1>2 DEF Transit
  <2>2. va[p] \in Page /\ kpage[p] \in used /\ page[kpage[p]] = <<p, va[p]>>
    BY <1>1, <2>1 DEF ProcInv
  <2>3. kpage[p] \notin Elements(list_LRU)
    BY <1>1, <1>2 DEF ProcInv
  <2> QED BY <2>2, <2>3
<1>4. /\ Elements(list_LRU') = Elements(list_LRU) \cup {kpage[p]}
      /\ NoDuplicates(list_LRU')
  <2>1. list_LRU \in Seq(Frame) /\ kpage[p] \in Frame /\ NoDuplicates(list_LRU)
    BY <1>1, <1>3 DEF TypeOK, PagingInv, FrameInv
  <2>2. /\ Elements(Append(list_LRU, kpage[p])) = Elements(list_LRU) \cup {kpage[p]}
        /\ NoDuplicates(Append(list_LRU, kpage[p]))
    <3> DEFINE list == list_LRU
               f == kpage[p]
    <3>1. list \in Seq(Frame) /\ f \in Frame /\ NoDuplicates(list) /\ f \notin Elements(list)
      BY <1>3, <2>1
    <3> HIDE DEF list, f
    <3>2. Elements(Append(list, f)) = Elements(list) \cup {f} /\ NoDuplicates(Append(list, f))
      BY SMTT(20), <3>1, PushBackElements
    <3> QED BY <3>2 DEF list, f
  <2> QED BY <1>2, <2>2
<1>5. /\ \A q \in Proc \ {p} : pc'[q] = pc[q] /\ va'[q] = va[q] /\ kpage'[q] = kpage[q]
      /\ pc[p] = "add" => pc'[p] = "user"
      /\ pc[p] = "grow" => pc'[p] = "grow_install" /\ va'[p] = va[p] /\ kpage'[p] = kpage[p]
  <2>1. pc \in [Proc -> Label] /\ va \in [Proc -> Page \cup {NULL}]
        /\ kpage \in [Proc -> Frame \cup {NULL}]
    BY <1>1 DEF TypeOK
  <2>2. CASE pc[p] = "add"
    <3>1. /\ pc' = [pc EXCEPT ![p] = "user"] /\ va' = [va EXCEPT ![p] = NULL]
          /\ kpage' = [kpage EXCEPT ![p] = NULL]
      BY <2>2 DEF add_page_to_list_LRU, Goto, Forget
    <3> QED BY <2>1, <2>2, <3>1
  <2>3. CASE pc[p] = "grow"
    <3>1. pc' = [pc EXCEPT ![p] = "grow_install"] /\ va' = va /\ kpage' = kpage
      BY <2>3 DEF add_page_to_list_LRU, Goto
    <3> QED BY <2>1, <2>3, <3>1
  <2> QED BY <1>2, <2>2, <2>3
<1>6. ASSUME NEW f \in Frame PROVE FrameOwned(f)' /\ FrameListed(f)'
  <2>1. FrameOwned(f) /\ FrameListed(f)
    BY DEF PagingInv, FrameInv
  <2>2. ASSUME page[f] \in Proc \X Page, pc[page[f][1]] \in Transit
        PROVE  /\ pc'[page[f][1]] \in Transit /\ kpage'[page[f][1]] = kpage[page[f][1]]
               /\ pc[page[f][1]] = "grow_install" => pc'[page[f][1]] = "grow_install"
    <3>1. page[f][1] \in Proc
      BY SMTT(20), <2>2
    <3>2. CASE page[f][1] = p
      BY <1>2, <1>5, <2>2, <3>2 DEF Transit
    <3>3. CASE page[f][1] # p
      BY <1>5, <2>2, <3>1, <3>3
    <3> QED BY <3>2, <3>3
  <2>3. FrameOwned(f)'
    BY <1>2, <2>1, <2>2 DEF FrameOwned
  <2>4. CASE f = kpage[p]
    <3>1. page[f] \in Proc \X Page /\ page[f][1] = p /\ page[f][2] = va[p]
      BY SMTT(20), <1>3, <2>4
    <3>2. pc[p] = "add" => pagedir[p][va[p]] = f
      BY <1>1, <2>4 DEF ProcInv
    <3> QED BY <1>2, <1>5, <2>3, <2>4, <3>1, <3>2 DEF FrameListed
  <2>5. CASE f # kpage[p]
    <3>1. FrameListed(f)'
      BY <1>2, <1>4, <2>1, <2>2, <2>5 DEF FrameListed, Transit
    <3> QED BY <2>3, <3>1
  <2> QED BY <2>4, <2>5
<1>7. ASSUME NEW q \in Proc \ {p} PROVE ProcInv(q)'
  <2>1. ProcInv(q) /\ pc[q] \notin Evicting
    BY <1>2, OneEvicts DEF PagingInv, FrameInv
  <2>2. pc'[q] = pc[q] /\ va'[q] = va[q] /\ kpage'[q] = kpage[q] /\ victim'[q] = victim[q]
    BY <1>2, <1>5
  <2>3. pc[q] = "load" => type'[q][va[q]] # "none"
    BY <1>2, <2>1 DEF ProcInv
  <2>4. pc[q] \in Transit \cup {"add"} =>
          kpage[q] \in used /\ page[kpage[q]] = <<q, va[q]>>
    BY <2>1 DEF ProcInv
  <2>5. pc[q] \in Transit \cup {"add"} => kpage[q] # kpage[p]
    BY SMTT(20), <1>3, <2>4
  <2>6. pc[q] \in Transit \cup {"add"} =>
          /\ kpage[q] \in used' /\ page'[kpage[q]] = page[kpage[q]]
          /\ kpage[q] \in Elements(list_LRU') <=> kpage[q] \in Elements(list_LRU)
    BY <1>2, <1>4, <2>4, <2>5
  <2> QED BY <1>2, <2>1, <2>2, <2>3, <2>6, ProcKept
<1>8. ProcInv(p)'
  <2>1. CASE pc[p] = "add"
    BY <1>5, <2>1 DEF ProcInv, Transit, Faulting
  <2>2. CASE pc[p] = "grow"
    <3>1. pagedir[p][va[p]] = NULL
      BY <1>1, <2>2 DEF ProcInv, Faulting, Transit
    <3>2. /\ pc'[p] = "grow_install"
          /\ va'[p] \in Page /\ pagedir'[p][va'[p]] = NULL /\ kpage'[p] \in used'
          /\ page'[kpage'[p]] = <<p, va'[p]>> /\ kpage'[p] \in Elements(list_LRU')
      BY <1>2, <1>3, <1>4, <1>5, <2>2, <3>1
    <3> QED BY <3>2 DEF ProcInv
  <2> QED BY <1>2, <2>1, <2>2
<1>9. ASSUME NEW q \in Proc, NEW v \in Page PROVE PageMapped(q, v)'
  <2>1. PageMapped(q, v) /\ pagedir'[q][v] = pagedir[q][v]
    BY <1>2 DEF PagingInv, FrameInv
  <2>2. ASSUME pagedir[q][v] # NULL
        PROVE  pagedir[q][v] \in Elements(list_LRU') \/ (pc'[q] = "add" /\ va'[q] = v)
    <3>1. CASE q = p /\ pc[p] = "add" /\ va[p] = v
      <4>1. pagedir[p][va[p]] = kpage[p]
        BY <1>1, <3>1 DEF ProcInv
      <4> QED BY <1>4, <3>1, <4>1
    <3>2. CASE ~ (q = p /\ pc[p] = "add" /\ va[p] = v)
      <4>1. pagedir[q][v] \in Elements(list_LRU) \/ (pc[q] = "add" /\ va[q] = v)
        BY <2>1, <2>2 DEF PageMapped
      <4> QED BY <1>4, <1>5, <3>2, <4>1
    <3> QED BY <3>1, <3>2
  <2> QED BY <1>2, <2>1, <2>2 DEF PageMapped
<1> QED BY <1>4, <1>6, <1>7, <1>8, <1>9 DEF FrameInv

\* A step that touches none of the variables of FrameInv.
LEMMA FrameUnchanged ==
  ASSUME PagingInv,
         UNCHANGED <<used, page, list_LRU, LRU_holder, pagedir, type, pc, va, kpage, victim>>
  PROVE  FrameInv'
<1>1. \A f \in Frame : FrameOwned(f)' /\ FrameListed(f)'
  BY DEF PagingInv, FrameInv, FrameOwned, FrameListed
<1>2. ASSUME NEW p \in Proc PROVE ProcInv(p)'
  <2>1. ProcInv(p)
    BY DEF PagingInv, FrameInv
  <2>2. HalfBuilt(victim[p])' = HalfBuilt(victim[p])
    BY DEF HalfBuilt
  <2> QED BY <2>1, <2>2 DEF ProcInv
<1>3. \A p \in Proc, v \in Page : PageMapped(p, v)'
  BY DEF PagingInv, FrameInv, PageMapped
<1>4. NoDuplicates(list_LRU)'
  BY DEF PagingInv, FrameInv, NoDuplicates
<1> QED BY <1>1, <1>2, <1>3, <1>4 DEF FrameInv

\* Rest() and the process that moved make up the invariant.
LEMMA RestAndMover ==
  ASSUME NEW p \in Proc, Rest(p)', ProcInv(p)'
  PROVE  FrameInv'
  BY DEF Rest, FrameInv

\* What an assignment to the locals of P does to those of the others.
LEMMA GotoMoves ==
  ASSUME TypeOK, NEW p \in Proc, NEW label, pc' = [pc EXCEPT ![p] = label],
         \A q \in Proc \ {p} : va'[q] = va[q] /\ kpage'[q] = kpage[q] /\ victim'[q] = victim[q]
  PROVE  Moves(p, label)
<1>1. pc \in [Proc -> Label]
  BY DEF TypeOK
<1> QED BY <1>1 DEF Moves

\* Every step accounts for every frame.
LEMMA FrameStep ==
  ASSUME PagingInv, [Next]_vars, ~ dangling'
  PROVE  FrameInv'
<1> USE DEF Goto, At, vars, frameVars, lruVars, tableVars, swapVars, localVars
<1>1. TypeOK /\ NULL \notin Frame \cup Proc
  BY PagesAssumption DEF PagingInv
<1>2. CASE UNCHANGED vars
  BY <1>2, FrameUnchanged
<1>3. ASSUME Panic PROVE FrameInv'
  BY <1>3, FrameUnchanged DEF Panic
<1>4. ASSUME NEW p \in Proc, NEW v \in Page, read(p, v) PROVE FrameInv'
  BY <1>4, FrameUnchanged DEF read
<1>5. ASSUME NEW p \in Proc, NEW v \in Page, NEW x \in Value, write(p, v, x) PROVE FrameInv'
  BY <1>5, FrameUnchanged DEF write
<1>6. va \in [Proc -> Page \cup {NULL}] /\ kpage \in [Proc -> Frame \cup {NULL}]
      /\ victim \in [Proc -> Frame \cup {NULL}]
  BY <1>1 DEF TypeOK
<1>7. \A p \in Proc : ProcInv(p) /\ \A v \in Page : PageMapped(p, v)
  BY DEF PagingInv, FrameInv
<1>8. ASSUME NEW p \in Proc, start_process(p) PROVE FrameInv'
  <2>1. /\ pc[p] = "start" /\ va' = [va EXCEPT ![p] = StackTop]
        /\ pc' = [pc EXCEPT ![p] = "alloc"]
        /\ type' = [type EXCEPT ![p] = [v \in Page |-> IF v \in BinPage THEN "VM_BIN" ELSE "none"]]
        /\ UNCHANGED <<used, page, list_LRU, pagedir, LRU_holder, kpage, victim>>
    BY <1>8 DEF start_process
  <2>2. Moves(p, "alloc") /\ va'[p] = StackTop
    BY <1>1, <1>6, <2>1, GotoMoves
  <2>3. \A v \in Page : pagedir[p][v] = NULL
    BY <1>7, <2>1 DEF ProcInv
  <2>4. /\ \A q \in Proc \ {p} : type'[q] = type[q]
        /\ \A v \in Page : type'[p][v] = "VM_BIN" => v \in BinPage
    <3>1. type \in [Proc -> [Page -> {"none", "VM_BIN", "VM_ANON"}]]
      BY <1>1 DEF TypeOK
    <3>2. type'[p] = [v \in Page |-> IF v \in BinPage THEN "VM_BIN" ELSE "none"]
      BY <2>1, <3>1
    <3> QED BY <2>1, <3>1, <3>2
  <2>5. Rest(p)'
    BY <2>1, <2>2, <2>3, <2>4, Still DEF Transit
  <2>6. ProcInv(p)'
    <3>1. pc'[p] = "alloc" /\ va'[p] \in Page /\ pagedir'[p][va'[p]] = NULL
      BY <2>1, <2>2, <2>3 DEF Moves, Page
    <3> QED BY <3>1 DEF ProcInv, Transit
  <2> QED BY <2>5, <2>6, RestAndMover
<1>9. ASSUME NEW p \in Proc, exit(p) PROVE FrameInv'
  <2>1. /\ pc[p] = "user" /\ pc' = [pc EXCEPT ![p] = "exit"]
        /\ UNCHANGED <<used, page, list_LRU, pagedir, type, LRU_holder, va, kpage, victim>>
    BY <1>9 DEF exit
  <2>2. Moves(p, "exit")
    BY <1>1, <2>1, GotoMoves
  <2>3. Rest(p)'
    BY <2>1, <2>2, StillTyped DEF Transit
  <2>4. ProcInv(p)'
    BY <2>2 DEF Moves, ProcInv, Transit, Faulting
  <2> QED BY <2>3, <2>4, RestAndMover
<1>10. ASSUME NEW p \in Proc, NEW v \in Page, page_fault(p, v) PROVE FrameInv'
  <2>1. /\ pc[p] = "user" /\ pagedir[p][v] = NULL /\ pc' = [pc EXCEPT ![p] = "alloc"]
        /\ va' = [va EXCEPT ![p] = v]
        /\ UNCHANGED <<used, page, list_LRU, pagedir, type, LRU_holder, kpage, victim>>
    BY <1>10 DEF page_fault
  <2>2. Moves(p, "alloc") /\ va'[p] = v
    BY <1>1, <1>6, <2>1, GotoMoves
  <2>3. Rest(p)'
    BY <2>1, <2>2, StillTyped DEF Transit
  <2>4. ProcInv(p)'
    BY <2>1, <2>2 DEF Moves, ProcInv, Transit, Faulting
  <2> QED BY <2>3, <2>4, RestAndMover
<1>11. ASSUME NEW p \in Proc, alloc_page(p) PROVE FrameInv'
  <2>1. pc[p] = "alloc" /\ UNCHANGED <<list_LRU, LRU_holder, pagedir, type, va, victim>>
    BY <1>11 DEF alloc_page
  <2>2. CASE used = Frame
    <3>1. pc' = [pc EXCEPT ![p] = "evict"] /\ UNCHANGED <<used, page, kpage>>
      BY <1>11, <2>2 DEF alloc_page
    <3>2. Moves(p, "evict")
      BY <1>1, <2>1, <3>1, GotoMoves
    <3>3. Rest(p)'
      BY <2>1, <3>1, <3>2, StillTyped DEF Transit
    <3>4. ProcInv(p)'
      <4>1. va[p] \in Page /\ pagedir[p][va[p]] = NULL
        BY <1>7, <2>1 DEF ProcInv, Faulting
      <4>2. pc'[p] = "evict" /\ va'[p] \in Page /\ pagedir'[p][va'[p]] = NULL
        BY <2>1, <3>2, <4>1 DEF Moves
      <4> QED BY <4>2 DEF ProcInv, Transit
    <3> QED BY <3>3, <3>4, RestAndMover
  <2>3. CASE used # Frame
    <3> DEFINE f == Min(Frame \ used)
               label == IF type[p][va[p]] = "none" THEN "grow" ELSE "load"
    <3>1. f \in Frame \ used
      <4>1. Frame \ used \subseteq Nat /\ Frame \ used # {}
        BY <1>1, <2>3, PagesAssumption DEF TypeOK
      <4> QED BY <4>1, MinIn
    <3>2. /\ used' = used \cup {f} /\ page' = [page EXCEPT ![f] = <<p, va[p]>>]
          /\ kpage' = [kpage EXCEPT ![p] = f] /\ pc' = [pc EXCEPT ![p] = label]
      BY <1>11, <2>3 DEF alloc_page
    <3> HIDE DEF f
    <3>3. label \in {"load", "grow"} /\ (label = "load" => type[p][va[p]] # "none")
      OBVIOUS
    <3> HIDE DEF label
    <3>4. Moves(p, label) /\ kpage'[p] = f
      BY <1>1, <1>6, <2>1, <3>2, GotoMoves
    <3> QED BY <2>1, <3>1, <3>2, <3>3, <3>4, AllocStep
  <2> QED BY <2>2, <2>3
<1>12. ASSUME NEW p \in Proc, handle_mm_fault(p), ~ Panic PROVE FrameInv'
  <2>1. /\ pc[p] = "load" /\ pc' = [pc EXCEPT ![p] = "add"]
        /\ pagedir' = [pagedir EXCEPT ![p][va[p]] = kpage[p]]
        /\ UNCHANGED <<used, page, list_LRU, LRU_holder, type, va, kpage, victim>>
    BY <1>12 DEF handle_mm_fault, install_page
  <2>2. Moves(p, "add")
    BY <1>1, <2>1, GotoMoves
  <2>3. /\ type[p][va[p]] # "none" /\ va[p] \in Page /\ kpage[p] \in used
        /\ page[kpage[p]] = <<p, va[p]>> /\ kpage[p] \notin Elements(list_LRU)
    <3>1. ProcInv(p) /\ pc[p] \in Transit
      BY <1>7, <2>1 DEF Transit
    <3> QED BY <2>1, <3>1 DEF ProcInv
  <2>4. Rest(p)'
    BY <2>1, <2>2, <2>3, MapStep
  <2>5. ProcInv(p)'
    <3>1. pagedir'[p][va[p]] = kpage[p]
      <4>1. pagedir \in [Proc -> [Page -> Frame \cup {NULL}]]
        BY <1>1 DEF TypeOK
      <4> QED BY <2>1, <2>3, <4>1
    <3>2. /\ pc'[p] = "add" /\ va'[p] \in Page /\ kpage'[p] \in used'
          /\ page'[kpage'[p]] = <<p, va'[p]>> /\ pagedir'[p][va'[p]] = kpage'[p]
          /\ kpage'[p] \notin Elements(list_LRU')
      BY <2>1, <2>2, <2>3, <3>1 DEF Moves
    <3> QED BY <3>2 DEF ProcInv, Faulting, Transit
  <2> QED BY <2>4, <2>5, RestAndMover
<1>13. ASSUME NEW p \in Proc, stack_install(p) PROVE FrameInv'
  <2>1. /\ pc[p] = "grow_install" /\ pc' = [pc EXCEPT ![p] = "grow_entry"]
        /\ pagedir' = [pagedir EXCEPT ![p][va[p]] = kpage[p]]
        /\ type' = [type EXCEPT ![p][va[p]] = "VM_ANON"]
        /\ UNCHANGED <<used, page, list_LRU, LRU_holder, va, kpage, victim>>
    BY <1>13 DEF stack_install, install_page
  <2>2. Moves(p, "grow_entry")
    BY <1>1, <2>1, GotoMoves
  <2>3. va[p] \in Page
    BY <1>7, <2>1 DEF ProcInv, Transit
  <2>4. /\ \A q \in Proc \ {p} : type'[q] = type[q]
        /\ type'[p][va[p]] = "VM_ANON"
        /\ \A v \in Page \ {va[p]} : type'[p][v] = type[p][v]
    <3>1. type \in [Proc -> [Page -> {"none", "VM_BIN", "VM_ANON"}]]
      BY <1>1 DEF TypeOK
    <3> QED BY <2>1, <2>3, <3>1
  <2>5. Rest(p)'
    BY <2>1, <2>2, <2>4, MapStep
  <2>6. ProcInv(p)'
    BY <2>2 DEF Moves, ProcInv, Transit, Faulting
  <2> QED BY <2>5, <2>6, RestAndMover
<1>21. ASSUME NEW p \in Proc, stack_grow(p) PROVE FrameInv'
  <2>1. /\ pc[p] = "grow_entry" /\ pc' = [pc EXCEPT ![p] = "user"]
        /\ va' = [va EXCEPT ![p] = NULL] /\ kpage' = [kpage EXCEPT ![p] = NULL]
        /\ UNCHANGED <<used, page, list_LRU, LRU_holder, pagedir, type, victim>>
    BY <1>21 DEF stack_grow, Forget
  <2>2. Moves(p, "user")
    BY <1>1, <1>6, <2>1, GotoMoves
  <2>3. Rest(p)'
    BY <2>1, <2>2, StillTyped DEF Transit
  <2>4. ProcInv(p)'
    BY <2>2 DEF Moves, ProcInv, Transit, Faulting
  <2> QED BY <2>3, <2>4, RestAndMover
<1>14. ASSUME NEW p \in Proc, get_victim(p), ~ Panic PROVE FrameInv'
  <2>0. PICK f \in Elements(list_LRU) : Evicts(p, f)
    BY <1>1, <1>14, VictimChosen
  <2> DEFINE label == IF MustSwapOut(page[f][1], page[f][2])
                      THEN "evict_out" ELSE "evict_free"
  <2>1. /\ pc[p] = "evict" /\ LRU_holder = NULL /\ list_LRU # <<>> /\ ~ HalfBuilt(f)
        /\ pc' = [pc EXCEPT ![p] = label] /\ victim' = [victim EXCEPT ![p] = f]
        /\ LRU_holder' = p
        /\ UNCHANGED <<used, page, list_LRU, pagedir, type, va, kpage>>
    BY <2>0 DEF Evicts
  <2>2. label \in {"evict_out", "evict_free"}
    OBVIOUS
  <2> HIDE DEF label
  <2>3. Moves(p, label) /\ victim'[p] = f
    BY <1>1, <1>6, <2>1, GotoMoves
  <2>4. Rest(p)'
    BY <2>1, <2>2, <2>3, StillTyped DEF Transit
  <2>5. ProcInv(p)'
    <3>1. va[p] \in Page /\ pagedir[p][va[p]] = NULL
      BY <1>7, <2>1 DEF ProcInv, Faulting
    <3>2. f \in Elements(list_LRU)
      BY <2>0
    <3>3. HalfBuilt(victim[p])' => HalfBuilt(f)
      <4>1. pc'[p] # "grow_install" /\ \A q \in Proc \ {p} : pc'[q] = pc[q]
        BY <2>2, <2>3 DEF Moves
      <4> QED BY <2>1, <2>3, <4>1 DEF HalfBuilt
    <3>4. /\ pc'[p] \in {"evict_out", "evict_free"} /\ va'[p] \in Page
          /\ pagedir'[p][va'[p]] = NULL /\ LRU_holder' = p /\ victim'[p] \in Elements(list_LRU')
          /\ ~ HalfBuilt(victim[p])'
      BY <2>1, <2>2, <2>3, <3>1, <3>2, <3>3 DEF Moves
    <3> QED BY <3>4 DEF ProcInv, Transit
  <2> QED BY <2>4, <2>5, RestAndMover
<1>15. ASSUME NEW p \in Proc, swap_out(p), ~ Panic PROVE FrameInv'
  <2>1. /\ pc[p] = "evict_out" /\ pc' = [pc EXCEPT ![p] = "evict_free"]
        /\ UNCHANGED <<used, page, list_LRU, LRU_holder, pagedir, type, va, kpage, victim>>
    BY <1>15 DEF swap_out
  <2>2. Moves(p, "evict_free")
    BY <1>1, <2>1, GotoMoves
  <2>3. Rest(p)'
    BY <2>1, <2>2, StillTyped DEF Transit
  <2>4. ProcInv(p)'
    <3>1. /\ va[p] \in Page /\ pagedir[p][va[p]] = NULL /\ LRU_holder = p
          /\ victim[p] \in Elements(list_LRU) /\ ~ HalfBuilt(victim[p])
      BY <1>7, <2>1 DEF ProcInv, Faulting
    <3>2. HalfBuilt(victim[p])' => HalfBuilt(victim[p])
      BY <2>1, <2>2 DEF HalfBuilt, Moves
    <3>3. /\ pc'[p] = "evict_free" /\ va'[p] \in Page /\ pagedir'[p][va'[p]] = NULL
          /\ LRU_holder' = p /\ victim'[p] \in Elements(list_LRU') /\ ~ HalfBuilt(victim[p])'
      BY <2>1, <2>2, <3>1, <3>2 DEF Moves
    <3> QED BY <3>3 DEF ProcInv, Transit
  <2> QED BY <2>3, <2>4, RestAndMover
<1>16. ASSUME NEW p \in Proc, replacement_mem(p) PROVE FrameInv'
  <2> DEFINE f == victim[p]
             o == page[f][1]
             u == page[f][2]
             y == IF slot[p] = NULL THEN type[o][u] ELSE "VM_ANON"
  <2>1. /\ pc[p] = "evict_free" /\ __free_page(f) /\ pc' = [pc EXCEPT ![p] = "alloc"]
        /\ victim' = [victim EXCEPT ![p] = NULL]
        /\ UNCHANGED <<va, kpage>>
    BY <1>16 DEF replacement_mem
  <2>2. type' = [type EXCEPT ![o][u] = y]
    BY <1>16 DEF replacement_mem
  <2>3. /\ va[p] \in Page /\ pagedir[p][va[p]] = NULL /\ LRU_holder = p
        /\ f \in Elements(list_LRU) /\ ~ HalfBuilt(f)
    BY <1>7, <2>1 DEF ProcInv, Faulting
  <2>4. Moves(p, "alloc")
    BY <1>1, <1>6, <2>1, GotoMoves
  <2>5. ASSUME NEW q \in Proc, NEW v \in Page
        PROVE  \/ type'[q][v] = type[q][v]
               \/ type'[q][v] = "VM_ANON"
               \/ q = p /\ type'[q][v] = "none" /\ pagedir[q][v] \in {NULL, f}
    <3>1. type \in [Proc -> [Page -> {"none", "VM_BIN", "VM_ANON"}]]
      BY <1>1 DEF TypeOK
    <3> HIDE DEF o, u
    <3> QED BY SMTT(20), <2>2, <3>1
  <2> HIDE DEF f
  <2>6. Rest(p)' /\ \A v \in Page : pagedir'[p][v] \in {NULL, pagedir[p][v]}
    <3>1. pc[p] \notin Transit \cup {"add"} /\ "alloc" \notin Transit \cup {"add"}
      BY <2>1 DEF Transit
    <3> QED BY <2>1, <2>3, <2>4, <2>5, <3>1, FreeStep
  <2>7. ProcInv(p)'
    <3>1. pc'[p] = "alloc" /\ va'[p] \in Page /\ pagedir'[p][va'[p]] = NULL
      BY <2>1, <2>3, <2>4, <2>6 DEF Moves
    <3> QED BY <3>1 DEF ProcInv, Transit
  <2> QED BY <2>6, <2>7, RestAndMover
<1>17. ASSUME NEW p \in Proc, swap_clear(p) PROVE FrameInv'
  <2>1. /\ pc[p] = "exit" /\ pc' = [pc EXCEPT ![p] = "exit_vaddr"]
        /\ UNCHANGED <<used, page, list_LRU, LRU_holder, pagedir, type, kpage, victim>>
    BY <1>17 DEF swap_clear
  <2>2. PICK v \in Page : va' = [va EXCEPT ![p] = v]
    BY <1>17 DEF swap_clear
  <2>3. Moves(p, "exit_vaddr") /\ va'[p] = v
    BY <1>1, <1>6, <2>1, <2>2, GotoMoves
  <2>4. Rest(p)'
    BY <2>1, <2>3, StillTyped DEF Transit
  <2>5. ProcInv(p)'
    <3>1. pc'[p] = "exit_vaddr" /\ va'[p] \in Page
      BY <2>3 DEF Moves
    <3> QED BY <3>1 DEF ProcInv, Transit, Faulting
  <2> QED BY <2>4, <2>5, RestAndMover
<1>18. ASSUME NEW p \in Proc, free_page_vaddr(p) PROVE FrameInv'
  <2>1. /\ pc[p] = "exit_vaddr" /\ pc' = [pc EXCEPT ![p] = "exit_free"]
        /\ kpage' = [kpage EXCEPT ![p] = pagedir[p][va[p]]]
        /\ UNCHANGED <<used, page, list_LRU, LRU_holder, pagedir, type, va, victim>>
    BY <1>18 DEF free_page_vaddr
  <2>2. Moves(p, "exit_free") /\ kpage'[p] = pagedir[p][va[p]] /\ va[p] \in Page
    <3>1. va[p] \in Page
      BY <1>7, <2>1 DEF ProcInv
    <3> QED BY <1>1, <1>6, <2>1, <3>1, GotoMoves
  <2>3. Rest(p)'
    BY <2>1, <2>2, StillTyped DEF Transit
  <2>4. ProcInv(p)'
    <3>1. pc'[p] = "exit_free" /\ va'[p] \in Page /\ pagedir'[p][va'[p]] = kpage'[p]
      BY <2>1, <2>2 DEF Moves
    <3> QED BY <3>1 DEF ProcInv, Transit, Faulting
  <2> QED BY <2>3, <2>4, RestAndMover
<1>19. ASSUME NEW p \in Proc, free_page_kaddr(p), ~ Panic PROVE FrameInv'
  <2>1. /\ pc[p] = "exit_free" /\ LRU_holder = NULL /\ ~ (kpage[p] # NULL /\ HalfBuilt(kpage[p]))
        /\ pc' = [pc EXCEPT ![p] = "exit"] /\ type' = [type EXCEPT ![p][va[p]] = "none"]
        /\ va' = [va EXCEPT ![p] = NULL] /\ kpage' = [kpage EXCEPT ![p] = NULL]
        /\ UNCHANGED <<LRU_holder, victim>>
    BY <1>19 DEF free_page_kaddr, Forget
  <2>2. va[p] \in Page /\ pagedir[p][va[p]] \in {NULL, kpage[p]}
    BY <1>7, <2>1 DEF ProcInv
  <2>3. Moves(p, "exit")
    BY <1>1, <1>6, <2>1, GotoMoves
  <2>4. /\ \A q \in Proc \ {p} : type'[q] = type[q]
        /\ type'[p][va[p]] = "none"
        /\ \A v \in Page \ {va[p]} : type'[p][v] = type[p][v]
    <3>1. type \in [Proc -> [Page -> {"none", "VM_BIN", "VM_ANON"}]]
      BY <1>1 DEF TypeOK
    <3> QED BY <2>1, <2>2, <3>1
  <2>5. pc[p] \notin Transit \cup {"add"} /\ "exit" \notin Transit \cup {"add"}
    BY <2>1 DEF Transit
  <2>6. Rest(p)'
    <3>1. CASE kpage[p] \in Elements(list_LRU)
      <4> DEFINE f == kpage[p]
      <4>1. f \in Elements(list_LRU) /\ __free_page(f)
        BY <1>19, <3>1 DEF free_page_kaddr
      <4>2. f \in Frame
        BY <1>1, <3>1, EmptyElements DEF TypeOK
      <4>3. ~ HalfBuilt(f)
        BY <1>1, <2>1, <4>2
      <4>4. ASSUME NEW q \in Proc, NEW v \in Page
            PROVE  \/ type'[q][v] = type[q][v]
                   \/ type'[q][v] = "VM_ANON"
                   \/ q = p /\ type'[q][v] = "none" /\ pagedir[q][v] \in {NULL, f}
        <5>1. CASE q = p /\ v = va[p]
          BY <2>2, <2>4, <5>1
        <5>2. CASE ~ (q = p /\ v = va[p])
          BY <2>4, <5>2
        <5> QED BY <5>1, <5>2
      <4> HIDE DEF f
      <4> QED BY <2>1, <2>3, <2>5, <4>1, <4>3, <4>4, FreeStep
    <3>2. CASE kpage[p] \notin Elements(list_LRU)
      <4>1. UNCHANGED <<used, page, list_LRU, pagedir>>
        BY <1>19, <3>2 DEF free_page_kaddr
      <4>2. pagedir[p][va[p]] = NULL
        <5>1. PageMapped(p, va[p]) /\ pc[p] # "add"
          BY <1>7, <2>1, <2>2
        <5> QED BY <2>2, <3>2, <5>1 DEF PageMapped
      <4>3. ASSUME NEW v \in Page
            PROVE  /\ type'[p][v] = "none" => pagedir[p][v] = NULL
                   /\ type'[p][v] = "VM_BIN" => v \in BinPage
        <5>1. PageMapped(p, v)
          BY <1>7
        <5>2. CASE v = va[p]
          BY <2>4, <4>2, <5>2
        <5>3. CASE v # va[p]
          BY <2>4, <5>1, <5>3 DEF PageMapped
        <5> QED BY <5>2, <5>3
      <4> QED BY <2>1, <2>3, <2>4, <2>5, <4>1, <4>3, Still
    <3> QED BY <3>1, <3>2
  <2>7. ProcInv(p)'
    BY <2>3 DEF Moves, ProcInv, Transit, Faulting
  <2> QED BY <2>6, <2>7, RestAndMover
<1>20. ASSUME NEW p \in Proc, pagedir_destroy(p) PROVE FrameInv'
  <2> DEFINE left == {pagedir[p][v] : v \in Page} \ {NULL}
             none == [v \in Page |-> NULL]
  <2>1. /\ pc[p] = "exit" /\ pc' = [pc EXCEPT ![p] = "start"]
        /\ used' = used \ left /\ pagedir' = [pagedir EXCEPT ![p] = none]
        /\ UNCHANGED <<page, list_LRU, LRU_holder, type, va, kpage, victim>>
    BY <1>20 DEF pagedir_destroy
  <2>2. ASSUME NEW v \in Page PROVE pagedir[p][v] = NULL
    <3>1. type[p][v] = "none" /\ PageMapped(p, v)
      BY <1>7, <1>20 DEF pagedir_destroy
    <3> QED BY <3>1 DEF PageMapped
  <2>3. used' = used
    <3>1. left = {}
      BY <2>2
    <3> QED BY <2>1, <3>1
  <2>4. pagedir' = pagedir
    <3>1. pagedir \in [Proc -> [Page -> Frame \cup {NULL}]]
      BY <1>1 DEF TypeOK
    <3>2. pagedir[p] = none
      BY <2>2, <3>1
    <3> HIDE DEF none
    <3> QED BY <2>1, <3>1, <3>2
  <2>5. Moves(p, "start")
    BY <1>1, <2>1, GotoMoves
  <2>6. Rest(p)'
    BY <2>1, <2>3, <2>4, <2>5, StillTyped DEF Transit
  <2>7. ProcInv(p)'
    <3>1. pc'[p] = "start" /\ \A v \in Page : pagedir'[p][v] = NULL
      BY <2>2, <2>4, <2>5 DEF Moves
    <3> QED BY <3>1 DEF ProcInv, Transit, Faulting
  <2> QED BY <2>6, <2>7, RestAndMover
<1> QED
  <2>1. ASSUME NEW p \in Proc, Kernel(p) PROVE FrameInv'
    BY <2>1, <1>3, <1>11, <1>12, <1>13, <1>14, <1>15, <1>16, <1>17, <1>18, <1>19, <1>20, <1>21,
       AddStep DEF Kernel
  <2>2. ASSUME NEW p \in Proc, User(p) PROVE FrameInv'
    BY <2>2, <1>3, <1>4, <1>5, <1>8, <1>9, <1>10 DEF User, load_fails
  <2> QED BY <1>2, <2>1, <2>2 DEF Next, Halted

\* The invariant holds before the first program starts.
LEMMA PagingInit ==
  ASSUME Init
  PROVE  PagingInv
<1>1. used = {} /\ list_LRU = <<>> /\ LRU_clock = NULL /\ LRU_holder = NULL
      /\ panicked = FALSE /\ dangling = FALSE
  BY DEF Init
<1>2. list_LRU \in Seq(Frame) /\ Elements(list_LRU) = {} /\ NoDuplicates(list_LRU)
  BY <1>1, EmptyElements, EmptyList
<1>3. \A p \in Proc : pc[p] = "start" /\ \A v \in Page : pagedir[p][v] = NULL
  BY DEF Init
<1>4. TypeOK
  BY <1>1, <1>2 DEF Init, TypeOK, Label
<1>5. \A f \in Frame : FrameOwned(f) /\ FrameListed(f)
  BY <1>1, <1>2 DEF FrameOwned, FrameListed
<1>6. ASSUME NEW p \in Proc PROVE ProcInv(p)
  BY <1>3 DEF ProcInv, Faulting, Transit
<1>7. ASSUME NEW p \in Proc, NEW v \in Page PROVE PageMapped(p, v)
  <2>1. pagedir[p][v] = NULL /\ type[p][v] = "none"
    BY DEF Init
  <2> QED BY <2>1 DEF PageMapped
<1> QED BY <1>2, <1>4, <1>5, <1>6, <1>7 DEF PagingInv, FrameInv

\* What the invariant says of frames, lists and page tables.
LEMMA Accounted ==
  ASSUME PagingInv
  PROVE  FramesAccounted
<1>1. TypeOK /\ NULL \notin Frame
  BY PagesAssumption DEF PagingInv
<1>2. /\ \A p \in Proc : ProcInv(p)
      /\ \A p \in Proc, v \in Page : PageMapped(p, v)
      /\ \A f \in Frame : FrameOwned(f) /\ FrameListed(f)
      /\ NoDuplicates(list_LRU)
  BY DEF PagingInv, FrameInv
<1>3. ASSUME NEW m \in Mapped
      PROVE  /\ m[1] \in Proc /\ m[2] \in Page /\ m = <<m[1], m[2]>>
             /\ pagedir[m[1]][m[2]] \in used /\ page[pagedir[m[1]][m[2]]] = m
  <2>1. m \in Proc \X Page /\ pagedir[m[1]][m[2]] # NULL
    BY DEF Mapped
  <2>2. m[1] \in Proc /\ m[2] \in Page /\ m = <<m[1], m[2]>>
    BY SMTT(20), <2>1
  <2>3. PageMapped(m[1], m[2])
    BY <1>2, <2>2
  <2>4. pagedir[m[1]][m[2]] \in used /\ page[pagedir[m[1]][m[2]]] = <<m[1], m[2]>>
    BY <2>1, <2>3 DEF PageMapped
  <2> QED BY <2>2, <2>4
<1>4. ASSUME NEW p \in Proc, NEW f \in InTransit(p)
      PROVE  /\ f \in used /\ page[f] = <<p, va[p]>> /\ pagedir[p][va[p]] = NULL
  <2>1. pc[p] \in Transit /\ f = kpage[p]
    BY DEF InTransit, Transit
  <2>2. pc[p] \in Faulting /\ ProcInv(p)
    BY <1>2, <2>1 DEF Faulting
  <2> QED BY <2>1, <2>2 DEF ProcInv
<1>5. ASSUME NEW f \in used
      PROVE  f \in {pagedir[m[1]][m[2]] : m \in Mapped} \cup UNION {InTransit(p) : p \in Proc}
  <2>1. f \in Frame
    BY <1>1 DEF TypeOK
  <2>2. FrameOwned(f)
    BY <1>2, <2>1
  <2>3. page[f] \in Proc \X Page
    BY <2>2 DEF FrameOwned
  <2>4. page[f][1] \in Proc
    BY SMTT(20), <2>3
  <2>5. CASE pagedir[page[f][1]][page[f][2]] = f
    <3>1. page[f] \in Mapped
      BY <1>1, <2>1, <2>3, <2>5 DEF Mapped
    <3> QED BY <2>5, <3>1
  <2>6. CASE pc[page[f][1]] \in Transit /\ kpage[page[f][1]] = f
    <3>1. f \in InTransit(page[f][1])
      BY <2>6 DEF InTransit, Transit
    <3> QED BY <2>4, <3>1
  <2> QED BY <2>2, <2>5, <2>6 DEF FrameOwned
<1>6. used = {pagedir[m[1]][m[2]] : m \in Mapped} \cup UNION {InTransit(p) : p \in Proc}
  <2>1. {pagedir[m[1]][m[2]] : m \in Mapped} \subseteq used
    BY <1>3
  <2>2. UNION {InTransit(p) : p \in Proc} \subseteq used
    BY <1>4
  <2> QED BY <1>5, <2>1, <2>2
<1>7. ASSUME NEW m \in Mapped, NEW n \in Mapped, pagedir[m[1]][m[2]] = pagedir[n[1]][n[2]]
      PROVE  m = n
  <2>1. page[pagedir[m[1]][m[2]]] = m
    BY <1>3
  <2>2. page[pagedir[n[1]][n[2]]] = n
    BY <1>3
  <2> QED BY <1>7, <2>1, <2>2
<1>8. ASSUME NEW p \in Proc, NEW m \in Mapped, pagedir[m[1]][m[2]] \in InTransit(p)
      PROVE  FALSE
  <2>1. page[pagedir[m[1]][m[2]]] = m
    BY <1>3
  <2>2. page[pagedir[m[1]][m[2]]] = <<p, va[p]>> /\ pagedir[p][va[p]] = NULL
    BY <1>4, <1>8
  <2>3. m[1] = p /\ m[2] = va[p]
    BY SMTT(20), <2>1, <2>2
  <2> QED BY <2>2, <2>3 DEF Mapped
<1>9. ASSUME NEW f \in Elements(list_LRU), ~ HalfBuilt(f)
      PROVE  page[f] \in Mapped /\ pagedir[page[f][1]][page[f][2]] = f
  <2>1. f \in Frame /\ page[f] \in Proc \X Page /\ pagedir[page[f][1]][page[f][2]] = f
    BY <1>9, ListedNotTaken
  <2> QED BY <1>1, <2>1 DEF Mapped
<1> QED BY <1>2, <1>6, <1>7, <1>8, <1>9 DEF FramesAccounted

\* Sound is inductive.  After a pointer dangles nothing moves any more.
LEMMA SoundInvariant == Spec => []Sound
<1>1. Init => Sound
  BY PagingInit DEF PagingInv, Sound
<1>2. ASSUME Sound, [Next]_vars PROVE Sound'
  <2>1. CASE dangling
    <3>1. UNCHANGED vars
      BY <1>2, <2>1 DEF Next, Halted, Kernel, User, At, alloc_page, handle_mm_fault,
         add_page_to_list_LRU, stack_install, stack_grow, get_victim, swap_out,
         replacement_mem, swap_clear, free_page_vaddr, free_page_kaddr, pagedir_destroy,
         start_process, exit, load_fails, read, page_fault, write
    <3>2. TypeOK' /\ dangling'
      BY <1>2, <2>1, <3>1 DEF Sound, TypeOK, vars, frameVars, lruVars, tableVars, swapVars,
         localVars
    <3> QED BY <3>2 DEF Sound
  <2>2. CASE ~ dangling
    <3>1. PagingInv
      BY <1>2, <2>2 DEF Sound, PagingInv
    <3> QED BY <1>2, <3>1, TypeStep, FrameStep DEF Sound
  <2> QED BY <2>1, <2>2
<1>3. Sound /\ [Next]_vars => Sound'
  BY <1>2
<1> QED BY <1>1, <1>3, PTL DEF Spec

\* Every variable of virtual memory stays in its domain, and LRU_clock never
\* points to a struct page that del_page_from_list_LRU() has taken off the list.
THEOREM PagingTypes == Spec => []TypeOK
<1>1. Sound => TypeOK
  BY DEF Sound
<1> QED BY <1>1, SoundInvariant, PTL

\* No frame of the user pool is shared, leaked, or freed while it is mapped, in
\* whatever order faults, evictions and exits meet at list_LRU_lock, until
\* __free_page() takes a struct page from a process that is filling it in.
THEOREM PagingFrames == Spec => []FramesAccounted
<1>1. Sound => FramesAccounted
  <2>1. CASE dangling
    BY <2>1 DEF FramesAccounted
  <2>2. CASE ~ dangling
    BY <2>2, Accounted DEF Sound, PagingInv
  <2> QED BY <2>1, <2>2
<1> QED BY <1>1, SoundInvariant, PTL

\* One process alone never loses a struct page that it is filling in.
LEMMA NoneDangles ==
  ASSUME NEW p, Proc = {p}
  PROVE  Spec => [](~ dangling)
<1>1. Init => ~ dangling
  BY DEF Init
<1>2. ASSUME ~ dangling, [Next]_vars PROVE ~ dangling'
  <2>1. ASSUME NEW f, __free_page(f), pc[p] # "grow_entry" PROVE ~ dangling'
    BY <2>1 DEF __free_page, Unfinished
  <2>2. CASE UNCHANGED dangling
    BY <1>2, <2>2
  <2>3. CASE replacement_mem(p)
    BY <2>1, <2>3 DEF replacement_mem, At
  <2>4. CASE free_page_kaddr(p)
    <3>1. pc[p] # "grow_entry"
      BY <2>4 DEF free_page_kaddr, At
    <3> QED BY <2>1, <2>2, <2>4, <3>1 DEF free_page_kaddr, Panic
  <2> QED BY <1>2, <2>2, <2>3, <2>4 DEF Next, Halted, Kernel, User, alloc_page,
         handle_mm_fault, add_page_to_list_LRU, stack_install, stack_grow, get_victim,
         swap_out, swap_clear, free_page_vaddr, pagedir_destroy, start_process, exit,
         load_fails, read, page_fault, write, Panic, vars
<1>3. ~ dangling /\ [Next]_vars => ~ dangling'
  BY <1>2
<1> QED BY <1>1, <1>3, PTL DEF Spec

\* So its frames are accounted for throughout.
LEMMA PagingInvariant ==
  ASSUME NEW p, Proc = {p}
  PROVE  Spec => []PagingInv
<1>1. Sound /\ ~ dangling => PagingInv
  BY DEF Sound, PagingInv
<1>2. Spec => [](~ dangling)
  BY NoneDangles
<1> QED BY <1>1, <1>2, SoundInvariant, PTL

-----------------------------------------------------------------------------
(***************************************************************************)
(* With one process at a time paging is transparent: what holds only then  *)
(* because swap_in() leaves the number of the freed slot in the page_entry *)
(* and an eviction works on pages whose owner may run.  SwapInv says where *)
(* the contents of each page are: in the frame it is mapped to, in the     *)
(* executable, or in a slot that is marked and belongs to no other page.   *)
(***************************************************************************)

Running(p) == pc[p] \notin {"start", "exit", "exit_vaddr", "exit_free"}

\* V of P has its only copy in the swap area.
Away(p, v) == type[p][v] = "VM_ANON" /\ pagedir[p][v] = NULL

SwapPage(p, v) ==
  /\ Away(p, v) =>
       /\ swap_slot[p][v] \in swap_bitmap
       /\ swap_slot[p][v] # slot[p]
       /\ disk[swap_slot[p][v]] \in Value
       /\ \A w \in Page : Away(p, w) /\ swap_slot[p][w] = swap_slot[p][v] => w = v
  /\ pagedir[p][v] # NULL =>
       /\ content[pagedir[p][v]] \in Value
       /\ type[p][v] = "VM_BIN" /\ <<p, v>> \notin dirty => content[pagedir[p][v]] = Image[v]
  /\ v \in BinPage => type[p][v] # "none"

PagesInv(p) ==
  /\ \A v \in Page : SwapPage(p, v)
  /\ \A s \in swap_bitmap : s = slot[p] \/ \E v \in Page : Away(p, v) /\ swap_slot[p][v] = s

SwapInv(p) ==
  /\ Running(p) => PagesInv(p)
  /\ slot[p] # NULL =>
       pc[p] = "evict_free" /\ slot[p] \in swap_bitmap /\ disk[slot[p]] = content[victim[p]]
  /\ pc[p] = "evict_free" /\ slot[p] = NULL =>
       ~ MustSwapOut(page[victim[p]][1], page[victim[p]][2])
  /\ pc[p] \in {"grow", "grow_install"} => type[p][va[p]] = "none" /\ content[kpage[p]] = 0
  /\ pc[p] = "start" => swap_bitmap = {}
  /\ pc[p] = "exit" =>
       \A s \in swap_bitmap : \E v \in Page : type[p][v] # "none" /\ swap_slot[p][v] = s
  /\ pc[p] \in {"exit_vaddr", "exit_free"} =>
       \A s \in swap_bitmap :
         \E v \in Page \ {va[p]} : type[p][v] # "none" /\ swap_slot[p][v] = s

Mem == [p \in Proc |-> [v \in Page |-> Sees(p, v)]]

\* A step of Memory or a stutter.
MemStep == [M!Next]_Mem
-----------------------------------------------------------------------------
(***************************************************************************)
(* The mapping.                                                            *)
(***************************************************************************)

\* What P reads at V, by where the page is.
LEMMA SeesWhere ==
  ASSUME NEW p, NEW v
  PROVE  /\ ~ Running(p) => Sees(p, v) = JUNK
         /\ Running(p) /\ pagedir[p][v] # NULL => Sees(p, v) = content[pagedir[p][v]]
         /\ Running(p) /\ pagedir[p][v] = NULL =>
              /\ type[p][v] = "none" => Sees(p, v) = JUNK
              /\ type[p][v] = "VM_BIN" => Sees(p, v) = Image[v]
              /\ type[p][v] = "VM_ANON" /\ swap_slot[p][v] # NULL =>
                   Sees(p, v) = disk[swap_slot[p][v]]
<1>1. ~ Running(p) => Sees(p, v) = JUNK
  BY DEF Sees, Running
<1>2. Running(p) /\ pagedir[p][v] # NULL => Sees(p, v) = content[pagedir[p][v]]
  BY DEF Sees, Running
<1>3. Running(p) /\ pagedir[p][v] = NULL /\ type[p][v] = "none" => Sees(p, v) = JUNK
  BY DEF Sees, Running
<1>4. Running(p) /\ pagedir[p][v] = NULL /\ type[p][v] = "VM_BIN" => Sees(p, v) = Image[v]
  BY DEF Sees, Running
<1>5. Running(p) /\ pagedir[p][v] = NULL /\ type[p][v] = "VM_ANON" /\ swap_slot[p][v] # NULL
        => Sees(p, v) = disk[swap_slot[p][v]]
  BY DEF Sees, Running
<1> QED BY <1>1, <1>2, <1>3, <1>4, <1>5

\* The same after a step.
LEMMA SeesWhereNext ==
  ASSUME NEW p, NEW v
  PROVE  /\ ~ Running(p)' => Sees(p, v)' = JUNK
         /\ Running(p)' /\ pagedir'[p][v] # NULL => Sees(p, v)' = content'[pagedir'[p][v]]
         /\ Running(p)' /\ pagedir'[p][v] = NULL =>
              /\ type'[p][v] = "none" => Sees(p, v)' = JUNK
              /\ type'[p][v] = "VM_BIN" => Sees(p, v)' = Image[v]
              /\ type'[p][v] = "VM_ANON" /\ swap_slot'[p][v] # NULL =>
                   Sees(p, v)' = disk'[swap_slot'[p][v]]
<1>1. ~ Running(p)' => Sees(p, v)' = JUNK
  BY DEF Sees, Running
<1>2. Running(p)' /\ pagedir'[p][v] # NULL => Sees(p, v)' = content'[pagedir'[p][v]]
  BY DEF Sees, Running
<1>3. Running(p)' /\ pagedir'[p][v] = NULL /\ type'[p][v] = "none" => Sees(p, v)' = JUNK
  BY DEF Sees, Running
<1>4. Running(p)' /\ pagedir'[p][v] = NULL /\ type'[p][v] = "VM_BIN" => Sees(p, v)' = Image[v]
  BY DEF Sees, Running
<1>5. Running(p)' /\ pagedir'[p][v] = NULL /\ type'[p][v] = "VM_ANON" /\ swap_slot'[p][v] # NULL
        => Sees(p, v)' = disk'[swap_slot'[p][v]]
  BY DEF Sees, Running
<1> QED BY <1>1, <1>2, <1>3, <1>4, <1>5

\* Each action of Memory, from what it does to the memory of the one process.
LEMMA MapKeep ==
  ASSUME NEW p, Proc = {p}, \A v \in Page : Sees(p, v)' = Sees(p, v)
  PROVE  MemStep
  BY DEF MemStep, Mem

\* ... the executable is loaded ...
LEMMA MapExec ==
  ASSUME NEW p, Proc = {p}, \A v \in Page : Sees(p, v) = JUNK,
         \A v \in Page : Sees(p, v)' = IF v \in BinPage THEN Image[v] ELSE JUNK
  PROVE  MemStep
<1>1. Mem[p] = M!Empty /\ Mem' = [Mem EXCEPT ![p] = M!Loaded]
  BY DEF Mem, M!Empty, M!Loaded
<1>2. M!Exec(p)
  BY <1>1 DEF M!Exec, Mem
<1> QED BY <1>2 DEF MemStep, M!Next

\* ... a page of zeros is added ...
LEMMA MapGrow ==
  ASSUME NEW p, Proc = {p}, NEW u \in Page \ BinPage, Sees(p, u) = JUNK, Sees(p, u)' = 0,
         \A v \in Page \ {u} : Sees(p, v)' = Sees(p, v)
  PROVE  MemStep
<1>1. Mem[p][u] = JUNK /\ Mem' = [Mem EXCEPT ![p][u] = 0]
  BY DEF Mem
<1>2. M!Grow(p, u)
  BY <1>1 DEF M!Grow, Mem
<1> QED BY <1>2 DEF MemStep, M!Next

\* ... the process stores into a page it has ...
LEMMA MapStore ==
  ASSUME NEW p, Proc = {p}, NEW u \in Page, NEW x \in Value, Sees(p, u) # JUNK,
         Sees(p, u)' = x, \A v \in Page \ {u} : Sees(p, v)' = Sees(p, v)
  PROVE  MemStep
<1>1. Mem[p][u] # JUNK /\ Mem' = [Mem EXCEPT ![p][u] = x]
  BY DEF Mem
<1>2. M!Store(p, u, x)
  BY <1>1 DEF M!Store, Mem
<1> QED BY <1>2 DEF MemStep, M!Next

\* ... and it exits.
LEMMA MapExit ==
  ASSUME NEW p, Proc = {p}, \A v \in Page : Sees(p, v)' = JUNK
  PROVE  MemStep
<1>1. Mem' = [Mem EXCEPT ![p] = M!Empty]
  BY DEF Mem, M!Empty
<1>2. M!Exit(p)
  BY <1>1 DEF M!Exit, Mem
<1> QED BY <1>2 DEF MemStep, M!Next
-----------------------------------------------------------------------------
(***************************************************************************)
(* The steps.                                                              *)
(***************************************************************************)

\* What the frames' invariant says of the one process.
LEMMA SoleFacts ==
  ASSUME NEW p, Proc = {p}, PagingInv
  PROVE  /\ p \in Proc /\ ProcInv(p) /\ pc \in [Proc -> Label]
         /\ content \in [Frame -> Value \cup {JUNK}] /\ page \in [Frame -> (Proc \X Page) \cup {NULL}]
         /\ pagedir \in [Proc -> [Page -> Frame \cup {NULL}]]
         /\ type \in [Proc -> [Page -> {"none", "VM_BIN", "VM_ANON"}]]
         /\ swap_slot \in [Proc -> [Page -> Slot \cup {NULL}]]
         /\ swap_bitmap \subseteq Slot /\ disk \in [Slot -> Value \cup {JUNK}]
         /\ va \in [Proc -> Page \cup {NULL}] /\ kpage \in [Proc -> Frame \cup {NULL}]
         /\ victim \in [Proc -> Frame \cup {NULL}] /\ slot \in [Proc -> Slot \cup {NULL}]
         /\ NULL \notin Slot /\ NULL \notin Page /\ NULL \notin Frame /\ JUNK \notin Value
         /\ used \subseteq Frame
  BY PagesAssumption DEF PagingInv, FrameInv, TypeOK

\* A mapped frame is in use and is mapped at one page only.
LEMMA MappedFrames ==
  ASSUME NEW p, Proc = {p}, PagingInv, NEW v \in Page, pagedir[p][v] # NULL
  PROVE  /\ pagedir[p][v] \in used /\ pagedir[p][v] \in Frame /\ type[p][v] # "none"
         /\ \A w \in Page \ {v} : pagedir[p][w] # pagedir[p][v]
         /\ page[pagedir[p][v]] = <<p, v>>
<1>1. \A w \in Page : PageMapped(p, w)
  BY DEF PagingInv, FrameInv
<1>2. \A w \in Page : pagedir[p][w] # NULL => page[pagedir[p][w]] = <<p, w>>
  BY <1>1 DEF PageMapped
<1>3. /\ pagedir[p][v] \in used /\ type[p][v] # "none" /\ page[pagedir[p][v]] = <<p, v>>
  BY <1>1 DEF PageMapped
<1>4. ASSUME NEW w \in Page \ {v}, pagedir[p][w] = pagedir[p][v] PROVE FALSE
  <2>1. <<p, w>> = <<p, v>>
    BY <1>2, <1>3, <1>4
  <2> QED BY <2>1
<1> QED BY <1>3, <1>4, SoleFacts

\* A step that leaves the tables, the swap area and the mapped frames alone.
LEMMA SwapKept ==
  ASSUME NEW p, Proc = {p}, PagesInv(p), Running(p), Running(p)',
         UNCHANGED <<type, pagedir, swap_slot, swap_bitmap, disk, dirty, slot>>,
         \A v \in Page : pagedir[p][v] # NULL => content'[pagedir[p][v]] = content[pagedir[p][v]]
  PROVE  PagesInv(p)' /\ MemStep
<1>1. \A v \in Page : Away(p, v)' <=> Away(p, v)
  BY DEF Away
<1>2. ASSUME NEW v \in Page PROVE SwapPage(p, v)'
  <2>1. SwapPage(p, v)
    BY DEF PagesInv
  <2>2. \A w \in Page : Away(p, w)' /\ swap_slot'[p][w] = swap_slot'[p][v] =>
                          Away(p, w) /\ swap_slot[p][w] = swap_slot[p][v]
    BY <1>1
  <2>3. Away(p, v)' =>
         /\ swap_slot'[p][v] \in swap_bitmap'
         /\ swap_slot'[p][v] # slot'[p]
         /\ disk'[swap_slot'[p][v]] \in Value
         /\ \A w \in Page : Away(p, w)' /\ swap_slot'[p][w] = swap_slot'[p][v] => w = v
    BY <1>1, <2>1, <2>2 DEF SwapPage
  <2>4. /\ pagedir'[p][v] # NULL =>
             /\ content'[pagedir'[p][v]] \in Value
             /\ type'[p][v] = "VM_BIN" /\ <<p, v>> \notin dirty' =>
                  content'[pagedir'[p][v]] = Image[v]
        /\ v \in BinPage => type'[p][v] # "none"
    BY <2>1 DEF SwapPage
  <2> QED BY <2>3, <2>4 DEF SwapPage
<1>3. PagesInv(p)'
  BY <1>1, <1>2 DEF PagesInv
<1>4. \A v \in Page : Sees(p, v)' = Sees(p, v)
  <2> SUFFICES ASSUME NEW v \in Page PROVE Sees(p, v)' = Sees(p, v)
    OBVIOUS
  <2>1. pagedir[p][v] # NULL => content'[pagedir'[p][v]] = content[pagedir[p][v]]
    OBVIOUS
  <2> QED BY <2>1 DEF Sees, Running
<1> QED BY <1>3, <1>4, MapKeep

\* A step that leaves everything else alone too.
LEMMA SwapStill ==
  ASSUME NEW p, Proc = {p}, SwapInv(p),
         UNCHANGED <<type, pagedir, swap_slot, swap_bitmap, disk, dirty, slot, content, page,
                     pc, va, kpage, victim>>
  PROVE  SwapInv(p)' /\ MemStep
<1>1. Running(p)' <=> Running(p)
  BY DEF Running
<1>2. PagesInv(p) => PagesInv(p)'
  BY DEF PagesInv, SwapPage, Away
<1>3. SwapInv(p)'
  BY <1>1, <1>2 DEF SwapInv, MustSwapOut
<1>4. \A v \in Page : Sees(p, v)' = Sees(p, v)
  BY DEF Sees
<1> QED BY <1>3, <1>4, MapKeep


\* load() makes the memory that the executable describes.
LEMMA SwapStart ==
  ASSUME NEW p, Proc = {p}, PagingInv, SwapInv(p), start_process(p)
  PROVE  SwapInv(p)' /\ MemStep
<1> USE DEF frameVars, lruVars, swapVars
<1>1. /\ pc[p] = "start" /\ pc'[p] = "alloc" /\ slot' = slot /\ slot[p] = NULL
      /\ swap_bitmap' = {} /\ \A v \in Page : pagedir'[p][v] = NULL /\ pagedir[p][v] = NULL
      /\ \A v \in Page : type'[p][v] = IF v \in BinPage THEN "VM_BIN" ELSE "none"
  BY SoleFacts DEF start_process, At, Goto, SwapInv, ProcInv
<1>2. ~ Running(p) /\ Running(p)'
  BY <1>1 DEF Running
<1>3. \A v \in Page : ~ Away(p, v)'
  BY <1>1 DEF Away
<1>4. PagesInv(p)'
  BY <1>1, <1>3 DEF PagesInv, SwapPage
<1>5. SwapInv(p)'
  BY <1>1, <1>4 DEF SwapInv
<1>6. \A v \in Page : Sees(p, v) = JUNK
  BY <1>2, SeesWhere
<1>7. ASSUME NEW v \in Page PROVE Sees(p, v)' = IF v \in BinPage THEN Image[v] ELSE JUNK
  <2>1. Running(p)' /\ pagedir'[p][v] = NULL
    BY <1>1, <1>2
  <2>2. type'[p][v] = IF v \in BinPage THEN "VM_BIN" ELSE "none"
    BY <1>1
  <2>3. CASE v \in BinPage
    BY <2>1, <2>2, <2>3, SeesWhereNext
  <2>4. CASE v \notin BinPage
    BY <2>1, <2>2, <2>4, SeesWhereNext
  <2> QED BY <2>3, <2>4
<1> QED BY <1>5, <1>6, <1>7, MapExec

\* The processor stores into a frame that is mapped at one page.
LEMMA SwapWrite ==
  ASSUME NEW p, Proc = {p}, PagingInv, SwapInv(p), NEW u \in Page, NEW x \in Value,
         write(p, u, x)
  PROVE  SwapInv(p)' /\ MemStep
<1> USE DEF lruVars, swapVars, localVars
<1>1. /\ pc[p] = "user" /\ pc' = pc /\ pagedir[p][u] # NULL
      /\ UNCHANGED <<pagedir, type, swap_slot, swap_bitmap, disk, slot>>
      /\ content' = [content EXCEPT ![pagedir[p][u]] = x] /\ dirty' = dirty \cup {<<p, u>>}
  BY DEF write, At
<1>2. Running(p) /\ Running(p)' /\ PagesInv(p) /\ slot[p] = NULL
  BY <1>1 DEF Running, SwapInv
<1>3. /\ content'[pagedir[p][u]] = x
      /\ \A v \in Page \ {u} : pagedir[p][v] # NULL =>
           content'[pagedir[p][v]] = content[pagedir[p][v]]
  <2>1. pagedir[p][u] \in Frame /\ \A v \in Page \ {u} : pagedir[p][v] # pagedir[p][u]
    BY <1>1, MappedFrames
  <2>2. \A v \in Page : pagedir[p][v] # NULL => pagedir[p][v] \in Frame
    BY MappedFrames
  <2> QED BY <1>1, <2>1, <2>2, SoleFacts
<1>4. \A v \in Page : Away(p, v)' <=> Away(p, v)
  BY <1>1 DEF Away
<1>5. ASSUME NEW v \in Page PROVE SwapPage(p, v)'
  <2>1. SwapPage(p, v)
    BY <1>2 DEF PagesInv
  <2>2. Away(p, v)' =>
         /\ swap_slot'[p][v] \in swap_bitmap'
         /\ swap_slot'[p][v] # slot'[p]
         /\ disk'[swap_slot'[p][v]] \in Value
         /\ \A w \in Page : Away(p, w)' /\ swap_slot'[p][w] = swap_slot'[p][v] => w = v
    BY <1>1, <1>4, <2>1 DEF SwapPage
  <2>3. pagedir'[p][v] # NULL =>
          /\ content'[pagedir'[p][v]] \in Value
          /\ type'[p][v] = "VM_BIN" /\ <<p, v>> \notin dirty' =>
               content'[pagedir'[p][v]] = Image[v]
    <3>1. CASE v = u
      BY <1>1, <1>3, <3>1
    <3>2. CASE v # u
      BY <1>1, <1>3, <2>1, <3>2 DEF SwapPage
    <3> QED BY <3>1, <3>2
  <2> QED BY <1>1, <2>1, <2>2, <2>3 DEF SwapPage
<1>6. PagesInv(p)'
  BY <1>1, <1>2, <1>4, <1>5 DEF PagesInv
<1>7. SwapInv(p)'
  BY <1>1, <1>2, <1>6 DEF SwapInv
<1>8. Sees(p, u) # JUNK /\ Sees(p, u)' = x
  <2>1. Sees(p, u) = content[pagedir[p][u]]
    BY <1>1, <1>2, SeesWhere
  <2>2. Sees(p, u)' = content'[pagedir'[p][u]]
    <3>1. pagedir'[p][u] # NULL
      BY <1>1
    <3> QED BY <1>2, <3>1, SeesWhereNext
  <2>3. content[pagedir[p][u]] \in Value
    BY <1>1, <1>2 DEF PagesInv, SwapPage
  <2> QED BY <1>1, <1>3, <2>1, <2>2, <2>3, SoleFacts
<1>9. \A v \in Page \ {u} : Sees(p, v)' = Sees(p, v)
  BY <1>1, <1>2, <1>3 DEF Sees, Running
<1> QED BY <1>7, <1>8, <1>9, MapStore

\* alloc_page() takes a frame that is mapped nowhere.
LEMMA SwapAlloc ==
  ASSUME NEW p, Proc = {p}, PagingInv, SwapInv(p), alloc_page(p)
  PROVE  SwapInv(p)' /\ MemStep
<1> USE DEF frameVars, lruVars, tableVars, swapVars
<1>1. /\ pc[p] = "alloc" /\ va' = va
      /\ UNCHANGED <<pagedir, type, swap_slot, swap_bitmap, disk, dirty, slot>>
  BY DEF alloc_page, At
<1>2. Running(p) /\ PagesInv(p) /\ slot[p] = NULL
  BY <1>1 DEF Running, SwapInv
<1>3. CASE used = Frame
  <2>1. pc'[p] = "evict" /\ content' = content
    BY <1>3, SoleFacts DEF alloc_page, Goto
  <2>2. Running(p)'
    BY <2>1 DEF Running
  <2>3. PagesInv(p)' /\ MemStep
    BY <1>1, <1>2, <2>1, <2>2, SwapKept
  <2> QED BY <1>1, <1>2, <2>1, <2>3 DEF SwapInv
<1>4. CASE used # Frame
  <2> DEFINE f == Min(Frame \ used)
  <2>1. f \in Frame /\ f \notin used
    <3>1. Frame \ used \subseteq Nat /\ Frame \ used # {}
      BY <1>4, SoleFacts, PagesAssumption
    <3> QED BY <3>1, MinIn
  <2> HIDE DEF f
  <2>2. /\ kpage' = [kpage EXCEPT ![p] = f]
        /\ content' = [content EXCEPT ![f] = IF type[p][va[p]] = "none" THEN 0 ELSE @]
        /\ pc' = [pc EXCEPT ![p] = IF type[p][va[p]] = "none" THEN "grow" ELSE "load"]
    BY <1>4 DEF alloc_page, Goto, f
  <2>3. /\ kpage'[p] = f /\ pc'[p] = IF type[p][va[p]] = "none" THEN "grow" ELSE "load"
        /\ type[p][va[p]] = "none" => content'[f] = 0
        /\ \A g \in Frame \ {f} : content'[g] = content[g]
    BY <2>1, <2>2, SoleFacts
  <2>4. \A v \in Page : pagedir[p][v] # NULL =>
          content'[pagedir[p][v]] = content[pagedir[p][v]]
    BY <2>1, <2>3, MappedFrames
  <2>5. Running(p)'
    BY <2>3 DEF Running
  <2>6. PagesInv(p)' /\ MemStep
    BY <1>1, <1>2, <2>4, <2>5, SwapKept
  <2>7. pc'[p] \in {"grow", "load"} /\ (pc'[p] = "grow" => type[p][va[p]] = "none")
    BY <2>3
  <2> QED BY <1>1, <1>2, <2>3, <2>6, <2>7 DEF SwapInv
<1> QED BY <1>3, <1>4

\* handle_mm_fault() brings a page back from the executable or from its slot.
LEMMA SwapLoad ==
  ASSUME NEW p, Proc = {p}, PagingInv, SwapInv(p), handle_mm_fault(p), ~ Panic
  PROVE  SwapInv(p)' /\ MemStep
<1> USE DEF lruVars, localVars
<1>0. PICK u \in Page : u = va[p]
  BY SoleFacts DEF ProcInv, handle_mm_fault, At, Transit
<1>1. /\ pc[p] = "load" /\ pagedir[p][u] = NULL /\ kpage[p] \in Frame /\ type[p][u] # "none"
      /\ page[kpage[p]] = <<p, u>>
  <2>1. pc[p] = "load" /\ ProcInv(p) /\ used \subseteq Frame
    BY SoleFacts DEF handle_mm_fault, At
  <2>2. pc[p] \in Transit /\ pc[p] \in Faulting /\ pc[p] \in Transit \cup {"add"}
    BY <2>1 DEF Transit, Faulting
  <2> QED BY <1>0, <2>1, <2>2 DEF ProcInv
<1>2. Running(p) /\ PagesInv(p) /\ slot[p] = NULL
  BY <1>1 DEF Running, SwapInv
<1> DEFINE s == swap_slot[p][u]
<1>3. /\ pagedir' = [pagedir EXCEPT ![p][u] = kpage[p]] /\ dirty' = dirty \ {<<p, u>>}
      /\ pc' = [pc EXCEPT ![p] = "add"] /\ UNCHANGED <<page, type, swap_slot, disk, slot>>
      /\ IF type[p][u] = "VM_BIN"
         THEN /\ content' = [content EXCEPT ![kpage[p]] = Image[u]]
              /\ swap_bitmap' = swap_bitmap
         ELSE /\ content' = [content EXCEPT ![kpage[p]] = disk[s]]
              /\ swap_bitmap' = swap_bitmap \ {s}
  BY <1>0 DEF handle_mm_fault, install_page, Goto
<1> HIDE DEF s
<1>4. /\ pc'[p] = "add" /\ pagedir'[p][u] = kpage[p] /\ kpage[p] # NULL
      /\ \A v \in Page \ {u} : pagedir'[p][v] = pagedir[p][v]
  BY <1>1, <1>3, SoleFacts
<1>5. Running(p)'
  BY <1>4 DEF Running
<1>6. \A v \in Page : Away(p, v)' <=> Away(p, v) /\ v # u
  BY <1>3, <1>4 DEF Away
<1>7. type[p][u] = "VM_BIN" \/ Away(p, u)
  BY <1>1, SoleFacts, Entries DEF Away, PagingInv
<1>8. \A v \in Page \ {u} : pagedir[p][v] # NULL =>
        content'[pagedir[p][v]] = content[pagedir[p][v]]
  <2> SUFFICES ASSUME NEW v \in Page \ {u}, pagedir[p][v] # NULL
               PROVE  content'[pagedir[p][v]] = content[pagedir[p][v]]
    OBVIOUS
  <2>1. pagedir[p][v] \in Frame /\ page[pagedir[p][v]] = <<p, v>>
    BY MappedFrames
  <2>2. pagedir[p][v] # kpage[p]
    <3>1. pagedir[p][v] = kpage[p] => <<p, v>> = <<p, u>>
      BY <1>1, <2>1
    <3> QED BY <3>1
  <2> QED BY <1>1, <1>3, <2>1, <2>2, SoleFacts
<1>9. /\ Sees(p, u)' = Sees(p, u) /\ content'[kpage[p]] \in Value
      /\ type[p][u] = "VM_BIN" => content'[kpage[p]] = Image[u]
  <2>1. Sees(p, u)' = content'[kpage[p]]
    <3>1. pagedir'[p][u] # NULL
      BY <1>4
    <3>2. Sees(p, u)' = content'[pagedir'[p][u]]
      BY <1>5, <3>1, SeesWhereNext
    <3> QED BY <1>4, <3>2
  <2>2. CASE type[p][u] = "VM_BIN"
    <3>1. content'[kpage[p]] = Image[u]
      BY <1>1, <1>3, <2>2, SoleFacts
    <3>2. Sees(p, u) = Image[u]
      BY <1>1, <1>2, <2>2, SeesWhere
    <3>3. Image[u] \in Value
      <4>1. PageMapped(p, u)
        BY SoleFacts DEF PagingInv, FrameInv
      <4> QED BY <2>2, <4>1, PagesAssumption DEF PageMapped
    <3> QED BY <2>1, <3>1, <3>2, <3>3
  <2>3. CASE type[p][u] # "VM_BIN"
    <3>1. content'[kpage[p]] = disk[s]
      BY <1>1, <1>3, <2>3, SoleFacts
    <3>2. s \in swap_bitmap /\ disk[s] \in Value
      BY <1>2, <1>7, <2>3 DEF PagesInv, SwapPage, s
    <3>3. s # NULL
      BY <3>2, SoleFacts
    <3>4. Sees(p, u) = disk[s]
      BY <1>2, <1>7, <2>3, <3>3, SeesWhere DEF Away, s
    <3> QED BY <2>1, <2>3, <3>1, <3>2, <3>4
  <2> QED BY <2>2, <2>3
<1>10. \A v \in Page \ {u} : Sees(p, v)' = Sees(p, v)
  BY <1>2, <1>3, <1>4, <1>5, <1>8 DEF Sees, Running
<1>11. \A v \in Page \ {u} : Away(p, v) => swap_slot[p][v] \in swap_bitmap'
  <2> SUFFICES ASSUME NEW v \in Page \ {u}, Away(p, v) PROVE swap_slot[p][v] \in swap_bitmap'
    OBVIOUS
  <2>1. swap_slot[p][v] \in swap_bitmap
    BY <1>2 DEF PagesInv, SwapPage
  <2>2. Away(p, u) => swap_slot[p][v] # s
    BY <1>2 DEF PagesInv, SwapPage, s
  <2> QED BY <1>3, <1>7, <2>1, <2>2
<1>12. ASSUME NEW v \in Page PROVE SwapPage(p, v)'
  <2>1. SwapPage(p, v)
    BY <1>2 DEF PagesInv
  <2>2. Away(p, v)' =>
         /\ swap_slot'[p][v] \in swap_bitmap'
         /\ swap_slot'[p][v] # slot'[p]
         /\ disk'[swap_slot'[p][v]] \in Value
         /\ \A w \in Page : Away(p, w)' /\ swap_slot'[p][w] = swap_slot'[p][v] => w = v
    BY <1>3, <1>6, <1>11, <2>1 DEF SwapPage
  <2>3. pagedir'[p][v] # NULL =>
          /\ content'[pagedir'[p][v]] \in Value
          /\ type'[p][v] = "VM_BIN" /\ <<p, v>> \notin dirty' =>
               content'[pagedir'[p][v]] = Image[v]
    <3>1. CASE v = u
      BY <1>3, <1>4, <1>9, <3>1
    <3>2. CASE v # u
      <4>1. <<p, v>> \notin dirty' => <<p, v>> \notin dirty
        BY <1>3, <3>2
      <4> QED BY <1>3, <1>4, <1>8, <2>1, <3>2, <4>1 DEF SwapPage
    <3> QED BY <3>1, <3>2
  <2> QED BY <1>3, <2>1, <2>2, <2>3 DEF SwapPage
<1>13. ASSUME NEW r \in swap_bitmap' PROVE \E v \in Page : Away(p, v)' /\ swap_slot'[p][v] = r
  <2>1. r \in swap_bitmap /\ (type[p][u] # "VM_BIN" => r # s)
    BY <1>3
  <2>2. PICK v \in Page : Away(p, v) /\ swap_slot[p][v] = r
    BY <1>2, <2>1, SoleFacts DEF PagesInv
  <2>3. v # u
    BY <1>1, <2>1, <2>2 DEF Away, s
  <2> QED BY <1>3, <1>6, <2>2, <2>3
<1>14. PagesInv(p)'
  BY <1>12, <1>13 DEF PagesInv
<1>15. SwapInv(p)'
  BY <1>2, <1>3, <1>4, <1>14 DEF SwapInv
<1> QED BY <1>9, <1>10, <1>15, MapKeep

\* setup_stack() and stack_grow() map a page of zeros.
LEMMA SwapGrow ==
  ASSUME NEW p, Proc = {p}, PagingInv, SwapInv(p), stack_install(p)
  PROVE  SwapInv(p)' /\ MemStep
<1> USE DEF frameVars, lruVars, swapVars, localVars
<1>0. PICK u \in Page : u = va[p]
  BY SoleFacts DEF ProcInv, stack_install, At, Transit
<1>1. /\ pc[p] = "grow_install" /\ pagedir[p][u] = NULL /\ kpage[p] \in Frame
      /\ type[p][u] = "none" /\ content[kpage[p]] = 0
  <2>1. pc[p] = "grow_install" /\ ProcInv(p) /\ used \subseteq Frame
    BY SoleFacts DEF stack_install, At
  <2>2. pc[p] \in Transit /\ pc[p] \in Faulting /\ pc[p] \in Transit \cup {"add"}
    BY <2>1 DEF Transit, Faulting
  <2> QED BY <1>0, <2>1, <2>2 DEF ProcInv, SwapInv
<1>2. Running(p) /\ PagesInv(p) /\ slot[p] = NULL
  BY <1>1 DEF Running, SwapInv
<1>3. /\ pagedir' = [pagedir EXCEPT ![p][u] = kpage[p]] /\ dirty' = dirty \ {<<p, u>>}
      /\ pc' = [pc EXCEPT ![p] = "grow_entry"] /\ type' = [type EXCEPT ![p][u] = "VM_ANON"]
      /\ swap_slot' = [swap_slot EXCEPT ![p][u] = NULL]
      /\ UNCHANGED <<content, swap_bitmap, disk, slot>>
  BY <1>0 DEF stack_install, install_page, Goto
<1>4. /\ pc'[p] = "grow_entry" /\ pagedir'[p][u] = kpage[p] /\ type'[p][u] = "VM_ANON"
      /\ \A v \in Page \ {u} : /\ pagedir'[p][v] = pagedir[p][v] /\ type'[p][v] = type[p][v]
                               /\ swap_slot'[p][v] = swap_slot[p][v]
  BY <1>3, SoleFacts
<1>5. Running(p)' /\ pagedir'[p][u] # NULL
  BY <1>1, <1>4, SoleFacts DEF Running
<1>6. \A v \in Page : Away(p, v)' <=> Away(p, v) /\ v # u
  BY <1>1, <1>4, <1>5 DEF Away
<1>7. u \notin BinPage
  BY <1>1, <1>2 DEF PagesInv, SwapPage
<1>8. ASSUME NEW v \in Page PROVE SwapPage(p, v)'
  <2>1. SwapPage(p, v)
    BY <1>2 DEF PagesInv
  <2>2. CASE v = u
    <3>1. content'[pagedir'[p][v]] \in Value
      BY <1>1, <1>3, <1>4, <2>2, PagesAssumption
    <3>2. type'[p][v] = "VM_ANON" /\ ~ Away(p, v)'
      BY <1>4, <1>6, <2>2
    <3> QED BY <1>7, <2>2, <3>1, <3>2 DEF SwapPage
  <2>3. CASE v # u
    <3>1. Away(p, v)' =>
           /\ swap_slot'[p][v] \in swap_bitmap'
           /\ swap_slot'[p][v] # slot'[p]
           /\ disk'[swap_slot'[p][v]] \in Value
           /\ \A w \in Page : Away(p, w)' /\ swap_slot'[p][w] = swap_slot'[p][v] => w = v
      <4> SUFFICES ASSUME Away(p, v)'
                   PROVE  /\ swap_slot'[p][v] \in swap_bitmap'
                          /\ swap_slot'[p][v] # slot'[p]
                          /\ disk'[swap_slot'[p][v]] \in Value
                          /\ \A w \in Page : Away(p, w)' /\ swap_slot'[p][w] = swap_slot'[p][v]
                                             => w = v
        OBVIOUS
      <4>1. /\ swap_slot[p][v] \in swap_bitmap /\ swap_slot[p][v] # slot[p]
            /\ disk[swap_slot[p][v]] \in Value
            /\ \A w \in Page : Away(p, w) /\ swap_slot[p][w] = swap_slot[p][v] => w = v
        BY <1>6, <2>1 DEF SwapPage
      <4>2. /\ swap_slot'[p][v] = swap_slot[p][v] /\ swap_bitmap' = swap_bitmap
            /\ slot' = slot /\ disk' = disk
        BY <1>3, <1>4, <2>3
      <4>3. \A w \in Page : Away(p, w)' => Away(p, w) /\ swap_slot'[p][w] = swap_slot[p][w]
        BY <1>4, <1>6
      <4> QED BY <4>1, <4>2, <4>3
    <3>2. pagedir'[p][v] # NULL =>
            /\ content'[pagedir'[p][v]] \in Value
            /\ type'[p][v] = "VM_BIN" /\ <<p, v>> \notin dirty' =>
                 content'[pagedir'[p][v]] = Image[v]
      <4>1. <<p, v>> \notin dirty' => <<p, v>> \notin dirty
        BY <1>3, <2>3
      <4> QED BY <1>3, <1>4, <2>1, <2>3, <4>1 DEF SwapPage
    <3> QED BY <1>4, <2>1, <2>3, <3>1, <3>2 DEF SwapPage
  <2> QED BY <2>2, <2>3
<1>9. PagesInv(p)'
  <2>1. ASSUME NEW r \in swap_bitmap' PROVE \E v \in Page : Away(p, v)' /\ swap_slot'[p][v] = r
    <3>1. PICK v \in Page : Away(p, v) /\ swap_slot[p][v] = r
      BY <1>2, <1>3, SoleFacts DEF PagesInv
    <3>2. v # u
      BY <1>1, <3>1 DEF Away
    <3> QED BY <1>4, <1>6, <3>1, <3>2
  <2> QED BY <1>8, <2>1 DEF PagesInv
<1>10. SwapInv(p)'
  BY <1>2, <1>3, <1>4, <1>9 DEF SwapInv
<1>11. Sees(p, u) = JUNK
  BY <1>1, <1>2, SeesWhere
<1>12. Sees(p, u)' = 0
  <2>1. Sees(p, u)' = content'[pagedir'[p][u]]
    BY <1>5, SeesWhereNext
  <2> QED BY <1>1, <1>3, <1>4, <2>1
<1>13. \A v \in Page \ {u} : Sees(p, v)' = Sees(p, v)
  <2> SUFFICES ASSUME NEW v \in Page \ {u} PROVE Sees(p, v)' = Sees(p, v)
    OBVIOUS
  <2>1. /\ pagedir'[p][v] = pagedir[p][v] /\ type'[p][v] = type[p][v]
        /\ swap_slot'[p][v] = swap_slot[p][v] /\ content' = content /\ disk' = disk
    BY <1>3, <1>4
  <2> QED BY <1>2, <1>5, <2>1 DEF Sees, Running
<1>14. u \in Page \ BinPage
  BY <1>7
<1> QED BY <1>10, <1>11, <1>12, <1>13, <1>14, MapGrow

\* Entering a page on the list or in sup_page_tab, choosing a victim and faulting
\* touch no contents.
LEMMA SwapList ==
  ASSUME NEW p, Proc = {p}, PagingInv, SwapInv(p),
         \/ add_page_to_list_LRU(p) \/ stack_grow(p) \/ (get_victim(p) /\ ~ Panic)
         \/ \E v \in Page : page_fault(p, v)
  PROVE  SwapInv(p)' /\ MemStep
<1> USE DEF frameVars, lruVars, tableVars, swapVars
<1>0. ASSUME get_victim(p), ~ Panic PROVE \E f : Evicts(p, f)
  BY <1>0, SoleFacts, VictimChosen DEF PagingInv
<1>1. /\ pc[p] \in {"add", "grow", "grow_entry", "evict", "user"}
      /\ UNCHANGED <<pagedir, type, swap_slot, swap_bitmap, disk, dirty, slot, content, page>>
  BY <1>0 DEF add_page_to_list_LRU, stack_grow, Evicts, page_fault, At
<1>2. Running(p) /\ PagesInv(p) /\ slot[p] = NULL
  BY <1>1 DEF Running, SwapInv
<1>3. CASE add_page_to_list_LRU(p)
  <2>1. \/ pc'[p] = "user"
        \/ /\ pc[p] = "grow" /\ pc'[p] = "grow_install" /\ va' = va /\ kpage' = kpage
    BY <1>3, SoleFacts DEF add_page_to_list_LRU, At, Goto
  <2>2. Running(p)'
    BY <2>1 DEF Running
  <2>3. PagesInv(p)' /\ MemStep
    BY <1>1, <1>2, <2>2, SwapKept
  <2>4. pc'[p] = "grow_install" => type'[p][va'[p]] = "none" /\ content'[kpage'[p]] = 0
    BY <1>1, <2>1 DEF SwapInv
  <2> QED BY <1>1, <1>2, <2>1, <2>3, <2>4 DEF SwapInv
<1>4. CASE get_victim(p) /\ ~ Panic
  <2>1. PICK f : /\ victim' = [victim EXCEPT ![p] = f]
                 /\ pc' = [pc EXCEPT ![p] = IF MustSwapOut(page[f][1], page[f][2])
                                            THEN "evict_out" ELSE "evict_free"]
    BY <1>0, <1>4 DEF Evicts
  <2>2. /\ victim'[p] = f /\ pc'[p] \in {"evict_out", "evict_free"}
        /\ pc'[p] = "evict_free" => ~ MustSwapOut(page[f][1], page[f][2])
    BY <2>1, SoleFacts
  <2>3. Running(p)'
    BY <2>2 DEF Running
  <2>4. PagesInv(p)' /\ MemStep
    BY <1>1, <1>2, <2>3, SwapKept
  <2>5. pc'[p] = "evict_free" => ~ MustSwapOut(page[victim[p]][1], page[victim[p]][2])'
    BY <1>1, <2>2 DEF MustSwapOut
  <2> QED BY <1>1, <1>2, <2>2, <2>4, <2>5 DEF SwapInv
<1>5. CASE \E v \in Page : page_fault(p, v)
  <2>1. pc'[p] = "alloc"
    BY <1>5, SoleFacts DEF page_fault, Goto
  <2>2. Running(p)'
    BY <2>1 DEF Running
  <2>3. PagesInv(p)' /\ MemStep
    BY <1>1, <1>2, <2>2, SwapKept
  <2> QED BY <1>1, <1>2, <2>1, <2>3 DEF SwapInv
<1>6. CASE stack_grow(p)
  <2>1. pc'[p] = "user"
    BY <1>6, SoleFacts DEF stack_grow, Goto
  <2>2. Running(p)'
    BY <2>1 DEF Running
  <2>3. PagesInv(p)' /\ MemStep
    BY <1>1, <1>2, <2>2, SwapKept
  <2> QED BY <1>1, <1>2, <2>1, <2>3 DEF SwapInv
<1> QED BY <1>3, <1>4, <1>5, <1>6

\* swap_out() writes into a slot that holds nothing.
LEMMA SwapOut ==
  ASSUME NEW p, Proc = {p}, PagingInv, SwapInv(p), swap_out(p), ~ Panic
  PROVE  SwapInv(p)' /\ MemStep
<1> USE DEF frameVars, lruVars, tableVars
<1> DEFINE s == Min(Slot \ swap_bitmap)
<1>1. /\ pc[p] = "evict_out" /\ pc' = [pc EXCEPT ![p] = "evict_free"]
      /\ swap_bitmap # Slot /\ swap_bitmap' = swap_bitmap \cup {s}
      /\ disk' = [disk EXCEPT ![s] = content[victim[p]]] /\ slot' = [slot EXCEPT ![p] = s]
      /\ UNCHANGED <<pagedir, type, swap_slot, dirty, content, victim>>
  BY DEF swap_out, At, Goto
<1>2. s \in Slot /\ s \notin swap_bitmap
  <2>1. Slot \ swap_bitmap \subseteq Nat /\ Slot \ swap_bitmap # {}
    BY <1>1, SoleFacts, PagesAssumption
  <2> QED BY <2>1, MinIn
<1> HIDE DEF s
<1>3. Running(p) /\ PagesInv(p) /\ slot[p] = NULL
  BY <1>1 DEF Running, SwapInv
<1>4. /\ pc'[p] = "evict_free" /\ slot'[p] = s /\ disk'[s] = content[victim[p]]
      /\ \A r \in swap_bitmap : r # s /\ disk'[r] = disk[r]
  BY <1>1, <1>2, SoleFacts
<1>5. Running(p)'
  BY <1>4 DEF Running
<1>6. \A v \in Page : Away(p, v)' <=> Away(p, v)
  BY <1>1 DEF Away
<1>7. ASSUME NEW v \in Page, Away(p, v)
      PROVE  /\ swap_slot[p][v] \in swap_bitmap
             /\ disk'[swap_slot[p][v]] = disk[swap_slot[p][v]] /\ swap_slot[p][v] # s
  <2>1. swap_slot[p][v] \in swap_bitmap
    BY <1>3, <1>7 DEF PagesInv, SwapPage
  <2> QED BY <1>4, <2>1
<1>8. ASSUME NEW v \in Page PROVE SwapPage(p, v)'
  <2>1. SwapPage(p, v)
    BY <1>3 DEF PagesInv
  <2>2. ASSUME Away(p, v)
        PROVE  /\ swap_slot'[p][v] \in swap_bitmap'
               /\ swap_slot'[p][v] # slot'[p]
               /\ disk'[swap_slot'[p][v]] \in Value
               /\ \A w \in Page : Away(p, w)' /\ swap_slot'[p][w] = swap_slot'[p][v] => w = v
    <3>1. /\ swap_slot[p][v] \in swap_bitmap /\ swap_slot[p][v] # s
          /\ disk'[swap_slot[p][v]] = disk[swap_slot[p][v]]
      BY <1>7, <2>2
    <3>2. disk[swap_slot[p][v]] \in Value
      BY <2>1, <2>2 DEF SwapPage
    <3>3. \A w \in Page : Away(p, w) /\ swap_slot[p][w] = swap_slot[p][v] => w = v
      BY <2>1, <2>2 DEF SwapPage
    <3> QED BY <1>1, <1>4, <1>6, <3>1, <3>2, <3>3
  <2> QED BY <1>1, <1>6, <2>1, <2>2 DEF SwapPage
<1>9. PagesInv(p)'
  <2>1. ASSUME NEW r \in swap_bitmap'
        PROVE  r = slot'[p] \/ \E v \in Page : Away(p, v)' /\ swap_slot'[p][v] = r
    <3>1. r = s \/ r \in swap_bitmap
      BY <1>1
    <3>2. CASE r = s
      BY <1>4, <3>2
    <3>3. CASE r \in swap_bitmap
      <4>1. PICK v \in Page : Away(p, v) /\ swap_slot[p][v] = r
        BY <1>3, <3>3, SoleFacts DEF PagesInv
      <4> QED BY <1>1, <1>6, <4>1
    <3> QED BY <3>1, <3>2, <3>3
  <2> QED BY <1>8, <2>1 DEF PagesInv
<1>10. SwapInv(p)'
  <2>1. slot'[p] \in swap_bitmap' /\ disk'[slot'[p]] = content'[victim'[p]] /\ slot'[p] # NULL
    BY <1>1, <1>2, <1>4, SoleFacts
  <2> QED BY <1>4, <1>9, <2>1 DEF SwapInv
<1>11. ASSUME NEW v \in Page PROVE Sees(p, v)' = Sees(p, v)
  <2>1. CASE Away(p, v)
    <3>1. swap_slot[p][v] # NULL
      BY <1>7, <2>1, SoleFacts
    <3>2. Sees(p, v) = disk[swap_slot[p][v]]
      BY <1>3, <2>1, <3>1, SeesWhere DEF Away
    <3>3. swap_slot'[p][v] # NULL /\ pagedir'[p][v] = NULL /\ type'[p][v] = "VM_ANON"
      BY <1>1, <2>1, <3>1 DEF Away
    <3>4. Sees(p, v)' = disk'[swap_slot'[p][v]]
      BY <1>5, <3>3, SeesWhereNext
    <3> QED BY <1>1, <1>7, <2>1, <3>2, <3>4
  <2>2. CASE pagedir[p][v] # NULL
    BY <1>1, <1>3, <1>5, <2>2 DEF Sees, Running
  <2>3. CASE pagedir[p][v] = NULL /\ type[p][v] # "VM_ANON"
    <3>1. type[p][v] \in {"none", "VM_BIN", "VM_ANON"}
      BY SoleFacts, Entries DEF PagingInv
    <3> QED BY <1>1, <1>3, <1>5, <2>3, <3>1 DEF Sees, Running
  <2> QED BY <2>1, <2>2, <2>3 DEF Away
<1> QED BY <1>10, <1>11, MapKeep

\* The end of replacement_mem(): the page is where its page_entry now says.
LEMMA SwapReplace ==
  ASSUME NEW p, Proc = {p}, PagingInv, SwapInv(p), replacement_mem(p)
  PROVE  SwapInv(p)' /\ MemStep
<1> USE DEF swapVars
<1>1. /\ pc[p] = "evict_free" /\ victim[p] \in Elements(list_LRU) /\ victim[p] \in Frame
  <2>1. pc[p] = "evict_free" /\ victim[p] \in Elements(list_LRU)
    BY SoleFacts DEF replacement_mem, At, ProcInv
  <2> QED BY <2>1, EmptyElements DEF PagingInv, TypeOK
<1>2. PICK u \in Page : page[victim[p]] = <<p, u>> /\ pagedir[p][u] = victim[p]
  <2>1. FrameListed(victim[p])
    BY <1>1 DEF PagingInv, FrameInv
  <2>2. page[victim[p]] \in Proc \X Page
    BY <1>1, <2>1 DEF FrameListed
  <2>3. PICK q \in Proc, u \in Page : page[victim[p]] = <<q, u>>
    BY SMTT(20), <2>2
  <2>4. q = p /\ page[victim[p]][1] = p /\ page[victim[p]][2] = u
    BY SMTT(20), <2>3
  <2>5. pagedir[p][u] = victim[p]
    BY <1>1, <2>1, <2>4 DEF FrameListed
  <2> QED BY <2>3, <2>4, <2>5
<1> DEFINE s == slot[p]
<1>3. /\ pagedir' = [pagedir EXCEPT ![p][u] = NULL]
      /\ content' = [content EXCEPT ![victim[p]] = JUNK]
      /\ swap_slot' = [swap_slot EXCEPT ![p][u] = IF s = NULL THEN swap_slot[p][u] ELSE s]
      /\ type' = [type EXCEPT ![p][u] = IF s = NULL THEN type[p][u] ELSE "VM_ANON"]
      /\ slot' = [slot EXCEPT ![p] = NULL] /\ pc' = [pc EXCEPT ![p] = "alloc"]
      /\ UNCHANGED <<dirty, swap_bitmap, disk>>
  <2>1. page[victim[p]][1] = p /\ page[victim[p]][2] = u
    BY SMTT(20), <1>2
  <2>2. ~ Unfinished(victim[p])
    BY <1>1 DEF Unfinished
  <2> QED BY <2>1, <2>2, SoleFacts DEF replacement_mem, __free_page, palloc_free_page, Goto
<1>4. s \in Slot \cup {NULL}
  BY SoleFacts
<1>5. /\ Running(p) /\ PagesInv(p)
      /\ s # NULL => s \in swap_bitmap /\ disk[s] = content[victim[p]]
      /\ s = NULL => type[p][u] # "VM_ANON" /\ <<p, u>> \notin dirty
  <2>1. page[victim[p]][1] = p /\ page[victim[p]][2] = u
    BY SMTT(20), <1>2
  <2> QED BY <1>1, <2>1 DEF Running, SwapInv, MustSwapOut
<1> HIDE DEF s
<1>6. /\ pc'[p] = "alloc" /\ slot'[p] = NULL /\ pagedir'[p][u] = NULL
      /\ type'[p][u] = IF s = NULL THEN type[p][u] ELSE "VM_ANON"
      /\ swap_slot'[p][u] = IF s = NULL THEN swap_slot[p][u] ELSE s
      /\ \A v \in Page \ {u} : /\ pagedir'[p][v] = pagedir[p][v] /\ type'[p][v] = type[p][v]
                               /\ swap_slot'[p][v] = swap_slot[p][v]
  BY <1>3, SoleFacts
<1>7. Running(p)'
  BY <1>6 DEF Running
<1>8. /\ ~ Away(p, u) /\ \A v \in Page \ {u} : Away(p, v)' <=> Away(p, v)
      /\ Away(p, u)' <=> s # NULL
  <2>1. ~ Away(p, u)
    BY <1>1, <1>2, SoleFacts DEF Away
  <2>2. \A v \in Page \ {u} : Away(p, v)' <=> Away(p, v)
    BY <1>6 DEF Away
  <2>3. s = NULL => ~ Away(p, u)'
    BY <1>5, <1>6 DEF Away
  <2>4. s # NULL => Away(p, u)'
    BY <1>6 DEF Away
  <2> QED BY <2>1, <2>2, <2>3, <2>4
<1>9. /\ pagedir[p][u] # NULL /\ content[victim[p]] \in Value /\ type[p][u] # "none"
      /\ s = NULL => type[p][u] = "VM_BIN" /\ content[victim[p]] = Image[u]
  <2>1. pagedir[p][u] # NULL
    BY <1>1, <1>2, SoleFacts
  <2>2. SwapPage(p, u) /\ type[p][u] # "none"
    BY <1>5, <2>1, MappedFrames DEF PagesInv
  <2>3. type[p][u] \in {"none", "VM_BIN", "VM_ANON"}
    BY SoleFacts, Entries DEF PagingInv
  <2> QED BY <1>2, <1>5, <2>1, <2>2, <2>3 DEF SwapPage
<1>10. \A v \in Page \ {u} : pagedir[p][v] # NULL =>
         content'[pagedir[p][v]] = content[pagedir[p][v]]
  <2> SUFFICES ASSUME NEW v \in Page \ {u}, pagedir[p][v] # NULL
               PROVE  content'[pagedir[p][v]] = content[pagedir[p][v]]
    OBVIOUS
  <2>1. pagedir[p][v] \in Frame /\ pagedir[p][v] # victim[p]
    BY <1>2, MappedFrames
  <2> QED BY <1>3, <2>1, SoleFacts
<1>11. ASSUME NEW v \in Page \ {u}, Away(p, v)
       PROVE  /\ swap_slot[p][v] \in swap_bitmap /\ swap_slot[p][v] # s
              /\ disk[swap_slot[p][v]] \in Value /\ swap_slot[p][v] # NULL
              /\ \A w \in Page : Away(p, w) /\ swap_slot[p][w] = swap_slot[p][v] => w = v
  <2>1. SwapPage(p, v)
    BY <1>5 DEF PagesInv
  <2>2. /\ swap_slot[p][v] \in swap_bitmap /\ swap_slot[p][v] # s
        /\ disk[swap_slot[p][v]] \in Value
        /\ \A w \in Page : Away(p, w) /\ swap_slot[p][w] = swap_slot[p][v] => w = v
    BY <1>11, <2>1 DEF SwapPage, s
  <2> QED BY <2>2, SoleFacts
<1>12. ASSUME NEW v \in Page PROVE SwapPage(p, v)'
  <2>1. CASE v = u
    <3>1. ASSUME s # NULL
          PROVE  /\ swap_slot'[p][u] \in swap_bitmap'
                 /\ swap_slot'[p][u] # slot'[p]
                 /\ disk'[swap_slot'[p][u]] \in Value
                 /\ \A w \in Page : Away(p, w)' /\ swap_slot'[p][w] = swap_slot'[p][u] => w = u
      <4>1. swap_slot'[p][u] = s
        BY <1>6, <3>1
      <4>2. s \in swap_bitmap' /\ s # slot'[p] /\ disk'[s] \in Value
        BY <1>3, <1>5, <1>6, <1>9, <3>1
      <4>3. \A w \in Page \ {u} : Away(p, w)' => swap_slot'[p][w] # s
        BY <1>6, <1>8, <1>11
      <4> QED BY <4>1, <4>2, <4>3
    <3>2. u \in BinPage => type'[p][u] # "none"
      BY <1>6, <1>9
    <3> QED BY <1>6, <1>8, <2>1, <3>1, <3>2 DEF SwapPage
  <2>2. CASE v # u
    <3>1. SwapPage(p, v)
      BY <1>5 DEF PagesInv
    <3>2. ASSUME Away(p, v)'
          PROVE  /\ swap_slot'[p][v] \in swap_bitmap'
                 /\ swap_slot'[p][v] # slot'[p]
                 /\ disk'[swap_slot'[p][v]] \in Value
                 /\ \A w \in Page : Away(p, w)' /\ swap_slot'[p][w] = swap_slot'[p][v] => w = v
      <4>1. Away(p, v)
        BY <1>8, <2>2, <3>2
      <4>2. /\ swap_slot[p][v] \in swap_bitmap /\ swap_slot[p][v] # s
            /\ disk[swap_slot[p][v]] \in Value /\ swap_slot[p][v] # NULL
            /\ \A w \in Page : Away(p, w) /\ swap_slot[p][w] = swap_slot[p][v] => w = v
        BY <1>11, <2>2, <4>1
      <4>3. swap_slot'[p][v] = swap_slot[p][v]
        BY <1>6, <2>2
      <4>4. ASSUME NEW w \in Page, Away(p, w)', swap_slot'[p][w] = swap_slot'[p][v] PROVE w = v
        <5>1. CASE w = u
          BY <1>6, <1>8, <4>2, <4>3, <4>4, <5>1
        <5>2. CASE w # u
          BY <1>6, <1>8, <4>2, <4>3, <4>4, <5>2
        <5> QED BY <5>1, <5>2
      <4>5. swap_bitmap' = swap_bitmap /\ disk' = disk /\ slot'[p] = NULL
        BY <1>3, <1>6
      <4> QED BY <4>2, <4>3, <4>4, <4>5
    <3>3. pagedir'[p][v] # NULL =>
            /\ content'[pagedir'[p][v]] \in Value
            /\ type'[p][v] = "VM_BIN" /\ <<p, v>> \notin dirty' =>
                 content'[pagedir'[p][v]] = Image[v]
      <4>1. pagedir'[p][v] = pagedir[p][v] /\ type'[p][v] = type[p][v] /\ dirty' = dirty
        BY <1>3, <1>6, <2>2
      <4> QED BY <1>10, <2>2, <3>1, <4>1 DEF SwapPage
    <3>4. v \in BinPage => type'[p][v] # "none"
      BY <1>6, <2>2, <3>1 DEF SwapPage
    <3> QED BY <3>2, <3>3, <3>4 DEF SwapPage
  <2> QED BY <2>1, <2>2
<1>13. ASSUME NEW r \in swap_bitmap' PROVE \E v \in Page : Away(p, v)' /\ swap_slot'[p][v] = r
  <2>1. r # NULL /\ (r = s \/ \E v \in Page : Away(p, v) /\ swap_slot[p][v] = r)
    BY <1>3, <1>5, SoleFacts DEF PagesInv, s
  <2>2. CASE r = s
    BY <1>6, <1>8, <2>1, <2>2
  <2>3. CASE \E v \in Page : Away(p, v) /\ swap_slot[p][v] = r
    <3>1. PICK v \in Page : Away(p, v) /\ swap_slot[p][v] = r
      BY <2>3
    <3>2. v # u
      BY <1>8, <3>1
    <3> QED BY <1>6, <1>8, <3>1, <3>2
  <2> QED BY <2>1, <2>2, <2>3
<1>14. PagesInv(p)'
  BY <1>12, <1>13 DEF PagesInv
<1>15. SwapInv(p)'
  BY <1>6, <1>14 DEF SwapInv
<1>16. Sees(p, u)' = Sees(p, u)
  <2>1. Sees(p, u) = content[victim[p]]
    <3>1. Sees(p, u) = content[pagedir[p][u]]
      BY <1>5, <1>9, SeesWhere
    <3> QED BY <1>2, <3>1
  <2>2. CASE s = NULL
    <3>1. type'[p][u] = "VM_BIN"
      BY <1>6, <1>9, <2>2
    <3>2. Sees(p, u)' = Image[u]
      <4>1. Running(p)' /\ pagedir'[p][u] = NULL
        BY <1>6, <1>7
      <4> QED BY <3>1, <4>1, SeesWhereNext
    <3> QED BY <1>9, <2>1, <2>2, <3>2
  <2>3. CASE s # NULL
    <3>1. type'[p][u] = "VM_ANON" /\ swap_slot'[p][u] = s
      BY <1>6, <2>3
    <3>2. swap_slot'[p][u] # NULL /\ pagedir'[p][u] = NULL
      BY <1>6, <2>3, <3>1
    <3>3. Sees(p, u)' = disk'[swap_slot'[p][u]]
      BY <1>7, <3>1, <3>2, SeesWhereNext
    <3> QED BY <1>3, <1>5, <2>1, <2>3, <3>1, <3>3
  <2> QED BY <2>2, <2>3
<1>17. \A v \in Page \ {u} : Sees(p, v)' = Sees(p, v)
  <2> SUFFICES ASSUME NEW v \in Page \ {u} PROVE Sees(p, v)' = Sees(p, v)
    OBVIOUS
  <2>1. /\ pagedir'[p][v] = pagedir[p][v] /\ type'[p][v] = type[p][v]
        /\ swap_slot'[p][v] = swap_slot[p][v] /\ disk' = disk
        /\ pagedir[p][v] # NULL => content'[pagedir[p][v]] = content[pagedir[p][v]]
    BY <1>3, <1>6, <1>10
  <2> QED BY <1>5, <1>7, <2>1 DEF Sees, Running
<1> QED BY <1>15, <1>16, <1>17, MapKeep

\* process_exit() gives up the memory, then the slots page by page.
LEMMA SwapExit ==
  ASSUME NEW p, Proc = {p}, PagingInv, SwapInv(p),
         \/ exit(p) \/ swap_clear(p) \/ free_page_vaddr(p) \/ pagedir_destroy(p)
         \/ free_page_kaddr(p) /\ ~ Panic
  PROVE  SwapInv(p)' /\ MemStep
<1> USE DEF tableVars, swapVars, localVars
<1>1. SwapInv(p)' /\ ~ Running(p)'
  <2>1. CASE exit(p)
    <3>1. pc[p] = "user" /\ pc'[p] = "exit" /\ UNCHANGED <<swap_bitmap, type, swap_slot, slot>>
      BY <2>1, SoleFacts DEF exit, At, Goto
    <3>2. PagesInv(p) /\ slot[p] = NULL
      BY <3>1 DEF SwapInv, Running
    <3>3. ASSUME NEW s \in swap_bitmap PROVE \E v \in Page : type[p][v] # "none" /\ swap_slot[p][v] = s
      <4>1. PICK v \in Page : Away(p, v) /\ swap_slot[p][v] = s
        BY <3>2, SoleFacts DEF PagesInv
      <4> QED BY <4>1 DEF Away
    <3> QED BY <3>1, <3>2, <3>3 DEF SwapInv, Running
  <2>2. CASE swap_clear(p)
    <3>1. /\ pc[p] = "exit" /\ pc'[p] = "exit_vaddr" /\ UNCHANGED <<type, swap_slot, slot>>
      BY <2>2, SoleFacts DEF swap_clear, At, Goto
    <3>2. PICK v \in Page : va'[p] = v /\ swap_bitmap' = swap_bitmap \ {swap_slot[p][v]}
      BY <2>2, SoleFacts DEF swap_clear
    <3>3. slot[p] = NULL
      BY <3>1 DEF SwapInv
    <3>4. ASSUME NEW s \in swap_bitmap'
          PROVE \E w \in Page \ {v} : type[p][w] # "none" /\ swap_slot[p][w] = s
      <4>1. s \in swap_bitmap /\ s # swap_slot[p][v]
        BY <3>2
      <4>2. PICK w \in Page : type[p][w] # "none" /\ swap_slot[p][w] = s
        BY <3>1, <4>1 DEF SwapInv
      <4>3. w # v
        BY <4>1, <4>2
      <4> QED BY <4>2, <4>3
    <3> QED BY <3>1, <3>2, <3>3, <3>4 DEF SwapInv, Running
  <2>3. CASE free_page_vaddr(p)
    <3>1. /\ pc[p] = "exit_vaddr" /\ pc'[p] = "exit_free"
          /\ UNCHANGED <<type, swap_slot, slot, swap_bitmap, va>>
      BY <2>3, SoleFacts DEF free_page_vaddr, At, Goto
    <3> QED BY <3>1 DEF SwapInv, Running
  <2>4. CASE free_page_kaddr(p) /\ ~ Panic
    <3>1. /\ pc[p] = "exit_free" /\ pc'[p] = "exit" /\ UNCHANGED <<swap_slot, slot, swap_bitmap>>
          /\ type' = [type EXCEPT ![p][va[p]] = "none"]
      BY <2>4, SoleFacts DEF free_page_kaddr, At, Goto
    <3>2. \A w \in Page \ {va[p]} : type'[p][w] = type[p][w]
      BY <3>1, SoleFacts
    <3>3. slot[p] = NULL
      BY <3>1 DEF SwapInv
    <3>4. ASSUME NEW s \in swap_bitmap
          PROVE \E w \in Page : type'[p][w] # "none" /\ swap_slot[p][w] = s
      <4>1. PICK w \in Page \ {va[p]} : type[p][w] # "none" /\ swap_slot[p][w] = s
        BY <3>1 DEF SwapInv
      <4> QED BY <3>2, <4>1
    <3> QED BY <3>1, <3>3, <3>4 DEF SwapInv, Running
  <2>5. CASE pagedir_destroy(p)
    <3>1. /\ pc[p] = "exit" /\ pc'[p] = "start" /\ UNCHANGED <<swap_slot, slot, swap_bitmap, type>>
          /\ \A v \in Page : type[p][v] = "none"
      BY <2>5, SoleFacts DEF pagedir_destroy, At, Goto
    <3>2. slot[p] = NULL /\ swap_bitmap = {}
      BY <3>1 DEF SwapInv
    <3> QED BY <3>1, <3>2 DEF SwapInv, Running
  <2> QED BY <2>1, <2>2, <2>3, <2>4, <2>5
<1>2. \A v \in Page : Sees(p, v)' = JUNK
  BY <1>1, SeesWhereNext
<1> QED BY <1>1, <1>2, MapExit

\* Every step keeps SwapInv and is a step of Memory or a stutter.
LEMMA SwapStep ==
  ASSUME NEW p, Proc = {p}
  PROVE  PagingInv /\ SwapInv(p) /\ [Next]_vars => SwapInv(p)' /\ MemStep
<1> SUFFICES ASSUME PagingInv, SwapInv(p), [Next]_vars PROVE SwapInv(p)' /\ MemStep
  OBVIOUS
<1> USE DEF frameVars, lruVars, tableVars, swapVars, localVars
<1>1. CASE UNCHANGED vars \/ Halted \/ Panic \/ \E v \in Page : read(p, v)
  <2>1. UNCHANGED <<type, pagedir, swap_slot, swap_bitmap, disk, dirty, slot, content, page,
                    pc, va, kpage, victim>>
    BY <1>1 DEF vars, Halted, Panic, read
  <2> QED BY <2>1, SwapStill
<1>2. CASE Kernel(p) /\ ~ Panic
  BY <1>2, SwapAlloc, SwapLoad, SwapGrow, SwapList, SwapOut, SwapReplace, SwapExit DEF Kernel
<1>3. CASE User(p) /\ ~ Panic /\ ~ \E v \in Page : read(p, v)
  <2>1. ~ load_fails(p)
    BY <1>3 DEF load_fails
  <2> QED BY <1>3, <2>1, SwapStart, SwapExit, SwapList, SwapWrite DEF User
<1> QED BY <1>1, <1>2, <1>3 DEF Next

LEMMA SwapInit ==
  ASSUME NEW p, Proc = {p}
  PROVE  Init => SwapInv(p) /\ M!Init
<1> SUFFICES ASSUME Init PROVE SwapInv(p) /\ M!Init
  OBVIOUS
<1>1. pc[p] = "start" /\ swap_bitmap = {} /\ slot[p] = NULL
  BY DEF Init
<1>2. SwapInv(p) /\ ~ Running(p)
  BY <1>1 DEF SwapInv, Running
<1>3. \A v \in Page : Sees(p, v) = JUNK
  BY <1>2, SeesWhere
<1> QED BY <1>2, <1>3 DEF M!Init, M!Empty

-----------------------------------------------------------------------------

\* With one process at a time, paging is transparent: through page faults,
\* evictions and swapping the process reads what it last stored, or the
\* executable's contents, or zeros.
THEOREM PagingImplementsMemory == (\E p : Proc = {p}) => (Spec => ImplementsMemory)
<1> SUFFICES ASSUME NEW p, Proc = {p} PROVE Spec => ImplementsMemory
  OBVIOUS
<1>1. Init => SwapInv(p) /\ M!Init
  BY SwapInit
<1>2. PagingInv /\ SwapInv(p) /\ [Next]_vars => SwapInv(p)' /\ [M!Next]_Mem
  BY SwapStep DEF MemStep
<1> QED BY <1>1, <1>2, PagingInvariant, PTL DEF Spec, ImplementsMemory, M!Spec, Mem
=============================================================================
