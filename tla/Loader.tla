------------------------------- MODULE Loader -------------------------------
(***************************************************************************)
(* Loading a program (load() and its helpers in userprog/process.c): the   *)
(* executable's headers, the page entries that describe its segments, the  *)
(* stack page and the arguments on it.  The file is what its headers say;  *)
(* a command line is the lengths of its words.  Addresses and sizes are    *)
(* of 32 bits in the code and below Modulus here.  Of the frames only the  *)
(* one of the stack page is there before the program runs.                 *)
(***************************************************************************)
EXTENDS Integers, Sequences, SequencesExt

CONSTANTS
  PGSIZE,
  PHYS_BASE,  \* the end of user memory
  Modulus,    \* the number of addresses, a multiple of PGSIZE
  FileLength,
  Headers,    \* the program headers that a file may hold
  MaxHeaders, \* bound: program headers in a file
  Commands    \* command lines: lengths of words that fit in the stack page

VARIABLES
  state,    \* what load() does next, or how it ended
  command,
  loaded,   \* the PT_LOAD headers that were accepted, in order
  read,     \* how many headers were read
  spt,      \* the supplemental page table: page number to page entry
  mapped,   \* the pages that have a frame, of zeros and what is in STACK
  esp,
  stack,    \* what construct_ESP() stored: address to word or string
  args      \* the argument strings that are allocated

vars == <<state, command, loaded, read, spt, mapped, esp, stack, args>>

Init ==
  /\ state = "start" /\ command = <<>>
  /\ loaded = <<>> /\ read = 0
  /\ spt = <<>> /\ mapped = {} /\ esp = 0 /\ stack = <<>> /\ args = {}

pg_ofs(a) == a % PGSIZE
pg_round_down(a) == a - (a % PGSIZE)
ROUND_UP(a) == ((a + PGSIZE - 1) \div PGSIZE) * PGSIZE
is_user_vaddr(a) == a < PHYS_BASE

\* The label `done': the argument strings are freed.
Done(how) == state' = how /\ args' = {}

\* pagedir_create(), the opening of the file or its header may fail the load.
\* parse_filename() does not look at what malloc() gave it: without memory for the
\* copy of the line or for word N + 1 strlcpy() fails its assertion.
load(c) ==
  /\ state = "start"
  /\ command' = c
  /\ \/ Done("failed")
     \/ \E n \in 0..Len(c) - 1 : state' = "panic" /\ args' = 1..n
     \/ state' = "headers" /\ args' = 1..Len(c)
  /\ UNCHANGED <<loaded, read, spt, mapped, esp, stack>>
-----------------------------------------------------------------------------

validate_segment(h) ==
  LET end == (h.p_vaddr + h.p_memsz) % Modulus
  IN  /\ pg_ofs(h.p_offset) = pg_ofs(h.p_vaddr)
      /\ h.p_offset <= FileLength
      /\ h.p_memsz >= h.p_filesz /\ h.p_memsz # 0
      /\ is_user_vaddr(h.p_vaddr) /\ is_user_vaddr(end)
      /\ end >= h.p_vaddr
      /\ h.p_vaddr >= PGSIZE

\* The entry for page I (from 0) of a segment, and the number of its pages.
page_entry(h, i) ==
  LET read_bytes == IF h.p_filesz > 0 THEN pg_ofs(h.p_vaddr) + h.p_filesz ELSE 0
      rest == read_bytes - i * PGSIZE
  IN  [type |-> "VM_BIN", writable |-> h.writable,
       offset |-> pg_round_down(h.p_offset) + (IF rest < 0 THEN read_bytes ELSE i * PGSIZE),
       read_bytes |-> IF rest < 0 THEN 0 ELSE IF rest < PGSIZE THEN rest ELSE PGSIZE]

segment_pages(h) == ROUND_UP(pg_ofs(h.p_vaddr) + h.p_memsz) \div PGSIZE

first_page(h) == h.p_vaddr \div PGSIZE

\* load_segment(), for the first N pages: insert_pge() leaves an entry that is
\* there already, and its result is not looked at.
load_segment(table, h, n) ==
  LET pages == first_page(h)..first_page(h) + n - 1
  IN  [p \in pages \cup DOMAIN table |->
         IF p \in DOMAIN table THEN table[p] ELSE page_entry(h, p - first_page(h))]

\* One round of the loop over the program headers; malloc() may fail before a
\* page entry is made.
read_header(h) ==
  /\ state = "headers" /\ read < MaxHeaders
  /\ read' = read + 1
  /\ CASE h.p_type = "ignored" ->
            UNCHANGED <<state, args, loaded, spt>>
       [] h.p_type = "dynamic" \/ (h.p_type = "load" /\ ~validate_segment(h)) ->
            Done("failed") /\ UNCHANGED <<loaded, spt>>
       [] OTHER ->
            \/ /\ spt' = load_segment(spt, h, segment_pages(h))
               /\ loaded' = Append(loaded, h)
               /\ UNCHANGED <<state, args>>
            \/ /\ \E n \in 0..segment_pages(h) - 1 : spt' = load_segment(spt, h, n)
               /\ Done("failed") /\ UNCHANGED loaded
  /\ UNCHANGED <<command, mapped, esp, stack>>

\* A header past the end of the file.
read_header_fails ==
  /\ state = "headers" /\ read < MaxHeaders
  /\ Done("failed")
  /\ UNCHANGED <<command, loaded, read, spt, mapped, esp, stack>>
-----------------------------------------------------------------------------
StackPage == (PHYS_BASE \div PGSIZE) - 1

\* setup_stack(): malloc() may fail; without a struct page it reports success and
\* the stack pointer is still 0; if install_page() fails, what is given back is not
\* a page and an assertion stops the kernel.  Otherwise the page is mapped, and
\* insert_pge() leaves an entry that a segment has for it: its result is not
\* looked at here either.
setup_stack ==
  /\ state = "headers"
  /\ \/ Done("failed") /\ UNCHANGED <<esp, spt, mapped>>
     \/ state' = "panic" /\ UNCHANGED <<esp, spt, mapped, args>>
     \/ state' = "arguments" /\ UNCHANGED <<esp, spt, mapped, args>>
     \/ /\ mapped' = {StackPage}
        /\ esp' = PHYS_BASE - 12
        /\ spt' = [p \in {StackPage} \cup DOMAIN spt |->
                     IF p \in DOMAIN spt THEN spt[p]
                     ELSE [type |-> "VM_ANON", writable |-> TRUE, offset |-> 0,
                           read_bytes |-> 0]]
        /\ state' = "arguments" /\ UNCHANGED args
  /\ UNCHANGED <<command, loaded, read, stack>>

\* Bytes that the strings from I on take.
Total(i) == FoldLeft(LAMBDA n, l : n + l + 1, 0, SubSeq(command, i, Len(command)))

Padding == IF Total(1) % 4 = 0 THEN 0 ELSE 4 - (Total(1) % 4)

\* construct_ESP(): from the top down the strings (the last first), the padding,
\* a null pointer, the pointers to the strings, argv, argc and a return address.
construct_ESP ==
  LET argc == Len(command)
      addr(i) == esp - Total(i)
      null == esp - Total(1) - Padding - 4
      argv == null - 4 * argc
      bottom == argv - 12
  IN  /\ state = "arguments" /\ mapped # {}
      /\ stack' = [a \in {bottom, bottom + 4, bottom + 8, null}
                         \cup {argv + 4 * (i - 1) : i \in 1..argc}
                         \cup {addr(i) : i \in 1..argc} |->
                     CASE a = bottom -> 0
                       [] a = bottom + 4 -> argc
                       [] a = bottom + 8 -> bottom + 12
                       [] a = null -> 0
                       [] a >= argv /\ a < null -> addr(((a - argv) \div 4) + 1)
                       [] OTHER -> <<"string", CHOOSE i \in 1..argc : addr(i) = a>>]
      /\ esp' = bottom
      /\ Done("loaded")
      /\ UNCHANGED <<command, loaded, read, spt, mapped>>

\* Without a stack page the first word is stored just below address 2^32, in
\* the kernel's part, and page_fault() ends the process.
construct_ESP_faults ==
  /\ state = "arguments" /\ mapped = {}
  /\ state' = "exited"
  /\ UNCHANGED <<command, loaded, read, spt, mapped, esp, stack, args>>

Next ==
  \/ \E c \in Commands : load(c)
  \/ \E h \in Headers : read_header(h)
  \/ read_header_fails \/ setup_stack \/ construct_ESP \/ construct_ESP_faults

Spec == Init /\ [][Next]_vars
-----------------------------------------------------------------------------
\* The pages that segment H reaches into.
SegmentPages(h) == (h.p_vaddr \div PGSIZE)..((h.p_vaddr + h.p_memsz - 1) \div PGSIZE)

\* The first segment that reaches into page P.
Owner(p) ==
  LET k == CHOOSE k \in 1..Len(loaded) :
             /\ p \in SegmentPages(loaded[k])
             /\ \A j \in 1..k - 1 : p \notin SegmentPages(loaded[j])
  IN  loaded[k]

\* What header H says of the byte at A, in or beside its segment: a place in the
\* file, or zero.
Says(h, a) ==
  IF h.p_filesz > 0 /\ a < h.p_vaddr + h.p_filesz
  THEN <<"file", h.p_offset + (a - h.p_vaddr)>> ELSE <<"zero">>

\* What the program finds at A when it first looks there.
Finds(a) ==
  LET p == a \div PGSIZE
      e == spt[p]
  IN  IF p \in mapped THEN <<"stack">>
      ELSE IF pg_ofs(a) < e.read_bytes THEN <<"file", e.offset + pg_ofs(a)>>
      ELSE <<"zero">>

\* A program's memory is what its headers say, page by page: no segment reaches
\* page 0 or the kernel; every byte comes from the place in the file that the
\* header names, or is zero past the segment's part of the file.  The code makes
\* two exceptions: a page that two segments reach into is, as a whole, the
\* first one's, and the stack page is the stack's.  The entry of the stack page
\* is of swapped memory only if no segment reaches into it; otherwise it is that
\* segment's, and an eviction would replace the stack by the segment.
SegmentsAreMapped ==
  /\ \A k \in 1..Len(loaded) :
       LET h == loaded[k]
       IN  \A a \in h.p_vaddr..h.p_vaddr + h.p_memsz - 1 :
             LET p == a \div PGSIZE
             IN  /\ p > 0 /\ a < PHYS_BASE /\ p \in DOMAIN spt
                 /\ spt[p].type = "VM_BIN" /\ spt[p].writable = Owner(p).writable
                 /\ Finds(a) = IF p \in mapped THEN <<"stack">> ELSE Says(Owner(p), a)
  /\ state = "loaded" =>
       /\ mapped = {StackPage}
       /\ spt[StackPage].type = "VM_ANON" <=>
            \A k \in 1..Len(loaded) : StackPage \notin SegmentPages(loaded[k])

\* What main() finds: argc, argv with a null pointer after the last argument,
\* every argv[i] at its own string, which nothing overlaps, a word-aligned
\* stack pointer, and the argument strings of the kernel freed.
ArgumentsAreRight ==
  state = "loaded" =>
    LET argc == stack[esp + 4]
        argv == stack[esp + 8]
        word(i) == stack[argv + 4 * i]
    IN  /\ esp % 4 = 0 /\ esp \div PGSIZE \in mapped
        /\ args = {} /\ argc = Len(command)
        /\ word(argc) = 0
        /\ \A i \in 1..argc :
             /\ stack[word(i - 1)] = <<"string", i>>
             /\ word(i - 1) + command[i] + 1 <= PHYS_BASE - 12
             /\ word(i - 1) >= argv + 4 * (argc + 1)
             /\ \A j \in 1..argc : j # i =>
                  word(j - 1) \notin word(i - 1)..word(i - 1) + command[i]
=============================================================================
