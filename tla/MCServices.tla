----------------------------- MODULE MCServices -----------------------------
(***************************************************************************)
(* The services beneath the kernel's main parts, each with constants small *)
(* enough for TLC.  They share no state, so a behaviour is one of PART,    *)
(* chosen once, while the others stay in an initial state.                 *)
(***************************************************************************)
EXTENDS Integers, Sequences, TLC

CONSTANTS t1, t2, s1, JUNK, NULL

VARIABLE part

VARIABLES
  lock, expecting_interrupt, completion_wait, is_ata, identified, step, request, data,
  selected, lba, phase, buffer, medium, irq, strays, refused, halted
diskVars == <<lock, expecting_interrupt, completion_wait, is_ata,
  identified, step, request, data, selected, lba, phase, buffer, medium, irq, strays,
  refused, halted>>
Disk == INSTANCE Disk WITH Thread <- {t1, t2}, Booter <- t1, Device <- {0, 1},
          Sector <- {s1}, Value <- {0, 1}, MaxStray <- 1, MaxRefuse <- 1

VARIABLES
  file_lock, console_lock, console_lock_depth, mode, ier, queue, qlock, waiter, modifiers,
  caps_lock, at, doing, left, thre, rbr, wire, screen, accepted, got, events, stopped
terminalVars == <<file_lock, console_lock, console_lock_depth, mode, ier, queue, qlock,
  waiter, modifiers, caps_lock, at, doing, left, thre, rbr, wire, screen, accepted, got,
  events, stopped>>
Terminal == INSTANCE Terminal WITH Writer <- {t1, t2}, Reader <- {t1, t2}, Main <- t1,
  INTQ_BUFSIZE <- 3, LineLen <- 2, MaxEvents <- 3,
  Keys <- {[modifier |-> NULL, char |-> 97, shifted |-> 65], [modifier |-> "ctrl"],
           [modifier |-> "caps"]}

VARIABLES
  used, content, page, list_LRU, LRU_clock, LRU_holder, pagedir, accessed, dirty, type,
  swap_slot, swap_bitmap, disk, pc, va, kpage, victim, slot, panicked, dangling
pagingVars == <<used, content, page, list_LRU, LRU_clock, LRU_holder, pagedir, accessed,
  dirty, type, swap_slot, swap_bitmap, disk, pc, va, kpage, victim, slot, panicked,
  dangling>>
Paging == INSTANCE Paging WITH Proc <- {t1}, Frame <- {1, 2}, Slot <- {1, 2},
  BinPage <- {"text", "data"}, StackTop <- "top", StackPage <- {}, Writable <- {"data"},
  Image <- [v \in {"text", "data"} |-> 1], Value <- {0, 1}

VARIABLES tables, all_blocks, block_by_role, booted, access, failure
blockVars == <<tables, all_blocks, block_by_role, booted, access, failure>>
Block == INSTANCE Block WITH DiskSize <- <<5>>, TableLen <- 2, Modulus <- 8, MaxDepth <- 3,
  Entries <- [type : {"0x00", "0x05", "0x21", "0x83"}, offset : {1, 3}, size : {2, 6}]

VARIABLES fb, cx, cy, cursor, inited, paper, top
screenVars == <<fb, cx, cy, cursor, inited, paper, top>>
Screen == INSTANCE Screen WITH COL_CNT <- 3, ROW_CNT <- 2, Tab <- 2, Glyph <- {"x"},
  Blank <- " ", MaxRows <- 2

VARIABLES used_map, pool_lock, arena, free_list, desc_lock, stage, size, desc, pages, old, live
heapVars == <<used_map, pool_lock, arena, free_list, desc_lock, stage, size, desc,
  pages, old, live>>
Heap == INSTANCE Heap WITH Thread <- {t1, t2}, PageCnt <- 3, PGSIZE <- 10, ArenaSize <- 3,
  MinBlock <- 2, Sizes <- {2, 8}, MaxLive <- 2

VARIABLES links, contents
listVars == <<links, contents>>
LinkedList == INSTANCE LinkedList WITH Value <- <<1, 2, 1, 3, 2>>, NULL <- 0

VARIABLES buckets, elem_cnt, members, iter, visited
hashVars == <<buckets, elem_cnt, members, iter, visited>>
HashTable == INSTANCE HashTable WITH Elem <- 1..5, Key <- <<1, 2, 3, 4, 4>>,
  Hash <- <<0, 1, 2, 5, 5>>, MIN_BUCKETS <- 1, BEST_ELEMS_PER_BUCKET <- 1

VARIABLES bit_cnt, bits, file, array, saved, found
bitmapVars == <<bit_cnt, bits, file, array, saved, found>>
Bitmap == INSTANCE Bitmap WITH ELEM_BITS <- 2, BitCnts <- {0, 2, 3}, ret <- found

VARIABLES state, command, loaded, read, spt, mapped, esp, stack, args
loaderVars == <<state, command, loaded, read, spt, mapped, esp, stack, args>>
Loader == INSTANCE Loader WITH PGSIZE <- 48, PHYS_BASE <- 192, Modulus <- 288,
  FileLength <- 60, MaxHeaders <- 2, Commands <- {<<1>>, <<1, 2>>, <<1, 1, 1>>, <<1, 5>>},
  Headers <-
    [p_type : {"load"}, p_offset : {0, 1}, p_vaddr : {0, 49, 96, 145},
     p_filesz : {0, 40, 50}, p_memsz : {0, 45, 60, 150}, writable : {TRUE}]
    \cup [p_type : {"ignored", "dynamic"}, p_offset : {0}, p_vaddr : {48}, p_filesz : {0},
          p_memsz : {48}, writable : {FALSE}]
    \cup [p_type : {"load"}, p_offset : {1}, p_vaddr : {49}, p_filesz : {3}, p_memsz : {8},
          writable : {FALSE}]

VARIABLES mem, before, call, ret, save_ptr, tokens
stringVars == <<mem, before, call, ret, save_ptr, tokens>>
Strings == INSTANCE Strings WITH MemSize <- 4, Char <- {1, 2}

VARIABLES asked, answer
stdlibVars == <<asked, answer>>
Stdlib == INSTANCE Stdlib WITH WordBits <- 4, Values <- {1, 2, 3}, MaxLen <- 4,
  Chars <- {32, 43, 45, 48, 53, 65},
  Numbers <- 0..19 \cup {31, 32, 100, 127, 128, 129, 239, 240, 254, 255},
  call <- asked, ret <- answer

vars == <<part, diskVars, terminalVars, pagingVars, blockVars, screenVars, heapVars,
          listVars, hashVars, bitmapVars, loaderVars, stringVars, stdlibVars>>

Part == {"disk", "terminal", "paging", "block", "screen", "heap", "list", "hash", "bitmap",
         "loader", "string", "stdlib"}

Init ==
  /\ part \in Part
  /\ part = "disk" \/ medium = [d \in {0, 1} |-> [s \in {s1} |-> 0]]
  /\ part = "screen" \/ cursor = 0
  /\ part = "string" \/ mem = [a \in 1..4 |-> 0]
  /\ Disk!Init /\ Terminal!Init /\ Paging!Init /\ Block!Init /\ Screen!Init /\ Heap!Init
  /\ LinkedList!Init /\ HashTable!Init /\ Bitmap!Init /\ Loader!Init /\ Strings!Init
  /\ Stdlib!Init

\* PART is P, and all of the others stay where they are.
Moves(p) ==
  /\ part = p /\ UNCHANGED part
  /\ IF p = "disk" THEN TRUE ELSE UNCHANGED diskVars
  /\ IF p = "terminal" THEN TRUE ELSE UNCHANGED terminalVars
  /\ IF p = "paging" THEN TRUE ELSE UNCHANGED pagingVars
  /\ IF p = "block" THEN TRUE ELSE UNCHANGED blockVars
  /\ IF p = "screen" THEN TRUE ELSE UNCHANGED screenVars
  /\ IF p = "heap" THEN TRUE ELSE UNCHANGED heapVars
  /\ IF p = "list" THEN TRUE ELSE UNCHANGED listVars
  /\ IF p = "hash" THEN TRUE ELSE UNCHANGED hashVars
  /\ IF p = "bitmap" THEN TRUE ELSE UNCHANGED bitmapVars
  /\ IF p = "loader" THEN TRUE ELSE UNCHANGED loaderVars
  /\ IF p = "string" THEN TRUE ELSE UNCHANGED stringVars
  /\ IF p = "stdlib" THEN TRUE ELSE UNCHANGED stdlibVars

Next ==
  \/ Moves("disk") /\ Disk!Next
  \/ Moves("terminal") /\ Terminal!Next
  \/ Moves("paging") /\ Paging!Next
  \/ Moves("block") /\ Block!Next
  \/ Moves("screen") /\ Screen!Next
  \/ Moves("heap") /\ Heap!Next
  \/ Moves("list") /\ LinkedList!Next
  \/ Moves("hash") /\ HashTable!Next
  \/ Moves("bitmap") /\ Bitmap!Next
  \/ Moves("loader") /\ Loader!Next
  \/ Moves("string") /\ Strings!Next
  \/ Moves("stdlib") /\ Stdlib!Next

Spec == Init /\ [][Next]_vars
-----------------------------------------------------------------------------
(***************************************************************************)
(* Each property is about the part that moves.                             *)
(***************************************************************************)

\* The disk driver of devices/ide.c, its lock, semaphore and interrupt handler
\* implement atomic reads and writes of sectors.
ImplementsSectors ==
  /\ Disk!S!Init
  /\ [][part = "disk" => Disk!S!Next]_(Disk!S!vars)

\* Paging is transparent to a single process: wherever its pages are, it reads
\* what it last stored, or the executable's contents, or zeros.
ImplementsMemory ==
  /\ Paging!M!Init
  /\ [][part = "paging" => Paging!M!Next]_pagingVars

\* No wake-up is lost between a thread and an interrupt handler: one that waits
\* for the disk or for room or bytes in a queue has an interrupt coming that will
\* wake it, one that waits for a lock has a holder that moves on, unless that is a
\* process which a page fault ended while it had the lock.
NobodyIsStranded ==
  /\ part = "disk" => Disk!RequestsAreServed
  /\ part = "terminal" => Terminal!PrintingGoesOn

\* The console's output and input streams arrive whole, in order and unmixed
\* (devices/serial.c, intq.c, kbd.c), and the display of devices/vga.c shows the
\* end of what was written.
StreamsInOrder ==
  /\ part = "terminal" => Terminal!OutputInOrder /\ Terminal!InputInOrder
  /\ part = "screen" => Screen!ShowsPaper

\* I/O to a partition never leaves it, whatever devices/partition.c finds in the
\* partition tables.
IOStaysInside == part = "block" => Block!IOStaysInside

\* Blocks of threads/malloc.c belong to one caller each, and no page is lost from
\* the pools of threads/palloc.c.
HeapIsSound == part = "heap" => Heap!BlocksAreApart /\ Heap!NothingIsLeaked


\* The pointers of lib/kernel/list.c and hash.c and the words of bitmap.c stand
\* for the sequences, sets and arrays of bits that their callers think of.
ContainersAreRight ==
  /\ part = "list" => LinkedList!LinksAreSequences
  /\ part = "hash" => HashTable!HoldsMembers /\ HashTable!IterationIsComplete
  /\ part = "bitmap" => Bitmap!BitsAreTheArray

\* The functions of lib/string.c, stdlib.c and arithmetic.c return what their
\* comments in the source say, with the exceptions that StringsAreRight and
\* CallsAreRight name.
LibraryIsRight ==
  /\ part = "string" => Strings!StringsAreRight
  /\ part = "stdlib" => Stdlib!CallsAreRight
=============================================================================
