-------------------------------- MODULE Heap --------------------------------
(***************************************************************************)
(* Kernel memory: malloc(), realloc() and free() (threads/malloc.c) on top *)
(* of the page allocator's kernel pool (threads/palloc.c).                 *)
(*                                                                         *)
(* A block is its page and its offset in the page.  Each descriptor has    *)
(* its lock, and the pool has one; but palloc_free_multiple() clears the   *)
(* bits of the pool's map one by one without it, while another thread may  *)
(* be between its scan of the map and the setting of the bits.             *)
(***************************************************************************)
EXTENDS Integers, Sequences, SequencesExt

CONSTANTS
  Thread,
  PageCnt,    \* pages in the pool
  PGSIZE,     \* bytes in a page
  ArenaSize,  \* sizeof (struct arena)
  MinBlock,   \* 16, the smallest block
  Sizes,      \* the sizes that are asked for
  MaxLive,    \* bound: blocks in use at a time
  NULL

Page == 0..PageCnt - 1

\* malloc_init(): the block sizes of the descriptors, which name them here.
Desc == {s \in {MinBlock * 2^i : i \in 0..7} : s < PGSIZE \div 2}

blocks_per_arena(d) == (PGSIZE - ArenaSize) \div d

DIV_ROUND_UP(x, step) == (x + step - 1) \div step

VARIABLES
  used_map,   \* the pages in use, by the pool's bitmap
  pool_lock,  \* holder of the pool's lock
  arena,      \* what the first bytes of each page hold, NULL if not an arena
  free_list,  \* the free blocks of each descriptor
  desc_lock,  \* holders of the descriptors' locks
  stage,      \* where each thread is
  size,       \* what it asks malloc() for
  desc,       \* the descriptor it uses, NULL for a big block
  pages,      \* the pages it is about to mark or to free, as a sequence
  old,        \* the block that it is to free, NULL if none
  live        \* the blocks that callers have, and the sizes they asked for

threadVars == <<stage, size, desc, pages, old>>
vars == <<used_map, pool_lock, arena, free_list, desc_lock, threadVars, live>>

Init ==
  /\ used_map = {} /\ pool_lock = NULL
  /\ arena = [p \in Page |-> NULL]
  /\ free_list = [d \in Desc |-> <<>>]
  /\ desc_lock = [d \in Desc |-> NULL]
  /\ stage = [t \in Thread |-> "run"]
  /\ size = [t \in Thread |-> 0]
  /\ desc = [t \in Thread |-> NULL]
  /\ pages = [t \in Thread |-> <<>>]
  /\ old = [t \in Thread |-> NULL]
  /\ live = {}

Goto(t, s) == stage' = [stage EXCEPT ![t] = s]

\* The smallest descriptor for a request, NULL if it needs pages of its own.
DescFor(n) ==
  IF \E d \in Desc : d >= n THEN CHOOSE d \in Desc : d >= n /\ \A e \in Desc : e >= n => d <= e
  ELSE NULL

arena_to_block(p, idx, d) == [page |-> p, ofs |-> ArenaSize + idx * d]

Blocks(p, d) == [i \in 1..blocks_per_arena(d) |-> arena_to_block(p, i - 1, d)]

\* The block at ADDR is handed to its caller.
Return(t, addr) == live' = live \cup {[page |-> addr.page, ofs |-> addr.ofs, len |-> size[t]]}

\* Where a thread goes after malloc(): realloc() has the old block to free.
AfterMalloc(t) == IF old[t] = NULL THEN "run" ELSE "free"
-----------------------------------------------------------------------------
(***************************************************************************)
(* Allocation.                                                             *)
(***************************************************************************)

\* malloc(N), or realloc(B, N) for a block B that nobody is freeing.
malloc(t, n, b) ==
  /\ stage[t] = "run" /\ Cardinality(live) < MaxLive
  /\ b # NULL => \A u \in Thread : old[u] # b
  /\ size' = [size EXCEPT ![t] = n]
  /\ desc' = [desc EXCEPT ![t] = DescFor(n)]
  /\ old' = [old EXCEPT ![t] = b]
  /\ Goto(t, IF DescFor(n) = NULL THEN "scan" ELSE "lock")
  /\ UNCHANGED <<used_map, pool_lock, arena, free_list, desc_lock, pages, live>>

\* The descriptor's lock is taken; an empty free list asks for a page.
malloc_lock(t) ==
  /\ stage[t] = "lock" /\ desc_lock[desc[t]] = NULL
  /\ desc_lock' = [desc_lock EXCEPT ![desc[t]] = t]
  /\ Goto(t, IF free_list[desc[t]] = <<>> THEN "scan" ELSE "pop")
  /\ UNCHANGED <<used_map, pool_lock, arena, free_list, size, desc, pages, old, live>>

page_cnt(t) == IF desc[t] # NULL THEN 1 ELSE DIV_ROUND_UP(size[t] + ArenaSize, PGSIZE)

\* bitmap_scan() for CNT consecutive free pages: the first ones, or none.
bitmap_scan(cnt) ==
  LET fits == {p \in Page : p + cnt <= PageCnt /\ \A q \in p..p + cnt - 1 : q \notin used_map}
  IN  IF fits = {} THEN <<>>
      ELSE LET first == CHOOSE p \in fits : \A q \in fits : p <= q
           IN  [i \in 1..cnt |-> first + i - 1]

\* Mutant of palloc_scan(): two threads may scan at the same time.
palloc_scan_unlocked(t) ==
  /\ stage[t] = "scan"
  /\ pool_lock' = t
  /\ pages' = [pages EXCEPT ![t] = bitmap_scan(page_cnt(t))]
  /\ Goto(t, "flip")
  /\ UNCHANGED <<used_map, arena, free_list, desc_lock, size, desc, old, live>>

\* palloc_get_multiple(): bitmap_scan_and_flip() under the pool's lock, the scan
palloc_scan(t) ==
  /\ stage[t] = "scan" /\ pool_lock = NULL
  /\ pool_lock' = t
  /\ pages' = [pages EXCEPT ![t] = bitmap_scan(page_cnt(t))]
  /\ Goto(t, "flip")
  /\ UNCHANGED <<used_map, arena, free_list, desc_lock, size, desc, old, live>>

\* and the flip.  Without pages malloc() returns a null pointer.
palloc_flip(t) ==
  /\ stage[t] = "flip"
  /\ used_map' = used_map \cup Range(pages[t])
  /\ pool_lock' = NULL
  /\ IF pages[t] # <<>> THEN Goto(t, "arena") /\ UNCHANGED <<desc_lock, old>>
     ELSE /\ desc_lock' = [d \in Desc |-> IF desc_lock[d] = t THEN NULL ELSE desc_lock[d]]
          /\ old' = [old EXCEPT ![t] = NULL]
          /\ Goto(t, "run")
  /\ UNCHANGED <<arena, free_list, size, desc, pages, live>>

\* The new page becomes an arena of small blocks, or a big block.
malloc_arena(t) ==
  LET p == Head(pages[t])
      d == desc[t]
  IN  /\ stage[t] = "arena"
      /\ arena' = [arena EXCEPT ![p] =
           [desc |-> d, free_cnt |-> IF d = NULL THEN Len(pages[t]) ELSE blocks_per_arena(d)]]
      /\ IF d = NULL
         THEN /\ Return(t, [page |-> p, ofs |-> ArenaSize])
              /\ Goto(t, AfterMalloc(t))
              /\ UNCHANGED free_list
         ELSE /\ free_list' = [free_list EXCEPT ![d] = @ \o Blocks(p, d)]
              /\ Goto(t, "pop")
              /\ UNCHANGED live
      /\ pages' = [pages EXCEPT ![t] = <<>>]
      /\ UNCHANGED <<used_map, pool_lock, desc_lock, size, desc, old>>

malloc_pop(t) ==
  LET d == desc[t]
      b == Head(free_list[d])
  IN  /\ stage[t] = "pop"
      /\ free_list' = [free_list EXCEPT ![d] = Tail(@)]
      /\ arena' = [arena EXCEPT ![b.page].free_cnt = @ - 1]
      /\ Return(t, b)
      /\ desc_lock' = [desc_lock EXCEPT ![d] = NULL]
      /\ Goto(t, AfterMalloc(t))
      /\ UNCHANGED <<used_map, pool_lock, size, desc, pages, old>>
-----------------------------------------------------------------------------
(***************************************************************************)
(* Release.                                                                *)
(***************************************************************************)

\* free(B), or realloc(B, 0).
free(t, b) ==
  /\ stage[t] = "run" /\ \A u \in Thread : old[u] # b
  /\ old' = [old EXCEPT ![t] = b]
  /\ Goto(t, "free")
  /\ UNCHANGED <<used_map, pool_lock, arena, free_list, desc_lock, size, desc, pages, live>>

\* The block leaves its caller's hands; a big block's pages are freed at once.
free_begin(t) ==
  LET b == old[t]
      a == arena[b.page]
  IN  /\ stage[t] = "free"
      /\ live' = live \ {b}
      /\ desc' = [desc EXCEPT ![t] = a.desc]
      /\ IF a.desc # NULL THEN Goto(t, "free_lock") /\ UNCHANGED <<pages, arena>>
         ELSE /\ pages' = [pages EXCEPT ![t] = [i \in 1..a.free_cnt |-> b.page + i - 1]]
              /\ arena' = [arena EXCEPT ![b.page] = NULL]
              /\ Goto(t, "unmap")
      /\ UNCHANGED <<used_map, pool_lock, free_list, desc_lock, size, old>>

\* The block goes back to the free list, and the arena to the pool when all of
\* its blocks are there.
free_lock(t) ==
  LET d == desc[t]
      p == old[t].page
      addr == [page |-> p, ofs |-> old[t].ofs]
      unused == arena[p].free_cnt + 1 >= blocks_per_arena(d)
  IN  /\ stage[t] = "free_lock" /\ desc_lock[d] = NULL
      /\ desc_lock' = [desc_lock EXCEPT ![d] = IF unused THEN t ELSE NULL]
      /\ free_list' = [free_list EXCEPT ![d] =
                         SelectSeq(<<addr>> \o @, LAMBDA b : ~(unused /\ b.page = p))]
      /\ arena' = [arena EXCEPT ![p] = IF unused THEN NULL ELSE [@ EXCEPT !.free_cnt = @ + 1]]
      /\ pages' = [pages EXCEPT ![t] = IF unused THEN <<p>> ELSE <<>>]
      /\ old' = IF unused THEN old ELSE [old EXCEPT ![t] = NULL]
      /\ Goto(t, IF unused THEN "unmap" ELSE "run")
      /\ UNCHANGED <<used_map, pool_lock, size, desc, live>>

\* palloc_free_multiple(): bit after bit, without the pool's lock; then free()
\* releases the descriptor's lock if it has it.
palloc_free(t) ==
  /\ stage[t] = "unmap"
  /\ used_map' = used_map \ {Head(pages[t])}
  /\ pages' = [pages EXCEPT ![t] = Tail(@)]
  /\ IF Len(pages[t]) > 1 THEN UNCHANGED <<stage, old, desc_lock>>
     ELSE /\ Goto(t, "run")
          /\ old' = [old EXCEPT ![t] = NULL]
          /\ desc_lock' = [d \in Desc |-> IF desc_lock[d] = t THEN NULL ELSE desc_lock[d]]
  /\ UNCHANGED <<pool_lock, arena, free_list, size, desc, live>>

Next == \E t \in Thread :
  \/ malloc_lock(t) \/ palloc_scan(t) \/ palloc_flip(t) \/ malloc_arena(t) \/ malloc_pop(t)
  \/ free_begin(t) \/ free_lock(t) \/ palloc_free(t)
  \/ \E n \in Sizes, b \in live \cup {NULL} : malloc(t, n, b)
  \/ \E b \in live : free(t, b)

Spec == Init /\ [][Next]_vars
-----------------------------------------------------------------------------
\* The bytes of a block, numbered through the pool.
Bytes(b, len) == {b.page * PGSIZE + b.ofs + i : i \in 0..len - 1}

Headers == {p * PGSIZE + i : p \in {q \in Page : arena[q] # NULL}, i \in 0..ArenaSize - 1}

\* The blocks that callers have are theirs alone: they overlap neither each
\* other, nor a free block, nor an arena's header, and lie in pages that the
\* pool's map has as used, although palloc_free_multiple() takes no lock.
BlocksAreApart ==
  /\ \A b \in live :
       /\ \A c \in live \ {b} : Bytes(b, b.len) \cap Bytes(c, c.len) = {}
       /\ Bytes(b, b.len) \cap Headers = {}
       /\ \A x \in Bytes(b, b.len) : x \div PGSIZE \in used_map
  /\ \A d \in Desc : \A i \in 1..Len(free_list[d]) :
       LET f == free_list[d][i]
       IN  /\ arena[f.page] # NULL /\ arena[f.page].desc = d
           /\ Bytes(f, d) \cap Headers = {}
           /\ \A b \in live : Bytes(b, b.len) \cap Bytes(f, d) = {}
           /\ \A j \in 1..i - 1 : free_list[d][j] # f

\* An arena's free_cnt is the number of its blocks on the free list, so that the
\* assertion of free() holds, and when everything was freed every page is back
\* in the pool: nothing is leaked by a free() that races another.
NothingIsLeaked ==
  /\ \A p \in Page : (arena[p] # NULL /\ arena[p].desc # NULL) =>
       /\ arena[p].free_cnt =
            Len(SelectSeq(free_list[arena[p].desc], LAMBDA b : b.page = p))
       /\ arena[p].free_cnt <= blocks_per_arena(arena[p].desc)
  /\ (live = {} /\ \A t \in Thread : stage[t] = "run") =>
       used_map = {} /\ \A d \in Desc : free_list[d] = <<>>
=============================================================================
