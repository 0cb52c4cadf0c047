------------------------------- MODULE Bitmap -------------------------------
(***************************************************************************)
(* lib/kernel/bitmap.c: an array of bits kept in an array of words.  A     *)
(* word is the set of the positions in it whose bit is on, so | is union,  *)
(* & intersection and ^ the symmetric difference.  The page pools, the     *)
(* free map and the swap table each keep one; the free map's is also       *)
(* written to a file and read back.                                        *)
(***************************************************************************)
EXTENDS Integers, Sequences, FiniteSets, FiniteSetsExt, SequencesExt

CONSTANTS ELEM_BITS,   \* bits of an elem_type
          BitCnts,     \* sizes of bitmaps to be created
          NULL

VARIABLES bit_cnt,  \* the size, NULL before bitmap_create
          bits,     \* the words
          file,     \* the words bitmap_write left in the file, NULL if none
          array,    \* reference: the array of bits the callers believe in
          saved,    \* reference: the array when the file was written
          ret       \* what the last call returned and what it should have

vars == <<bit_cnt, bits, file, array, saved, ret>>

BITMAP_ERROR == -1

elem_idx(i) == i \div ELEM_BITS

bit_mask(i) == {i % ELEM_BITS}

elem_cnt(n) == (n + ELEM_BITS - 1) \div ELEM_BITS

last_mask(n) ==
  IF n % ELEM_BITS = 0 THEN 0 .. ELEM_BITS - 1 ELSE 0 .. (n % ELEM_BITS) - 1

Word == SUBSET (0 .. ELEM_BITS - 1)

bitmap_mark(b, i) == [b EXCEPT ![elem_idx(i)] = @ \cup bit_mask(i)]

bitmap_reset(b, i) == [b EXCEPT ![elem_idx(i)] = @ \ bit_mask(i)]

bitmap_flip(b, i) == [b EXCEPT ![elem_idx(i)] = SymDiff(@, bit_mask(i))]

bitmap_test(b, i) == (b[elem_idx(i)] \cap bit_mask(i)) # {}

bitmap_set(b, i, value) == IF value THEN bitmap_mark(b, i) ELSE bitmap_reset(b, i)

Indexes(start, cnt) == [k \in 1 .. cnt |-> start + k - 1]

bitmap_set_multiple(b, start, cnt, value) ==
  FoldLeft(LAMBDA c, i : bitmap_set(c, i, value), b, Indexes(start, cnt))

bitmap_count(b, start, cnt, value) ==
  Len(SelectSeq(Indexes(start, cnt), LAMBDA i : bitmap_test(b, i) = value))

bitmap_contains(b, start, cnt, value) ==
  \E i \in start .. start + cnt - 1 : bitmap_test(b, i) = value

bitmap_scan(b, n, start, cnt, value) ==
  LET found == {i \in start .. n - cnt : ~ bitmap_contains(b, i, cnt, ~ value)}
  IN  IF found = {} THEN BITMAP_ERROR ELSE Min(found)

-----------------------------------------------------------------------------

Nothing == [got |-> 0, due |-> 0]

Init ==
  /\ bit_cnt = NULL
  /\ bits = <<>>
  /\ file = NULL
  /\ array = <<>>
  /\ saved = <<>>
  /\ ret = Nothing

\* malloc leaves anything in the words, the unused bits of the last included.
bitmap_create(n) ==
  /\ bit_cnt = NULL
  /\ bit_cnt' = n
  /\ \E garbage \in [0 .. elem_cnt(n) - 1 -> {{}, 0 .. ELEM_BITS - 1}] :
       bits' = bitmap_set_multiple(garbage, 0, n, FALSE)
  /\ array' = [i \in 0 .. n - 1 |-> FALSE]
  /\ ret' = Nothing
  /\ UNCHANGED <<file, saved>>

flip(i) ==
  /\ bits' = bitmap_flip(bits, i)
  /\ array' = [array EXCEPT ![i] = ~ @]
  /\ ret' = Nothing
  /\ UNCHANGED <<bit_cnt, file, saved>>

set_multiple(start, cnt, value) ==
  /\ bits' = bitmap_set_multiple(bits, start, cnt, value)
  /\ array' = [i \in DOMAIN array |->
                 IF i \in start .. start + cnt - 1 THEN value ELSE array[i]]
  /\ ret' = Nothing
  /\ UNCHANGED <<bit_cnt, file, saved>>

\* bitmap_count, and with it bitmap_any, bitmap_none and bitmap_all.
count(start, cnt, value) ==
  /\ ret' = [got |-> <<bitmap_count(bits, start, cnt, value),
                       bitmap_contains(bits, start, cnt, value)>>,
             due |-> LET S == {i \in start .. start + cnt - 1 : array[i] = value}
                     IN  <<Cardinality(S), S # {}>>]
  /\ UNCHANGED <<bit_cnt, bits, file, array, saved>>

\* Reference: the first group of cnt bits equal to value, read off the array.
FirstGroup(start, cnt, value) ==
  LET groups == {i \in start .. bit_cnt :
                   /\ i + cnt <= bit_cnt
                   /\ \A k \in 0 .. cnt - 1 : array[i + k] = value}
  IN  IF groups = {} THEN BITMAP_ERROR ELSE Min(groups)

\* Of no bits at all the code returns START and its comment says 0: of that
\* result nothing is required.
bitmap_scan_and_flip(start, cnt, value) ==
  LET idx == bitmap_scan(bits, bit_cnt, start, cnt, value)
      due == FirstGroup(start, cnt, value)
  IN  /\ ret' = IF cnt = 0 THEN Nothing ELSE [got |-> idx, due |-> due]
      /\ bits' = IF idx = BITMAP_ERROR THEN bits
                 ELSE bitmap_set_multiple(bits, idx, cnt, ~ value)
      /\ array' = [i \in DOMAIN array |->
                     IF due # BITMAP_ERROR /\ i \in due .. due + cnt - 1
                     THEN ~ value ELSE array[i]]
      /\ UNCHANGED <<bit_cnt, file, saved>>

bitmap_write ==
  /\ file' = bits
  /\ saved' = array
  /\ ret' = Nothing
  /\ UNCHANGED <<bit_cnt, bits, array>>

bitmap_read ==
  /\ file # NULL
  /\ bits' = IF bit_cnt = 0 THEN bits
             ELSE [file EXCEPT ![elem_cnt(bit_cnt) - 1] = @ \cap last_mask(bit_cnt)]
  /\ array' = saved
  /\ ret' = Nothing
  /\ UNCHANGED <<bit_cnt, file, saved>>

Next ==
  \/ \E n \in BitCnts : bitmap_create(n)
  \/ /\ bit_cnt # NULL
     /\ \/ \E i \in 0 .. bit_cnt - 1 : flip(i)
        \/ \E start \in 0 .. bit_cnt, cnt \in 0 .. bit_cnt, value \in BOOLEAN :
             \/ start + cnt <= bit_cnt /\ set_multiple(start, cnt, value)
             \/ start + cnt <= bit_cnt /\ count(start, cnt, value)
             \/ bitmap_scan_and_flip(start, cnt, value)
        \/ bitmap_write
        \/ bitmap_read

Spec == Init /\ [][Next]_vars

-----------------------------------------------------------------------------

\* Word by word, whatever the unused bits of the last word hold, the bitmap is
\* the array of bits its callers believe in: no operation on one bit or one
\* range touches another, a count or a search for a bit or more answers what the
\* array says, and a bitmap read back from its file is the one that was written.
BitsAreTheArray ==
  /\ bit_cnt # NULL => \A i \in 0 .. bit_cnt - 1 : bitmap_test(bits, i) = array[i]
  /\ ret.got = ret.due

=============================================================================
