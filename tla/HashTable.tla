----------------------------- MODULE HashTable ------------------------------
(***************************************************************************)
(* The hash table (lib/kernel/hash.c) that holds a process's supplemental  *)
(* page table: its buckets as sequences, the rehashing that ends most      *)
(* operations, which does without new buckets when malloc() has none, and  *)
(* iteration.  Beside it, the elements it should contain.                  *)
(***************************************************************************)
EXTENDS KernelList, SequencesExt

CONSTANTS
  Elem,                  \* elements
  Key,                   \* Key[e]: elements with the same key are equal
  Hash,                  \* Hash[e]: equal for equal elements
  MIN_BUCKETS,           \* 4, a power of two
  BEST_ELEMS_PER_BUCKET, \* 2
  NULL

VARIABLES
  buckets,   \* buckets[i] for i in 0..bucket_cnt - 1
  elem_cnt,
  members,   \* the elements that are in the table
  iter,      \* the iterator: its bucket and its place in it, or NULL
  visited    \* the elements that it has returned

vars == <<buckets, elem_cnt, members, iter, visited>>

bucket_cnt(b) == Cardinality(DOMAIN b)

Init ==
  /\ buckets = [i \in 0..MIN_BUCKETS - 1 |-> <<>>] /\ elem_cnt = 0
  /\ members = {} /\ iter = NULL /\ visited = <<>>

\* The bucket count is a power of two: the mask is a remainder.
find_bucket(b, e) == Hash[e] % bucket_cnt(b)

\* find_elem(), in bucket I: an element equal to E, or NULL.
find_elem(b, i, e) ==
  LET found == SelectInSeq(b[i], LAMBDA f : Key[f] = Key[e])
  IN  IF found = 0 THEN NULL ELSE b[i][found]

hash_find(b, e) == find_elem(b, find_bucket(b, e), e)

insert_elem(b, i, e) == [b EXCEPT ![i] = <<e>> \o @]

remove_elem(b, e) == [i \in DOMAIN b |-> list_remove(b[i], e)]

\* The largest power of two up to X: the lowest bits turned off one by one.
PowerOf2(x) == CHOOSE p \in {2^i : i \in 0..15} : p <= x /\ 2 * p > x

new_bucket_cnt(cnt) ==
  LET best == cnt \div BEST_ELEMS_PER_BUCKET
  IN  PowerOf2(IF best < MIN_BUCKETS THEN MIN_BUCKETS ELSE best)

\* Mutant of rehash(): the elements stay in the buckets with their old numbers.
rehash_in_place(b, cnt, memory) ==
  LET new == new_bucket_cnt(cnt)
  IN  IF new = bucket_cnt(b) \/ ~memory THEN b
      ELSE [i \in 0..new - 1 |->
              IF i \in DOMAIN b THEN b[i] ELSE <<>>]

\* rehash() for CNT elements: the old buckets are emptied in order into the new
\* ones, unless there is no memory for these.
rehash(b, cnt, memory) ==
  LET new == new_bucket_cnt(cnt)
      empty == [i \in 0..new - 1 |-> <<>>]
      order == FlattenSeq([i \in 1..bucket_cnt(b) |-> b[i - 1]])
  IN  IF new = bucket_cnt(b) \/ ~memory THEN b
      ELSE FoldLeft(LAMBDA n, e : insert_elem(n, find_bucket(n, e), e), empty, order)

\* The table becomes B with CNT elements; iterators are no longer valid.
Modify(b, cnt) ==
  /\ \E memory \in BOOLEAN : buckets' = rehash(b, cnt, memory)
  /\ elem_cnt' = cnt
  /\ iter' = NULL /\ visited' = <<>>

hash_insert(e) ==
  /\ e \notin members
  /\ IF hash_find(buckets, e) = NULL
     THEN /\ Modify(insert_elem(buckets, find_bucket(buckets, e), e), elem_cnt + 1)
          /\ members' = members \cup {e}
     ELSE Modify(buckets, elem_cnt) /\ UNCHANGED members

hash_replace(e) ==
  LET old == hash_find(buckets, e)
      i == find_bucket(buckets, e)
  IN  /\ e \notin members
      /\ IF old = NULL
         THEN Modify(insert_elem(buckets, i, e), elem_cnt + 1)
         ELSE Modify(insert_elem(remove_elem(buckets, old), i, e), elem_cnt)
      /\ members' = {m \in members : Key[m] # Key[e]} \cup {e}

hash_delete(e) ==
  LET found == hash_find(buckets, e)
  IN  /\ IF found # NULL
         THEN Modify(remove_elem(buckets, found), elem_cnt - 1)
         ELSE UNCHANGED <<buckets, elem_cnt, iter, visited>>
      /\ members' = {m \in members : Key[m] # Key[e]}

\* hash_clear(), and hash_destroy() up to the free of the buckets.
hash_clear ==
  /\ buckets' = [i \in DOMAIN buckets |-> <<>>] /\ elem_cnt' = 0
  /\ members' = {} /\ iter' = NULL /\ visited' = <<>>

\* hash_first(), before the first element of the first bucket.
hash_first ==
  /\ iter' = [bucket |-> 0, place |-> 0] /\ visited' = <<>>
  /\ UNCHANGED <<buckets, elem_cnt, members>>

\* hash_next(): the next element, in the next bucket that has one if need be.
hash_next ==
  LET later == {i \in DOMAIN buckets : i > iter.bucket /\ buckets[i] # <<>>}
      here == iter.place < Len(buckets[iter.bucket])
      next == IF here THEN [iter EXCEPT !.place = @ + 1]
              ELSE IF later = {} THEN NULL
              ELSE [bucket |-> CHOOSE i \in later : \A j \in later : i <= j, place |-> 1]
  IN  /\ iter # NULL
      /\ iter' = next
      /\ visited' = IF next = NULL THEN <<>>
                    ELSE Append(visited, buckets[next.bucket][next.place])
      /\ UNCHANGED <<buckets, elem_cnt, members>>

Next ==
  \/ \E e \in Elem : hash_insert(e) \/ hash_replace(e) \/ hash_delete(e)
  \/ hash_clear \/ hash_first \/ hash_next

Spec == Init /\ [][Next]_vars
-----------------------------------------------------------------------------
\* The table is the set of its members, through every resizing, whether or not
\* there was memory for it: each is found under its key and counted once.
HoldsMembers ==
  /\ elem_cnt = Cardinality(members)
  /\ \A e \in Elem : hash_find(buckets, e) =
       IF \E m \in members : Key[m] = Key[e]
       THEN CHOOSE m \in members : Key[m] = Key[e] ELSE NULL
  /\ UNION {Range(buckets[i]) : i \in DOMAIN buckets} = members

\* An iteration that nobody disturbs returns every member, and none twice.
IterationIsComplete ==
  /\ NoDuplicates(visited) /\ Range(visited) \subseteq members
  /\ (iter # NULL /\ iter.place = Len(buckets[iter.bucket])
        /\ \A i \in DOMAIN buckets : i > iter.bucket => buckets[i] = <<>>) =>
       Range(visited) = members
=============================================================================
