----------------------------- MODULE LinkedList -----------------------------
(***************************************************************************)
(* The kernel's list (lib/kernel/list.c) with its links: two lists, each   *)
(* with a head and a tail, and the elements that move between them.  Each  *)
(* operation changes the links as the code does, and beside them CONTENTS, *)
(* the sequences of module KernelList that the other modules use in place  *)
(* of lists.                                                               *)
(***************************************************************************)
EXTENDS KernelList, SequencesExt

CONSTANTS
  Value,      \* Value[e]: what LESS compares; the elements are 1..Len(Value)
  NULL

Elem == 1..Len(Value)
List == 1..2

\* The ends of list L.
head(l) == Len(Value) + 2 * l - 1
tail(l) == Len(Value) + 2 * l
Node == Elem \cup {head(l) : l \in List} \cup {tail(l) : l \in List}

VARIABLES
  links,     \* the next and prev fields of all nodes
  contents   \* the sequence that each list stands for

vars == <<links, contents>>

less(a, b) == Value[a] < Value[b]

\* list_init() of both lists.
Init ==
  /\ links = [next |-> [n \in Node |-> IF \E l \in List : n = head(l) THEN n + 1 ELSE NULL],
              prev |-> [n \in Node |-> IF \E l \in List : n = tail(l) THEN n - 1 ELSE NULL]]
  /\ contents = [l \in List |-> <<>>]

list_begin(m, l) == m.next[head(l)]

\* The nodes from A to B (exclusive), following next.
RECURSIVE Walk(_, _, _)
Walk(m, a, b) == IF a = b THEN <<>> ELSE <<a>> \o Walk(m, m.next[a], b)

\* The first node from A on where STOP holds, or B.
Advance(m, a, b, Stop(_)) ==
  LET nodes == Walk(m, a, b)
      i == SelectInSeq(nodes, Stop)
  IN  IF i = 0 THEN b ELSE nodes[i]
-----------------------------------------------------------------------------
(***************************************************************************)
(* Operations on the links.                                                *)
(***************************************************************************)

insert(m, before, elem) ==
  LET p == m.prev[before]
  IN  [next |-> [m.next EXCEPT ![elem] = before, ![p] = elem],
       prev |-> [m.prev EXCEPT ![elem] = p, ![before] = elem]]

remove(m, elem) ==
  [next |-> [m.next EXCEPT ![m.prev[elem]] = m.next[elem]],
   prev |-> [m.prev EXCEPT ![m.next[elem]] = m.prev[elem]]]

\* list_splice(): the assignments in their order, since the ranges may touch.
splice(m, before, first, end) ==
  IF first = end THEN m
  ELSE LET last == m.prev[end]
           out == [next |-> [m.next EXCEPT ![m.prev[first]] = m.next[last]],
                   prev |-> [m.prev EXCEPT ![m.next[last]] = m.prev[first]]]
           p == out.prev[before]
       IN  [next |-> [out.next EXCEPT ![last] = before, ![p] = first],
            prev |-> [out.prev EXCEPT ![first] = p, ![before] = last]]

\* list_reverse(): swap the fields of every element, then those of the ends.
reverse(m, l) ==
  LET inner == Range(Walk(m, list_begin(m, l), tail(l)))
      first == list_begin(m, l)
      last == m.prev[tail(l)]
      swapped == [next |-> [n \in Node |-> IF n \in inner THEN m.prev[n] ELSE m.next[n]],
                  prev |-> [n \in Node |-> IF n \in inner THEN m.next[n] ELSE m.prev[n]]]
  IN  IF inner = {} THEN m
      ELSE [next |-> [swapped.next EXCEPT ![head(l)] = last, ![first] = tail(l)],
            prev |-> [swapped.prev EXCEPT ![tail(l)] = first, ![last] = head(l)]]

\* The end of the run that starts at A: the first element after A that is less
\* than the one before it, or B.
find_end_of_run(m, a, b) == Advance(m, m.next[a], b, LAMBDA n : less(n, m.prev[n]))

RECURSIVE inplace_merge(_, _, _, _)
inplace_merge(m, a0, a1b0, b1) ==
  IF a0 = a1b0 \/ a1b0 = b1 THEN m
  ELSE IF ~less(a1b0, a0) THEN inplace_merge(m, m.next[a0], a1b0, b1)
  ELSE LET end == m.next[a1b0]
       IN  inplace_merge(splice(m, a0, m.prev[end], end), a0, end, b1)

\* One pass of list_sort() from A0 on: the links, and the runs it output.
RECURSIVE SortPass(_, _, _, _)
SortPass(m, l, a0, runs) ==
  IF a0 = tail(l) THEN [m |-> m, runs |-> runs]
  ELSE LET a1b0 == find_end_of_run(m, a0, tail(l))
       IN  IF a1b0 = tail(l) THEN [m |-> m, runs |-> runs + 1]
           ELSE LET b1 == find_end_of_run(m, a1b0, tail(l))
                IN  SortPass(inplace_merge(m, a0, a1b0, b1), l, b1, runs + 1)

RECURSIVE sort(_, _)
sort(m, l) ==
  LET pass == SortPass(m, l, list_begin(m, l), 0)
  IN  IF pass.runs > 1 THEN sort(pass.m, l) ELSE pass.m

insert_ordered(m, l, elem) ==
  insert(m, Advance(m, list_begin(m, l), tail(l), LAMBDA n : less(elem, n)), elem)

\* The loop of list_unique(), with the duplicates moved to list DUPLICATES.
RECURSIVE UniqueFrom(_, _, _, _)
UniqueFrom(m, l, elem, duplicates) ==
  LET next == m.next[elem]
  IN  IF next = tail(l) THEN m
      ELSE IF ~less(elem, next) /\ ~less(next, elem)
      THEN UniqueFrom(insert(remove(m, next), tail(duplicates), next), l, elem, duplicates)
      ELSE UniqueFrom(m, l, next, duplicates)

unique(m, l, duplicates) ==
  IF list_begin(m, l) = tail(l) THEN m ELSE UniqueFrom(m, l, list_begin(m, l), duplicates)

\* list_max() and list_min(): the loop keeps the best element so far.
list_max(m, l) ==
  FoldLeft(LAMBDA max, e : IF max = tail(l) \/ less(max, e) THEN e ELSE max,
           tail(l), Walk(m, list_begin(m, l), tail(l)))

list_min(m, l) ==
  FoldLeft(LAMBDA min, e : IF min = tail(l) \/ less(e, min) THEN e ELSE min,
           tail(l), Walk(m, list_begin(m, l), tail(l)))
-----------------------------------------------------------------------------
(***************************************************************************)
(* The operations, next to what they do to the sequences.                  *)
(***************************************************************************)
Free(e) == \A l \in List : e \notin Elements(contents[l])

After(e) == {n \in Elem : less(e, n)}

Sorted(s) == \A i, j \in 1..Len(s) : i < j => ~less(s[j], s[i])

\* The first of each group of adjacent equal elements, and the others.
Firsts(s) == SelectSeq(s, LAMBDA e : LET i == CHOOSE i \in 1..Len(s) : s[i] = e
                                     IN  i = 1 \/ Value[s[i - 1]] # Value[e])
Others(s) == SelectSeq(s, LAMBDA e : e \notin Elements(Firsts(s)))

\* Before element BEFORE of list L, or at its end: list_push_back(),
\* list_push_front() and list_insert().
list_insert_before(l, i, e) ==
  /\ Free(e)
  /\ links' = insert(links, IF i > Len(contents[l]) THEN tail(l) ELSE contents[l][i], e)
  /\ contents' = [contents EXCEPT ![l] = list_insert(@, i, e)]

\* The fields of E are not read again before E is inserted: whatever they hold,
\* NULL stands for it.
forget(m, e) == [next |-> [m.next EXCEPT ![e] = NULL], prev |-> [m.prev EXCEPT ![e] = NULL]]

\* list_remove(), list_pop_front() and list_pop_back().
list_remove_elem(l, e) ==
  /\ e \in Elements(contents[l])
  /\ links' = forget(remove(links, e), e)
  /\ contents' = [contents EXCEPT ![l] = list_remove(@, e)]

\* list_splice() of elements I to J (exclusive) of list L to the other list.
list_splice(l, i, j, k) ==
  LET s == contents[l]
      o == contents[3 - l]
      node(q, n) == IF n > Len(contents[q]) THEN tail(q) ELSE contents[q][n]
  IN  /\ i <= j /\ j <= Len(s) + 1 /\ k <= Len(o) + 1
      /\ links' = splice(links, node(3 - l, k), node(l, i), node(l, j))
      /\ contents' = [q \in List |->
           IF q = l THEN SubSeq(s, 1, i - 1) \o SubSeq(s, j, Len(s))
           ELSE SubSeq(o, 1, k - 1) \o SubSeq(s, i, j - 1) \o SubSeq(o, k, Len(o))]

list_reverse(l) ==
  /\ links' = reverse(links, l)
  /\ contents' = [contents EXCEPT ![l] = Reverse(@)]

\* Sorting is putting the elements one by one where they belong.
list_sort(l) ==
  /\ links' = sort(links, l)
  /\ contents' = [contents EXCEPT ![l] =
       FoldLeft(LAMBDA s, e : list_insert_ordered(s, e, After(e)), <<>>, @)]

list_insert_in_order(l, e) ==
  /\ Free(e) /\ Sorted(contents[l])
  /\ links' = insert_ordered(links, l, e)
  /\ contents' = [contents EXCEPT ![l] = list_insert_ordered(@, e, After(e))]

list_unique(l) ==
  /\ links' = unique(links, l, 3 - l)
  /\ contents' = [q \in List |-> IF q = l THEN Firsts(contents[l])
                                 ELSE contents[q] \o Others(contents[l])]

Next == \E l \in List :
  \/ \E i \in 1..Len(contents[l]) + 1, e \in Elem : list_insert_before(l, i, e)
  \/ \E e \in Elem : list_remove_elem(l, e) \/ list_insert_in_order(l, e)
  \/ \E i, j, k \in 1..Len(Value) + 1 : list_splice(l, i, j, k)
  \/ list_reverse(l) \/ list_sort(l) \/ list_unique(l)

Spec == Init /\ [][Next]_vars
-----------------------------------------------------------------------------
\* The links always are the sequences: followed forwards and backwards they
\* give the same elements, in the order that the operations of KernelList give,
\* with the natural merge sort stable, and list_max() and list_min() the first
\* of the largest and of the smallest elements.
LinksAreSequences ==
  \A l \in List :
    LET s == Walk(links, list_begin(links, l), tail(l))
    IN  /\ s = contents[l]
        /\ \A i \in 1..Len(s) : links.prev[s[i]] = (IF i = 1 THEN head(l) ELSE s[i - 1])
        /\ links.prev[tail(l)] = (IF s = <<>> THEN head(l) ELSE s[Len(s)])
        /\ s # <<>> =>
             /\ list_max(links, l) = s[CHOOSE i \in 1..Len(s) :
                  \A j \in 1..Len(s) : ~less(s[i], s[j]) /\ (j < i => less(s[j], s[i]))]
             /\ list_min(links, l) = s[CHOOSE i \in 1..Len(s) :
                  \A j \in 1..Len(s) : ~less(s[j], s[i]) /\ (j < i => less(s[i], s[j]))]
=============================================================================
