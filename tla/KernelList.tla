----------------------------- MODULE KernelList -----------------------------
(***************************************************************************)
(* The kernel's doubly linked list (lib/kernel/list.c) as a sequence of    *)
(* elements, front first.  The list threads its links through the elements *)
(* (struct list_elem), so an element can be on one list, at one place, at  *)
(* a time: callers keep that discipline, and the modules that use lists    *)
(* state it as an invariant.                                               *)
(***************************************************************************)
EXTENDS Integers, Sequences, Functions

\* list_begin() to list_end(): the elements on the list.
Elements(list) == Range(list)

\* list_insert(): ELEM goes just before position I; I = Len(list) + 1 is the
\* tail, that is, list_push_back().
list_insert(list, i, elem) ==
  [k \in 1..Len(list) + 1 |-> IF k < i THEN list[k]
                              ELSE IF k = i THEN elem ELSE list[k - 1]]

\* The position where the loop of list_insert_ordered() stops: before the
\* first element that ELEM is less than, or at the tail.  AFTER is the set of
\* elements E for which less (ELEM, E) holds.
OrderedPosition(list, after) ==
  CHOOSE i \in 1..Len(list) + 1 :
    /\ i <= Len(list) => list[i] \in after
    /\ \A j \in 1..i - 1 : list[j] \notin after

list_insert_ordered(list, elem, after) ==
  list_insert(list, OrderedPosition(list, after), elem)

\* list_remove() of the element at some position of a list without duplicates.
list_remove(list, elem) ==
  IF elem \notin Elements(list) THEN list
  ELSE LET at == CHOOSE i \in 1..Len(list) : list[i] = elem
       IN  [k \in 1..Len(list) - 1 |-> IF k < at THEN list[k] ELSE list[k + 1]]

\* No element occurs twice.
NoDuplicates(list) ==
  \A i, j \in 1..Len(list) : list[i] = list[j] => i = j
=============================================================================
