-------------------------- MODULE KernelListProofs --------------------------
(***************************************************************************)
(* What the operations of lib/kernel/list.c do to the elements, to the     *)
(* absence of duplicates and to the order of a list.                       *)
(***************************************************************************)
EXTENDS KernelList, WellFoundedInduction, TLAPS

\* A non-empty set of natural numbers has a least element.
LEMMA LeastNatural ==
  ASSUME NEW S, S \subseteq Nat, S # {}
  PROVE  \E m \in S : \A n \in S : m <= n
<1>1. \E x \in S : \A y \in S : ~ (<<y, x>> \in OpToRel(<, Nat))
  BY NatLessThanWellFounded, WFMin
<1>2. PICK x \in S : \A y \in S : ~ (<<y, x>> \in OpToRel(<, Nat))
  BY <1>1
<1>3. ASSUME NEW y \in S PROVE x <= y
  <2>1. <<y, x>> \notin OpToRel(<, Nat)
    BY <1>2
  <2>2. <<y, x>> \in Nat \X Nat
    OBVIOUS
  <2>3. ~ (y < x)
    BY <2>1, <2>2 DEF OpToRel
  <2> QED BY <2>3
<1> QED BY <1>3

\* The loop of list_insert_ordered() stops at a position of the list or its
\* tail, before the first element that ELEM is less than.
LEMMA OrderedPositionExists ==
  ASSUME NEW S, NEW list \in Seq(S), NEW after
  PROVE  LET i == OrderedPosition(list, after)
         IN  /\ i \in 1..Len(list) + 1
             /\ i <= Len(list) => list[i] \in after
             /\ \A j \in 1..i - 1 : list[j] \notin after
<1> DEFINE Stops == {i \in 1..Len(list) + 1 : i <= Len(list) => list[i] \in after}
<1>1. Stops \subseteq Nat /\ Len(list) + 1 \in Stops
  OBVIOUS
<1>2. PICK m \in Stops : \A n \in Stops : m <= n
  BY Zenon, <1>1, LeastNatural
<1>3. ASSUME NEW j \in 1..m - 1 PROVE list[j] \notin after
  <2>1. j \in 1..Len(list) + 1 /\ j < m
    OBVIOUS
  <2>2. j \notin Stops
    BY <1>2, <2>1
  <2> QED BY <2>1, <2>2
<1>4. \E i \in 1..Len(list) + 1 :
        /\ i <= Len(list) => list[i] \in after
        /\ \A j \in 1..i - 1 : list[j] \notin after
  BY <1>3
<1> QED BY Zenon, <1>4 DEF OrderedPosition

\* list_insert(): the elements are those of the list and ELEM, none twice.
LEMMA InsertElements ==
  ASSUME NEW S, NEW list \in Seq(S), NEW elem \in S, NEW i \in 1..Len(list) + 1
  PROVE  /\ list_insert(list, i, elem) \in Seq(S)
         /\ Len(list_insert(list, i, elem)) = Len(list) + 1
         /\ Elements(list_insert(list, i, elem)) = Elements(list) \cup {elem}
         /\ NoDuplicates(list) /\ elem \notin Elements(list)
              => NoDuplicates(list_insert(list, i, elem))
<1> DEFINE r == list_insert(list, i, elem)
<1>1. \A k \in 1..Len(list) + 1 :
        r[k] = IF k < i THEN list[k] ELSE IF k = i THEN elem ELSE list[k - 1]
  BY DEF list_insert
<1>2. \A k \in 1..Len(list) + 1 : r[k] \in S
  BY <1>1
<1>3. r \in Seq(S) /\ Len(r) = Len(list) + 1 /\ DOMAIN r = 1..Len(list) + 1
  BY <1>2 DEF list_insert
<1>4. Elements(r) = Elements(list) \cup {elem}
  <2>1. ASSUME NEW x \in Elements(r) PROVE x \in Elements(list) \cup {elem}
    <3>1. PICK k \in 1..Len(list) + 1 : x = r[k]
      BY <1>3 DEF Elements, Range
    <3>2. k < i => k \in 1..Len(list)
      OBVIOUS
    <3>3. k > i => k - 1 \in 1..Len(list)
      OBVIOUS
    <3> QED BY <1>1, <3>1, <3>2, <3>3 DEF Elements, Range
  <2>2. elem \in Elements(r)
    BY SMTT(20), <1>1, <1>3 DEF Elements, Range
  <2>3. ASSUME NEW x \in Elements(list) PROVE x \in Elements(r)
    <3>1. PICK k \in 1..Len(list) : x = list[k]
      BY DEF Elements, Range
    <3>2. k < i => r[k] = x
      BY <1>1, <3>1
    <3>3. k >= i => r[k + 1] = x
      BY <1>1, <3>1
    <3> QED BY <1>3, <3>2, <3>3 DEF Elements, Range
  <2> QED BY <2>1, <2>2, <2>3
<1>5. ASSUME NoDuplicates(list), elem \notin Elements(list)
      PROVE  NoDuplicates(r)
  <2>1. \A k \in 1..Len(list) : list[k] # elem
    BY <1>5 DEF Elements, Range
  <2>2. SUFFICES ASSUME NEW j \in 1..Len(list) + 1, NEW k \in 1..Len(list) + 1, r[j] = r[k]
                 PROVE  j = k
    BY <1>3 DEF NoDuplicates
  <2>3. \A p, q \in 1..Len(list) : list[p] = list[q] => p = q
    BY <1>5 DEF NoDuplicates
  <2> DEFINE Old(m) == IF m < i THEN m ELSE m - 1
  <2>4. ASSUME NEW m \in 1..Len(list) + 1, m # i
        PROVE  Old(m) \in 1..Len(list) /\ r[m] = list[Old(m)]
    BY SMT, <1>1, <2>4
  <2>5. r[i] = elem
    BY SMT, <1>1
  <2>6. (j = i) <=> (k = i)
    BY <2>1, <2>2, <2>4, <2>5, Zenon
  <2>7. ASSUME j # i, k # i PROVE Old(j) = Old(k)
    <3> HIDE DEF Old
    <3> QED BY <2>2, <2>3, <2>4, <2>7, Zenon
  <2>8. ASSUME j # i, k # i, Old(j) = Old(k) PROVE j = k
    BY SMT, <2>8
  <2> QED BY <2>6, <2>7, <2>8, Zenon
<1> QED BY <1>3, <1>4, <1>5

\* list_insert_ordered() adds one element and no duplicate.
LEMMA InsertOrderedElements ==
  ASSUME NEW S, NEW list \in Seq(S), NEW elem \in S, NEW after
  PROVE  LET r == list_insert_ordered(list, elem, after)
         IN  /\ r \in Seq(S)
             /\ r # <<>>
             /\ Elements(r) = Elements(list) \cup {elem}
             /\ NoDuplicates(list) /\ elem \notin Elements(list) => NoDuplicates(r)
<1>1. OrderedPosition(list, after) \in 1..Len(list) + 1
  BY OrderedPositionExists
<1>2. Len(list_insert_ordered(list, elem, after)) = Len(list) + 1
  BY <1>1, InsertElements DEF list_insert_ordered
<1> QED BY <1>1, <1>2, InsertElements DEF list_insert_ordered

\* list_pop_front(): the front element leaves, the others stay.
LEMMA PopFrontElements ==
  ASSUME NEW S, NEW list \in Seq(S), list # <<>>
  PROVE  /\ Head(list) \in S
         /\ Head(list) \in Elements(list)
         /\ Tail(list) \in Seq(S)
         /\ Elements(list) = Elements(Tail(list)) \cup {Head(list)}
         /\ NoDuplicates(list) => /\ NoDuplicates(Tail(list))
                                  /\ Head(list) \notin Elements(Tail(list))
<1>1. /\ Len(list) >= 1 /\ Head(list) = list[1]
      /\ Tail(list) \in Seq(S) /\ Len(Tail(list)) = Len(list) - 1
      /\ \A k \in 1..Len(list) - 1 : Tail(list)[k] = list[k + 1]
  OBVIOUS
<1>2. Head(list) \in S /\ Head(list) \in Elements(list)
  BY <1>1 DEF Elements, Range
<1>3. ASSUME NEW x \in Elements(list) PROVE x \in Elements(Tail(list)) \cup {Head(list)}
  <2>1. PICK k \in 1..Len(list) : x = list[k]
    BY DEF Elements, Range
  <2>2. k # 1 => k - 1 \in 1..Len(list) - 1 /\ Tail(list)[k - 1] = x
    BY <1>1, <2>1
  <2>3. k = 1 => x = Head(list)
    BY <1>1, <2>1
  <2>4. k # 1 => x \in Elements(Tail(list))
    <3>1. DOMAIN Tail(list) = 1..Len(list) - 1
      BY <1>1
    <3> HIDE <1>1
    <3> QED BY Zenon, <2>2, <3>1 DEF Elements, Range
  <2> QED BY <2>3, <2>4
<1>4. ASSUME NEW x \in Elements(Tail(list)) PROVE x \in Elements(list)
  <2>1. PICK k \in 1..Len(list) - 1 : x = Tail(list)[k]
    BY <1>1 DEF Elements, Range
  <2> QED BY <1>1, <2>1 DEF Elements, Range
<1>5. ASSUME NoDuplicates(list)
      PROVE  NoDuplicates(Tail(list)) /\ Head(list) \notin Elements(Tail(list))
  <2>1. NoDuplicates(Tail(list))
    BY <1>1, <1>5 DEF NoDuplicates
  <2>2. ASSUME Head(list) \in Elements(Tail(list)) PROVE FALSE
    <3>1. PICK k \in 1..Len(list) - 1 : list[1] = Tail(list)[k]
      BY <1>1, <2>2 DEF Elements, Range
    <3> QED BY <1>1, <1>5, <3>1 DEF NoDuplicates
  <2> QED BY <2>1, <2>2
<1> QED BY <1>1, <1>2, <1>3, <1>4, <1>5

\* list_push_back() adds one element and no duplicate.
LEMMA PushBackElements ==
  ASSUME NEW S, NEW list \in Seq(S), NEW elem \in S
  PROVE  /\ Append(list, elem) \in Seq(S)
         /\ Elements(Append(list, elem)) = Elements(list) \cup {elem}
         /\ NoDuplicates(list) /\ elem \notin Elements(list)
              => NoDuplicates(Append(list, elem))
<1>1. /\ Append(list, elem) \in Seq(S) /\ Len(Append(list, elem)) = Len(list) + 1
      /\ \A k \in 1..Len(list) : Append(list, elem)[k] = list[k]
      /\ Append(list, elem)[Len(list) + 1] = elem
  OBVIOUS
<1>2. ASSUME NEW x \in Elements(Append(list, elem)) PROVE x \in Elements(list) \cup {elem}
  <2>1. PICK k \in 1..Len(list) + 1 : x = Append(list, elem)[k]
    BY <1>1 DEF Elements, Range
  <2> QED BY <1>1, <2>1 DEF Elements, Range
<1>3. ASSUME NEW x \in Elements(list) \cup {elem} PROVE x \in Elements(Append(list, elem))
  BY <1>1 DEF Elements, Range
<1>4. NoDuplicates(list) /\ elem \notin Elements(list) => NoDuplicates(Append(list, elem))
  BY <1>1 DEF NoDuplicates, Elements, Range
<1> QED BY <1>1, <1>2, <1>3, <1>4

\* list_push_front(): the elements are those of the list and ELEM, none twice.
LEMMA PushFrontElements ==
  ASSUME NEW S, NEW list \in Seq(S), NEW elem \in S
  PROVE  /\ <<elem>> \o list \in Seq(S)
         /\ Elements(<<elem>> \o list) = Elements(list) \cup {elem}
         /\ NoDuplicates(list) /\ elem \notin Elements(list) => NoDuplicates(<<elem>> \o list)
<1> DEFINE r == <<elem>> \o list
<1>1. /\ r \in Seq(S) /\ Len(r) = Len(list) + 1 /\ Len(list) \in Nat
      /\ DOMAIN list = 1..Len(list) /\ DOMAIN r = 1..Len(list) + 1
      /\ r[1] = elem /\ \A k \in 1..Len(list) : r[k + 1] = list[k]
  BY SMTT(20)
<1> HIDE DEF r
<1>2. /\ \A k \in 2..Len(list) + 1 : k - 1 \in 1..Len(list) /\ r[k] = list[k - 1]
      /\ \A k \in 1..Len(list) : k + 1 \in 2..Len(list) + 1 /\ k + 1 \in 1..Len(list) + 1
      /\ 1..Len(list) + 1 = {1} \cup (2..Len(list) + 1)
  BY SMTT(20), <1>1
<1>3. Elements(r) = Elements(list) \cup {elem}
  <2>1. \A k \in DOMAIN r : r[k] \in Elements(list) \cup {elem}
    BY Zenon, <1>1, <1>2 DEF Elements, Range
  <2>2. \A k \in DOMAIN list : list[k] \in Elements(r)
    BY Zenon, <1>1, <1>2 DEF Elements, Range
  <2>3. elem \in Elements(r)
    BY Zenon, <1>1, <1>2 DEF Elements, Range
  <2> QED BY Zenon, <2>1, <2>2, <2>3 DEF Elements, Range
<1>4. ASSUME NoDuplicates(list), elem \notin Elements(list)
      PROVE  NoDuplicates(r)
  <2>1. \A k \in 1..Len(list) : list[k] # elem
    BY Zenon, <1>1, <1>4 DEF Elements, Range
  <2>2. \A j, k \in 2..Len(list) + 1 : r[j] = r[k] => j = k
    <3>1. \A j, k \in 2..Len(list) + 1 : r[j] = r[k] => j - 1 = k - 1
      BY Zenon, <1>2, <1>4 DEF NoDuplicates
    <3> QED BY SMTT(20), <1>1, <3>1
  <2>3. \A k \in 2..Len(list) + 1 : r[k] # r[1]
    BY Zenon, <1>1, <1>2, <2>1
  <2> QED BY Zenon, <1>1, <1>2, <2>2, <2>3 DEF NoDuplicates
<1> QED BY Zenon, <1>1, <1>3, <1>4 DEF r

\* list_remove() takes out the one element and leaves the others.
LEMMA RemoveElements ==
  ASSUME NEW S, NEW list \in Seq(S), NEW elem \in Elements(list), NoDuplicates(list)
  PROVE  /\ list_remove(list, elem) \in Seq(S)
         /\ Elements(list_remove(list, elem)) = Elements(list) \ {elem}
         /\ NoDuplicates(list_remove(list, elem))
<1> DEFINE r == list_remove(list, elem)
           at == CHOOSE i \in 1..Len(list) : list[i] = elem
<1>1. at \in 1..Len(list) /\ list[at] = elem
  <2>1. \E i \in 1..Len(list) : list[i] = elem
    BY DEF Elements, Range
  <2> QED BY Zenon, <2>1
<1>2. r = [k \in 1..Len(list) - 1 |-> IF k < at THEN list[k] ELSE list[k + 1]]
  BY Zenon DEF list_remove
<1> HIDE DEF at, r
<1>3. \A k \in 1..Len(list) - 1 : r[k] = IF k < at THEN list[k] ELSE list[k + 1]
  BY Zenon, <1>2
<1>4. \A k \in 1..Len(list) - 1 : r[k] \in S
  BY <1>1, <1>3
<1>5. r \in Seq(S) /\ Len(r) = Len(list) - 1 /\ DOMAIN r = 1..Len(list) - 1
  BY <1>1, <1>2, <1>4
<1>6. ASSUME NEW x \in Elements(r) PROVE x \in Elements(list) \ {elem}
  <2>1. PICK k \in 1..Len(list) - 1 : x = r[k]
    BY <1>5 DEF Elements, Range
  <2>2. PICK j \in 1..Len(list) : x = list[j] /\ j # at
    BY <1>1, <1>3, <2>1
  <2>3. x # elem
    BY <1>1, <2>2 DEF NoDuplicates
  <2> QED BY <2>2, <2>3 DEF Elements, Range
<1>7. ASSUME NEW x \in Elements(list) \ {elem} PROVE x \in Elements(r)
  <2>1. PICK j \in 1..Len(list) : x = list[j]
    BY DEF Elements, Range
  <2>2. j # at
    BY <1>1, <2>1
  <2>3. PICK k \in 1..Len(list) - 1 : x = r[k]
    <3>1. CASE j < at
      BY <1>1, <1>3, <2>1, <3>1
    <3>2. CASE j > at
      <4>1. j - 1 \in 1..Len(list) - 1 /\ ~ (j - 1 < at) /\ (j - 1) + 1 = j
        BY <1>1, <3>2
      <4> QED BY <1>3, <2>1, <4>1
    <3> QED BY <1>1, <2>2, <3>1, <3>2
  <2> QED BY <1>5, <2>3 DEF Elements, Range
<1>8. NoDuplicates(r)
  <2>1. ASSUME NEW j \in 1..Len(list) - 1, NEW k \in 1..Len(list) - 1, r[j] = r[k]
        PROVE  j = k
    BY <1>1, <1>3, <2>1 DEF NoDuplicates
  <2> QED BY <1>5, <2>1 DEF NoDuplicates
<1> QED BY <1>5, <1>6, <1>7, <1>8 DEF r

\* A list is empty exactly when it has no elements.
LEMMA EmptyElements ==
  ASSUME NEW S, NEW list \in Seq(S)
  PROVE  /\ list = <<>> <=> Elements(list) = {}
         /\ Elements(list) \subseteq S
<1>1. Elements(list) \subseteq S
  BY DEF Elements, Range
<1>2. list = <<>> => Elements(list) = {}
  BY DEF Elements, Range
<1>3. list # <<>> => list[1] \in Elements(list)
  BY DEF Elements, Range
<1> QED BY <1>1, <1>2, <1>3

\* list_init(): an empty list.
LEMMA EmptyList ==
  ASSUME NEW S
  PROVE  <<>> \in Seq(S) /\ Elements(<<>>) = {} /\ NoDuplicates(<<>>)
  BY DEF Elements, Range, NoDuplicates

\* The keys of the elements ascend from front to back.
SortedBy(list, key) ==
  \A i, j \in 1..Len(list) : i < j => key[list[i]] <= key[list[j]]

\* list_insert_ordered() keeps a sorted list sorted: the elements it passes have
\* keys up to ELEM's, the one it stops at and those behind it have larger ones.
LEMMA InsertOrderedSorted ==
  ASSUME NEW S, NEW list \in Seq(S), NEW elem \in S, NEW key \in [S -> Int],
         NEW after, \A x \in S : x \in after <=> key[x] > key[elem],
         SortedBy(list, key)
  PROVE  SortedBy(list_insert_ordered(list, elem, after), key)
<1> DEFINE at == OrderedPosition(list, after)
           r == list_insert(list, at, elem)
<1>1. /\ at \in 1..Len(list) + 1
      /\ at <= Len(list) => list[at] \in after
      /\ \A j \in 1..at - 1 : list[j] \notin after
  BY Zenon, OrderedPositionExists
<1>2. Len(r) = Len(list) + 1
  BY Zenon, <1>1, InsertElements
<1>3. \A k \in 1..Len(list) + 1 :
        r[k] = IF k < at THEN list[k] ELSE IF k = at THEN elem ELSE list[k - 1]
  BY Zenon DEF list_insert
<1>4. list_insert_ordered(list, elem, after) = r
  BY Zenon DEF list_insert_ordered
<1>5. \A j \in 1..Len(list) : list[j] \in S
  OBVIOUS
<1>6. ASSUME NEW j \in 1..Len(list), j < at PROVE key[list[j]] <= key[elem]
  BY <1>1, <1>5, <1>6
<1>7. ASSUME NEW j \in 1..Len(list), at <= j PROVE key[elem] <= key[list[j]]
  <2>1. at \in 1..Len(list) /\ key[elem] < key[list[at]]
    BY <1>1, <1>7
  <2>2. key[list[at]] <= key[list[j]]
    BY <1>5, <1>7, <2>1 DEF SortedBy
  <2> QED BY <1>5, <2>1, <2>2
<1> HIDE DEF at, r
<1>8. ASSUME NEW i \in 1..Len(list) + 1, NEW j \in 1..Len(list) + 1, i < j
      PROVE  key[r[i]] <= key[r[j]]
  <2>1. CASE j < at
    <3>1. i \in 1..Len(list) /\ j \in 1..Len(list) /\ i < at
      BY ONLY <1>1, <1>8, <2>1, Len(list) \in Nat, i \in 1..Len(list) + 1, j \in 1..Len(list) + 1
    <3>2. r[i] = list[i] /\ r[j] = list[j]
      BY Zenon, <1>3, <2>1, <3>1
    <3> QED BY Zenon, <1>8, <3>1, <3>2 DEF SortedBy
  <2>2. CASE j = at
    <3>1. i \in 1..Len(list) /\ i < at /\ ~ (j < at)
      BY ONLY <1>1, <1>8, <2>2, Len(list) \in Nat, i \in 1..Len(list) + 1, j \in 1..Len(list) + 1
    <3>2. r[i] = list[i] /\ r[j] = elem
      BY Zenon, <1>3, <2>2, <3>1
    <3> QED BY Zenon, <1>6, <3>1, <3>2
  <2>3. CASE j > at
    <3>1. /\ j - 1 \in 1..Len(list) /\ at <= j - 1 /\ ~ (j < at) /\ j # at
          /\ i < at => i \in 1..Len(list) /\ i < j - 1
          /\ i > at => i - 1 \in 1..Len(list) /\ i - 1 < j - 1 /\ ~ (i < at) /\ i # at
          /\ i < at \/ i = at \/ i > at
      BY ONLY <1>1, <1>8, <2>3, Len(list) \in Nat, i \in 1..Len(list) + 1, j \in 1..Len(list) + 1
    <3>2. r[j] = list[j - 1]
      BY Zenon, <1>3, <3>1
    <3>3. CASE i = at
      <4>1. r[i] = elem
        BY <1>1, <1>3, <3>3
      <4> QED BY Zenon, <1>7, <3>1, <3>2, <4>1
    <3>4. CASE i < at
      <4>1. r[i] = list[i]
        BY Zenon, <1>3, <3>4
      <4> QED BY Zenon, <3>1, <3>2, <3>4, <4>1 DEF SortedBy
    <3>5. CASE i > at
      <4>1. r[i] = list[i - 1]
        BY Zenon, <1>3, <3>1, <3>5
      <4> QED BY Zenon, <3>1, <3>2, <3>5, <4>1 DEF SortedBy
    <3> QED BY <3>1, <3>3, <3>4, <3>5
  <2>4. j < at \/ j = at \/ j > at
    BY ONLY <1>1, Len(list) \in Nat, j \in 1..Len(list) + 1
  <2> QED BY <2>1, <2>2, <2>3, <2>4
<1> QED BY <1>2, <1>4, <1>8 DEF SortedBy

\* The front of a sorted list has the least key, and list_pop_front() leaves a
\* sorted list.
LEMMA PopFrontSorted ==
  ASSUME NEW S, NEW list \in Seq(S), NEW key \in [S -> Int], SortedBy(list, key), list # <<>>
  PROVE  /\ SortedBy(Tail(list), key)
         /\ \A x \in Elements(list) : key[Head(list)] <= key[x]
<1>1. /\ Len(list) >= 1 /\ Head(list) = list[1]
      /\ Len(Tail(list)) = Len(list) - 1
      /\ \A k \in 1..Len(list) - 1 : Tail(list)[k] = list[k + 1]
      /\ \A k \in 1..Len(list) : key[list[k]] \in Int
  OBVIOUS
<1>2. SortedBy(Tail(list), key)
  BY <1>1 DEF SortedBy
<1>3. ASSUME NEW x \in Elements(list) PROVE key[Head(list)] <= key[x]
  <2>1. PICK k \in 1..Len(list) : x = list[k]
    BY DEF Elements, Range
  <2>2. k = 1 \/ 1 < k
    OBVIOUS
  <2> QED BY <1>1, <2>1, <2>2 DEF SortedBy
<1> QED BY <1>2, <1>3
=============================================================================
