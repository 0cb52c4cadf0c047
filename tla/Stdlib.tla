------------------------------- MODULE Stdlib -------------------------------
(***************************************************************************)
(* lib/stdlib.c (heap sort, binary search, atoi) and lib/arithmetic.c (the *)
(* division of double-width integers GCC calls for long long), as          *)
(* operators.  WordBits stands for the 32 of a machine word: the division  *)
(* is the same algorithm for every even width.  Each call is taken on the  *)
(* inputs that the constants allow and compared with what it should give.  *)
(***************************************************************************)
EXTENDS Integers, Sequences, FiniteSets, FiniteSetsExt, SequencesExt

CONSTANTS WordBits,   \* bits of a word, a power of two
          Values,     \* elements of the arrays sorted and searched
          MaxLen,     \* length of the longest array or string
          Chars,      \* characters of the strings given to atoi, as ASCII codes
          Numbers     \* double words that are divided, and divided by

VARIABLES call,       \* the call and its arguments, <<>> if none was made
          ret         \* what it returned

vars == <<call, ret>>

-----------------------------------------------------------------------------
(* stdlib.c *)

do_swap(array, a, b) == [array EXCEPT ![a] = array[b], ![b] = array[a]]

RECURSIVE heapify(_, _, _)
heapify(array, i, cnt) ==
  LET left == 2 * i
      right == 2 * i + 1
      max1 == IF left <= cnt /\ array[left] > array[i] THEN left ELSE i
      max == IF right <= cnt /\ array[right] > array[max1] THEN right ELSE max1
  IN  IF max = i THEN array ELSE heapify(do_swap(array, i, max), max, cnt)

Down(from, to) == [k \in 1 .. from - to + 1 |-> from - k + 1]

sort(array) ==
  LET cnt == Len(array)
      heap == FoldLeft(LAMBDA a, i : heapify(a, i, cnt), array, Down(cnt \div 2, 1))
  IN  FoldLeft(LAMBDA a, i : heapify(do_swap(a, 1, i), 1, i - 1), heap, Down(cnt, 2))

\* The index of an element equal to key among first .. last - 1, 0 if none.
RECURSIVE binary_search(_, _, _, _)
binary_search(key, array, first, last) ==
  LET middle == first + ((last - first) \div 2)
  IN  IF first >= last THEN 0
      ELSE IF key < array[middle] THEN binary_search(key, array, first, middle)
      ELSE IF key > array[middle] THEN binary_search(key, array, middle + 1, last)
      ELSE middle

isspace(c) == c \in {9, 10, 11, 12, 13, 32}

isdigit(c) == c \in 48 .. 57

\* The characters of s up to the first for which P fails.
While(s, P(_)) ==
  LET stop == {k \in 1 .. Len(s) : ~ P(s[k])}
  IN  SubSeq(s, 1, IF stop = {} THEN Len(s) ELSE Min(stop) - 1)

From(s, k) == SubSeq(s, k, Len(s))

\* The value is accumulated as a negative number, whose range is the larger.
atoi(s) ==
  LET body == From(s, Len(While(s, isspace)) + 1)
      signed == body # <<>> /\ body[1] \in {43, 45}
      negative == signed /\ body[1] = 45
      digits == While(IF signed THEN Tail(body) ELSE body, isdigit)
      value == FoldLeft(LAMBDA v, c : v * 10 - (c - 48), 0, digits)
  IN  IF negative THEN value ELSE - value

-----------------------------------------------------------------------------
(* arithmetic.c *)

B == 2 ^ WordBits        \* a word holds 0 .. B - 1
BB == B * B              \* a double word 0 .. BB - 1

Trap == -1               \* the divide error #DE

divl(n, d) == IF d = 0 \/ n \div d >= B THEN Trap ELSE n \div d

\* The shifts 16, 8, 4, 2, 1 for 32-bit words.
RECURSIVE nlz_from(_, _)
nlz_from(x, k) ==
  LET zeros == x < 2 ^ (WordBits - k)
  IN  (IF zeros THEN k ELSE 0)
      + (IF k = 1 THEN 0 ELSE nlz_from(IF zeros THEN x * 2 ^ k ELSE x, k \div 2))

nlz(x) == nlz_from(x, WordBits \div 2)

udiv64(n, d) ==
  IF d \div B = 0
  THEN LET q == divl(B * ((n \div B) % d) + (n % B), d)
       IN  IF q = Trap THEN Trap ELSE (q + B * ((n \div B) \div d)) % BB
  ELSE IF n < d THEN 0
  ELSE LET s == nlz(d \div B)
           q0 == divl(n \div 2, ((d * 2 ^ s) % BB) \div B)
           q == q0 \div 2 ^ (WordBits - 1 - s)
       IN  IF q0 = Trap THEN Trap
           ELSE IF (n - (q - 1) * d) % BB < d THEN q - 1 ELSE q

\* The remainder is returned as a word.
umod64(n, d) == ((n - d * udiv64(n, d)) % BB) % B

\* A number of the given range of 2 * m values as a signed one.
AsSigned(x, m) == IF x % (2 * m) < m THEN x % (2 * m) ELSE (x % (2 * m)) - 2 * m

sdiv64(n, d) ==
  LET q_abs == udiv64((IF n >= 0 THEN n ELSE - n) % BB, (IF d >= 0 THEN d ELSE - d) % BB)
  IN  AsSigned(IF (n < 0) = (d < 0) THEN q_abs ELSE - q_abs, BB \div 2)

\* The double words S, read as signed numbers.
Signed(S) == {AsSigned(x, BB \div 2) : x \in S}

smod64(n, d) == AsSigned(n - d * sdiv64(n, d), B \div 2)

-----------------------------------------------------------------------------

Init == call = <<>> /\ ret = 0

Return(c, r) ==
  /\ call' = c
  /\ ret' = r

Next ==
  /\ call = <<>>
  /\ \/ \E array \in SeqOf(Values, MaxLen) : Return(<<"sort", array>>, sort(array))
     \/ \E array \in SeqOf(Values, MaxLen), key \in Values :
          /\ \A k \in 1 .. Len(array) - 1 : array[k] <= array[k + 1]
          /\ Return(<<"binary_search", array, key>>,
                    binary_search(key, array, 1, Len(array) + 1))
     \/ \E s \in SeqOf(Chars, MaxLen) : Return(<<"atoi", s>>, atoi(s))
     \/ \E n \in Numbers, d \in Numbers \ {0} :
          \/ Return(<<"udivdi3", n, d>>, udiv64(n, d))
          \/ Return(<<"umoddi3", n, d>>, umod64(n, d))
     \/ \E n \in Signed(Numbers), d \in Signed(Numbers) \ {0} :
          \/ Return(<<"divdi3", n, d>>, sdiv64(n, d))
          \/ Return(<<"moddi3", n, d>>, smod64(n, d))

Spec == Init /\ [][Next]_vars

-----------------------------------------------------------------------------

Occurrences(s, v) == Cardinality({k \in 1 .. Len(s) : s[k] = v})

\* The number written in decimal at the start of s, after blanks and one sign.
Denotes(s, r) ==
  \E i \in 0 .. Len(s), signs \in 0 .. 1, j \in 0 .. Len(s) :
     LET from == i + signs + 1
         to == i + signs + j
         Digit(k) == s[k] - 48
     IN  /\ to <= Len(s)
         /\ \A k \in 1 .. i : isspace(s[k])
         /\ i < Len(s) => ~ isspace(s[i + 1])
         /\ signs = 1 <=> (i < Len(s) /\ s[i + 1] \in {43, 45})
         /\ \A k \in from .. to : isdigit(s[k])
         /\ to < Len(s) => ~ isdigit(s[to + 1])
         /\ r = (IF signs = 1 /\ s[i + 1] = 45 THEN -1 ELSE 1)
                * MapThenSumSet(LAMBDA k : Digit(k) * 10 ^ (to - k), from .. to)

Abs(x) == IF x < 0 THEN - x ELSE x

\* The quotient of C: q * d is n less a remainder of the sign of n, below d.
Quotient(n, d, q) ==
  /\ Abs(n - q * d) < Abs(d)
  /\ n - q * d = 0 \/ (n - q * d < 0) = (n < 0)

\* sort returns its argument's elements in order; binary_search finds an element
\* if and only if there is one; atoi reads the number its argument starts with;
\* a division never traps and is the quotient, but for the one quotient that is
\* no double word.  Remainders are truncated to a word by umod64 and smod64, which
\* their comments do not say: they are right whenever the divisor fits in a word.
CallsAreRight ==
  \/ call = <<>>
  \/ /\ call[1] = "sort"
     /\ \A k \in 1 .. Len(ret) - 1 : ret[k] <= ret[k + 1]
     /\ \A v \in Values : Occurrences(ret, v) = Occurrences(call[2], v)
  \/ /\ call[1] = "binary_search"
     /\ IF \E k \in DOMAIN call[2] : call[2][k] = call[3]
        THEN ret \in DOMAIN call[2] /\ call[2][ret] = call[3]
        ELSE ret = 0
  \/ call[1] = "atoi" /\ Denotes(call[2], ret)
  \/ call[1] = "udivdi3" /\ ret # Trap /\ Quotient(call[2], call[3], ret)
  \/ call[1] = "umoddi3" /\ (call[3] <= B => ret = call[2] % call[3])
  \/ call[1] = "divdi3" /\ (\/ Quotient(call[2], call[3], ret)
                            \/ call[2] = -(BB \div 2) /\ call[3] = -1)
  \/ /\ call[1] = "moddi3"
     /\ Abs(call[3]) <= B \div 2 =>
          \E q \in -(BB \div 2) .. BB \div 2 :
            Quotient(call[2], call[3], q) /\ ret = call[2] - q * call[3]

=============================================================================
