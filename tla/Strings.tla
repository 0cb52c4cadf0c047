------------------------------ MODULE Strings -------------------------------
(***************************************************************************)
(* lib/string.c at the level of its pointers: one memory, addresses into   *)
(* it, 0 for a null byte and 0 for a null pointer.  Each call is taken on  *)
(* every memory and compared with what its comment promises, stated on the *)
(* strings (sequences) that the pointers denote.                           *)
(***************************************************************************)
EXTENDS Integers, Sequences, FiniteSets, FiniteSetsExt, SequencesExt

CONSTANTS MemSize,   \* bytes of memory; the last one is always null
          Char       \* the characters, positive numbers

VARIABLES mem,       \* the memory
          before,    \* the memory at the call
          call,      \* the call: its function, arguments, or <<>> if none yet
          ret,       \* what it returned
          save_ptr,  \* strtok_r's saved position
          tokens     \* the tokens it returned so far

vars == <<mem, before, call, ret, save_ptr, tokens>>

Addr == 1 .. MemSize

\* The first address from p on whose byte ends the scan.
Scan(m, p, Stop(_)) == Min({q \in p .. MemSize : Stop(m[q])})

strlen(m, s) == Scan(m, s, LAMBDA c : c = 0) - s

strnlen(m, s, maxlen) == LET n == strlen(m, s) IN IF n < maxlen THEN n ELSE maxlen

Ascending(n) == [k \in 1 .. n |-> k - 1]

Copy(m, dst, src, order) ==
  FoldLeft(LAMBDA b, k : [b EXCEPT ![dst + k] = b[src + k]], m, order)

memcpy(m, dst, src, size) == Copy(m, dst, src, Ascending(size))

\* A mutant: always from the low end.
memmove_forward(m, dst, src, size) == memcpy(m, dst, src, size)

memmove(m, dst, src, size) ==
  Copy(m, dst, src,
       IF dst < src THEN Ascending(size) ELSE Reverse(Ascending(size)))

\* The pointer memmove returns has moved with the copy when it went upwards.
memmove_result(dst, src, size) == IF dst < src THEN dst + size ELSE dst

memset(m, dst, value, size) ==
  FoldLeft(LAMBDA b, k : [b EXCEPT ![dst + k] = value], m, Ascending(size))

Sign(x, y) == IF x < y THEN -1 ELSE IF x > y THEN 1 ELSE 0

memcmp(m, a, b, size) ==
  LET differ == {k \in 0 .. size - 1 : m[a + k] # m[b + k]}
  IN  IF differ = {} THEN 0 ELSE Sign(m[a + Min(differ)], m[b + Min(differ)])

strcmp(m, a, b) ==
  LET k == Min({i \in 0 .. MemSize - Max({a, b}) : m[a + i] = 0 \/ m[a + i] # m[b + i]})
  IN  Sign(m[a + k], m[b + k])

memchr(m, block, ch, size) ==
  LET at == {q \in block .. block + size - 1 : m[q] = ch}
  IN  IF at = {} THEN 0 ELSE Min(at)

strchr(m, string, c) ==
  LET q == Scan(m, string, LAMBDA x : x = c \/ x = 0)
  IN  IF m[q] = c THEN q ELSE 0

strcspn(m, string, stop) ==
  Scan(m, string, LAMBDA x : x = 0 \/ strchr(m, stop, x) # 0) - string

strspn(m, string, skip) ==
  Scan(m, string, LAMBDA x : x = 0 \/ strchr(m, skip, x) = 0) - string

strpbrk(m, string, stop) ==
  LET q == Scan(m, string, LAMBDA x : x = 0 \/ strchr(m, stop, x) # 0)
  IN  IF m[q] = 0 THEN 0 ELSE q

strrchr(m, string, c) ==
  LET at == {q \in string .. string + strlen(m, string) - 1 : m[q] = c}
  IN  IF at = {} THEN 0 ELSE Max(at)

strstr(m, haystack, needle) ==
  LET n == strlen(m, needle)
      at == {i \in 0 .. strlen(m, haystack) - n : memcmp(m, haystack + i, needle, n) = 0}
  IN  IF at = {} THEN 0 ELSE haystack + Min(at)

\* strlcpy and strlcat: what they leave in memory; they return the length the
\* whole string would have needed.
strlcpy(m, dst, src, size) ==
  LET n == Min({size - 1, strlen(m, src)})
  IN  IF size = 0 THEN m ELSE [memcpy(m, dst, src, n) EXCEPT ![dst + n] = 0]

strlcat(m, dst, src, size) ==
  LET dst_len == strlen(m, dst)
      n == Min({size - dst_len - 1, strlen(m, src)})
  IN  IF size = 0 \/ dst_len >= size THEN m
      ELSE [memcpy(m, dst + dst_len, src, n) EXCEPT ![dst + dst_len + n] = 0]

\* strtok_r with the one delimiter character d.
strtok_r(m, s, d) ==
  LET token == Scan(m, s, LAMBDA x : x # d)
      end == Scan(m, token, LAMBDA x : x = d \/ x = 0)
  IN  IF m[token] = 0 THEN [mem |-> m, save |-> token, token |-> 0]
      ELSE IF m[end] = 0 THEN [mem |-> m, save |-> end, token |-> token]
      ELSE [mem |-> [m EXCEPT ![end] = 0], save |-> end + 1, token |-> token]

-----------------------------------------------------------------------------

Init ==
  /\ mem \in {m \in [Addr -> Char \cup {0}] : m[MemSize] = 0}
  /\ before = mem
  /\ call = <<>>
  /\ ret = 0
  /\ save_ptr = 0
  /\ tokens = <<>>

Return(c, m, r) ==
  /\ call' = c
  /\ mem' = m
  /\ ret' = r
  /\ UNCHANGED <<before, save_ptr, tokens>>

Fits(p, n) == p + n - 1 <= MemSize

Apart(p, np, q, nq) == p + np <= q \/ q + nq <= p

\* The calls that look at memory.
Query(a, b, c, n) ==
  \/ Return(<<"strnlen", a, n>>, mem, strnlen(mem, a, n))
  \/ Return(<<"strcmp", a, b>>, mem, strcmp(mem, a, b))
  \/ Return(<<"strchr", a, c>>, mem, strchr(mem, a, c))
  \/ Return(<<"strrchr", a, c>>, mem, strrchr(mem, a, c))
  \/ Return(<<"strspn", a, b>>, mem, strspn(mem, a, b))
  \/ Return(<<"strcspn", a, b>>, mem, strcspn(mem, a, b))
  \/ Return(<<"strpbrk", a, b>>, mem, strpbrk(mem, a, b))
  \/ Return(<<"strstr", a, b>>, mem, strstr(mem, a, b))
  \/ Fits(a, n) /\ Return(<<"memchr", a, c, n>>, mem, memchr(mem, a, c, n))
  \/ /\ Fits(a, n)
     /\ Fits(b, n)
     /\ Return(<<"memcmp", a, b, n>>, mem, memcmp(mem, a, b, n))

\* The calls that change it; the ones that copy strings are given room for
\* them, apart from the source.
Change(a, b, c, n) ==
  \/ /\ Fits(a, n)
     /\ Fits(b, n)
     /\ Return(<<"memmove", a, b, n>>, memmove(mem, a, b, n), memmove_result(a, b, n))
  \/ Fits(a, n) /\ Return(<<"memset", a, c, n>>, memset(mem, a, c, n), a)
  \/ /\ Fits(a, n)
     /\ Apart(a, n, b, strlen(mem, b) + 1)
     /\ Return(<<"strlcpy", a, b, n>>, strlcpy(mem, a, b, n), strlen(mem, b))
  \/ /\ Fits(a, n)
     /\ Apart(a, Max({n, strlen(mem, a) + 1}), b, strlen(mem, b) + 1)
     /\ Return(<<"strlcat", a, b, n>>, strlcat(mem, a, b, n),
               strlen(mem, a) + strlen(mem, b))

\* The loop over strtok_r of the function's comment, from the first address.
Tokenize(d) ==
  /\ call = <<>> \/ (call = <<"strtok_r", d>> /\ ret # 0)
  /\ LET r == strtok_r(mem, IF call = <<>> THEN 1 ELSE save_ptr, d)
     IN  /\ mem' = r.mem
         /\ save_ptr' = r.save
         /\ ret' = r.token
         /\ tokens' = IF r.token = 0 THEN tokens ELSE Append(tokens, r.token)
  /\ call' = <<"strtok_r", d>>
  /\ UNCHANGED before

Next ==
  \/ /\ call = <<>>
     /\ \E a, b \in Addr, c \in Char \cup {0}, n \in 0 .. MemSize :
          Query(a, b, c, n) \/ Change(a, b, c, n)
  \/ \E d \in Char : Tokenize(d)

Spec == Init /\ [][Next]_vars

-----------------------------------------------------------------------------
(* What the calls promise, on the strings the pointers denote. *)

Str(m, p) == LET n == CHOOSE k \in 0 .. MemSize - p :
                        m[p + k] = 0 /\ \A i \in 0 .. k - 1 : m[p + i] # 0
             IN  [k \in 1 .. n |-> m[p + k - 1]]

Block(m, p, n) == [k \in 1 .. n |-> m[p + k - 1]]

Precedes(s, t) ==
  \/ \E k \in 1 .. Min({Len(s), Len(t)}) :
       s[k] < t[k] /\ \A i \in 1 .. k - 1 : s[i] = t[i]
  \/ IsStrictPrefix(s, t)

Compares(s, t, r) == (r < 0 <=> Precedes(s, t)) /\ (r > 0 <=> Precedes(t, s))

\* r is the first address of S, null if S is empty.
FirstOf(S, r) == IF S = {} THEN r = 0 ELSE r \in S /\ \A q \in S : r <= q

AnswerIsRight(c) ==
  LET f == c[1]
      p == c[2]
      s == Str(before, p)
      t == Str(before, c[3])
      In(P(_)) == {p + k - 1 : k \in {i \in 1 .. Len(s) : P(s[i])}}
  IN  CASE f = "strnlen" -> ret = Min({Len(s), c[3]})
        [] f = "strcmp" -> Compares(s, t, ret)
        [] f = "strchr" ->
             IF c[3] = 0 THEN ret = p + Len(s) ELSE FirstOf(In(LAMBDA x : x = c[3]), ret)
        [] f = "strrchr" /\ c[3] # 0 ->
             LET S == In(LAMBDA x : x = c[3])
             IN  IF S = {} THEN ret = 0 ELSE ret = Max(S)
        [] f = "strspn" -> ret <= Len(s) /\ \A k \in 1 .. Len(s) :
             (k <= ret => s[k] \in Range(t)) /\ (k = ret + 1 => s[k] \notin Range(t))
        [] f = "strcspn" -> ret <= Len(s) /\ \A k \in 1 .. Len(s) :
             (k <= ret => s[k] \notin Range(t)) /\ (k = ret + 1 => s[k] \in Range(t))
        [] f = "strpbrk" -> FirstOf(In(LAMBDA x : x \in Range(t)), ret)
        [] f = "strstr" ->
             FirstOf({p + i : i \in {j \in 0 .. Len(s) :
                                       IsPrefix(t, SubSeq(s, j + 1, Len(s)))}}, ret)
        [] f = "memchr" -> FirstOf({q \in p .. p + c[4] - 1 : before[q] = c[3]}, ret)
        [] f = "memcmp" -> Compares(Block(before, p, c[4]), Block(before, c[3], c[4]), ret)
        [] f = "strlcpy" -> ret = Len(t)
        [] f = "strlcat" -> ret = Len(s) + Len(t)
        [] OTHER -> TRUE

\* The bytes a call may change, and the string or block it leaves there.
MemoryIsRight(c) ==
  LET f == c[1]
      p == c[2]
      s == Str(before, p)
      t == Str(before, c[3])
      n == c[4]
      Rest(q, k) == \A a \in Addr \ (q .. q + k - 1) : mem[a] = before[a]
  IN  CASE f = "memmove" -> Block(mem, p, n) = Block(before, c[3], n) /\ Rest(p, n)
        [] f = "memset" -> Range(Block(mem, p, n)) \subseteq {c[3]} /\ Rest(p, n)
        [] f = "strlcpy" ->
             /\ n > 0 => Str(mem, p) = SubSeq(t, 1, Min({n - 1, Len(t)}))
             /\ Rest(p, n)
        [] f = "strlcat" ->
             /\ n > Len(s) => Str(mem, p) = SubSeq(s \o t, 1, Min({n - 1, Len(s) + Len(t)}))
             /\ Rest(p, n)
        [] OTHER -> mem = before

\* Where the maximal runs of s free of the delimiter d begin.
TokenStarts(s, d) ==
  {k \in 1 .. Len(s) : s[k] # d /\ (k = 1 \/ s[k - 1] = d)}

\* The tokens of the original string, in order, none skipped and none empty,
\* each ended by a null byte where its delimiter was.
TokensAreRight(d) ==
  LET s == Str(before, 1)
      starts == SetToSortSeq(TokenStarts(s, d), LAMBDA x, y : x < y)
      word(p) == SubSeq(s, p, Min({q \in p .. Len(s) : q = Len(s) \/ s[q + 1] = d}))
  IN  /\ IsPrefix(tokens, starts)
      /\ ret = 0 => tokens = starts
      /\ \A k \in DOMAIN tokens : Str(mem, tokens[k]) = word(tokens[k])

\* Every function of string.c answers what its comment promises, changes no byte
\* but those of its destination, never runs past a terminator, and leaves its
\* destination terminated; a loop over strtok_r meets every token once.  Left out
\* are two results that nobody reads: the pointer of memmove, which is not DST when
\* it copies upwards, and that of strrchr in search of the null byte, which does not
\* find the terminator that strchr finds.
StringsAreRight ==
  \/ call = <<>>
  \/ call[1] = "strtok_r" /\ TokensAreRight(call[2])
  \/ call[1] # "strtok_r" /\ AnswerIsRight(call) /\ MemoryIsRight(call)

=============================================================================
