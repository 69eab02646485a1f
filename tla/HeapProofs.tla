---- MODULE HeapProofs ----
(***************************************************************************)
(* Proofs about Heap for every size of pages, headers and heap, every      *)
(* alignment, and every sequence of calls and failures.                    *)
(***************************************************************************)
EXTENDS Heap, SequenceTheorems, TLAPS

(***************************************************************************)
(* Arithmetic                                                              *)
(***************************************************************************)
LEMMA Multiple ==
  ASSUME NEW d \in Nat \ {0}, NEW x \in Int
  PROVE  x % d = 0 <=> \E k \in Int : x = k * d
<1>1. x \div d \in Int /\ x % d \in 0 .. d - 1 /\ x = d * (x \div d) + (x % d)
  OBVIOUS
<1>2. ASSUME x % d = 0 PROVE \E k \in Int : x = k * d
  <2>1. x = (x \div d) * d
    BY <1>1, <1>2
  <2> QED BY <1>1, <2>1
<1>3. ASSUME NEW k \in Int, x = k * d PROVE x % d = 0
  <2> DEFINE q == x \div d
  <2>1. q \in Int /\ (k - q) * d = x % d
    BY <1>1, <1>3
  <2> HIDE DEF q
  <2>2. \A m \in Int : m >= 1 => m * d >= d
    OBVIOUS
  <2>3. \A m \in Int : m <= -1 => m * d <= -d
    OBVIOUS
  <2>4. k - q \in Int /\ (k - q >= 1 \/ k - q <= -1 \/ k - q = 0)
    BY <2>1
  <2>5. k - q = 0
    BY <1>1, <2>1, <2>2, <2>3, <2>4
  <2>6. 0 * d = 0
    OBVIOUS
  <2> QED BY <2>1, <2>5, <2>6
<1> QED BY <1>2, <1>3

LEMMA Sums ==
  ASSUME NEW d \in Nat \ {0}, NEW x \in Int, NEW y \in Int, x % d = 0, y % d = 0
  PROVE  (x + y) % d = 0 /\ (x - y) % d = 0
<1>1. PICK k \in Int : x = k * d
  BY Multiple
<1>2. PICK l \in Int : y = l * d
  BY Multiple
<1>3. /\ k + l \in Int /\ x + y = (k + l) * d
      /\ k - l \in Int /\ x - y = (k - l) * d
  BY <1>1, <1>2
<1>4. x + y \in Int /\ x - y \in Int
  OBVIOUS
<1> QED BY <1>3, <1>4, Multiple

LEMMA Products ==
  ASSUME NEW d \in Nat \ {0}, NEW x \in Int, NEW n \in Int, x % d = 0
  PROVE  (n * x) % d = 0
<1>1. PICK k \in Int : x = k * d
  BY Multiple
<1>2. n * k \in Int /\ n * x = (n * k) * d /\ n * x \in Int
  BY <1>1
<1> QED BY <1>2, Multiple

LEMMA CutEven ==
  ASSUME NEW d \in Nat \ {0}, NEW x \in Int, NEW y \in Int, NEW z \in Int,
         x % d = 0, y % d = 0, z % d = 0
  PROVE  (x + y + z) % d = 0 /\ (x - z - y) % d = 0
<1>1. (x + y) % d = 0 /\ (x - z) % d = 0
  BY Sums
<1>2. \A v \in Int : v % d = 0 => (v + z) % d = 0 /\ (v - y) % d = 0
  BY Sums
<1>3. x + y \in Int /\ x - z \in Int
  OBVIOUS
<1> QED BY <1>1, <1>2, <1>3

\* A size is rounded up to a multiple of ALIGN.
LEMMA AlignedFacts ==
  ASSUME NEW size \in Nat
  PROVE  Aligned(size) \in Nat /\ Aligned(size) >= size /\ Aligned(size) % ALIGN = 0
<1> DEFINE x == size + ALIGN - 1  q == x \div ALIGN
<1>1. ALIGN \in Nat \ {0} /\ x \in Nat
  BY HeapAssumption
<1>2. q \in Nat /\ x % ALIGN \in 0 .. ALIGN - 1 /\ x = ALIGN * q + (x % ALIGN)
  BY <1>1
<1> HIDE DEF q
<1>3. q * ALIGN \in Nat /\ q * ALIGN >= size
  BY <1>1, <1>2
<1>4. (q * ALIGN) % ALIGN = 0
  <2>1. \E k \in Int : q * ALIGN = k * ALIGN
    BY <1>2
  <2> QED BY SMTT(30), <1>1, <1>3, <2>1, Multiple
<1> QED BY <1>3, <1>4 DEF Aligned, q

\* The pages expand_heap asks for hold the block and its header.
LEMMA PagesFacts ==
  ASSUME NEW size \in Nat
  PROVE  /\ pages_needed(size) \in Nat /\ pages_needed(size) >= 1
         /\ pages_needed(size) * PAGE_SIZE \in Nat
         /\ pages_needed(size) * PAGE_SIZE >= size + HEADER_SIZE
<1> DEFINE x == size + HEADER_SIZE + PAGE_SIZE - 1  q == x \div PAGE_SIZE
<1>1. PAGE_SIZE \in Nat \ {0} /\ x \in Nat /\ x >= PAGE_SIZE /\ HEADER_SIZE \in Nat
  BY HeapAssumption
<1>2. q \in Nat /\ x % PAGE_SIZE \in 0 .. PAGE_SIZE - 1 /\ x = PAGE_SIZE * q + (x % PAGE_SIZE)
  BY <1>1
<1> HIDE DEF q
<1>3. q * PAGE_SIZE \in Nat /\ q * PAGE_SIZE >= size + HEADER_SIZE
  BY <1>1, <1>2
<1>4. q >= 1
  BY <1>1, <1>2
<1> QED BY <1>2, <1>3, <1>4 DEF pages_needed, q

(***************************************************************************)
(* The heap as one value                                                   *)
(***************************************************************************)
IsHeap(h) ==
  h = [header |-> h.header, free_list |-> h.free_list, memory |-> h.memory,
       brk |-> h.brk, mapped |-> h.mapped, frames |-> h.frames]

BlocksOf(h) == DOMAIN h.header
EndOf(h, b) == b + HEADER_SIZE + h.header[b].size
Free(h) == {b \in BlocksOf(h) : h.header[b].is_free}
Used(h) == {b \in BlocksOf(h) : ~h.header[b].is_free}

\* Blocks tile the heap, and each is aligned.
Shape(h) ==
  /\ BlocksOf(h) \subseteq Nat
  /\ \A b \in BlocksOf(h) : h.header[b].size \in Nat /\ h.header[b].is_free \in BOOLEAN
  /\ h.brk \in Nat
  /\ h.brk > 0 => 0 \in BlocksOf(h)
  /\ \A b \in BlocksOf(h) : EndOf(h, b) \in BlocksOf(h) \cup {h.brk} /\ EndOf(h, b) <= h.brk
  /\ \A b, x \in BlocksOf(h) : b < x => EndOf(h, b) <= x

Even(h) == \A b \in BlocksOf(h) : b % ALIGN = 0 /\ h.header[b].size % ALIGN = 0

\* The list holds the blocks of S, each once.
Lists(list, S) ==
  /\ list \in Seq(S)
  /\ \A b \in S : \E i \in DOMAIN list : list[i] = b
  /\ \A i, j \in DOMAIN list : list[i] = list[j] => i = j

\* All below the break is mapped.
Pages(h) ==
  /\ h.brk \in Nat /\ h.brk % PAGE_SIZE = 0
  /\ \A a \in 0 .. h.brk - 1 : a \div PAGE_SIZE \in h.mapped

\* Every header is intact.
Headers(h) == \A b \in BlocksOf(h) : \A a \in Address :
  b <= a /\ a < b + HEADER_SIZE => h.memory[a] = Header

\* The first n bytes of block b are as they were.
Same(h, g, b, n) == \A a \in Address :
  b + HEADER_SIZE <= a /\ a < b + HEADER_SIZE + n => g.memory[a] = h.memory[a]

MarksOfBytes == {Header, Stale, Zero} \cup Marks

\* g is h with the header of b written.
Written(h, g, b, size, is_free) ==
  /\ IsHeap(g)
  /\ g.free_list = h.free_list /\ g.brk = h.brk /\ g.mapped = h.mapped /\ g.frames = h.frames
  /\ BlocksOf(g) = BlocksOf(h) \cup {b}
  /\ g.header[b].size = size /\ g.header[b].is_free = is_free
  /\ \A x \in BlocksOf(h) : x # b => g.header[x] = h.header[x]
  /\ g.memory = Fill(h.memory, b, HEADER_SIZE, Header)

LEMMA PutFacts ==
  ASSUME NEW h, IsHeap(h), NEW b, NEW size, NEW is_free
  PROVE  Written(h, Put(h, b, size, is_free), b, size, is_free)
<1> DEFINE g == Put(h, b, size, is_free)
           new == [x \in DOMAIN h.header \cup {b} |->
                     IF x = b THEN [size |-> size, is_free |-> is_free] ELSE h.header[x]]
           filled == Fill(h.memory, b, HEADER_SIZE, Header)
<1>1. /\ DOMAIN new = BlocksOf(h) \cup {b}
      /\ new[b].size = size /\ new[b].is_free = is_free
      /\ \A x \in BlocksOf(h) : x # b => new[x] = h.header[x]
  BY DEF BlocksOf
<1>2. g = [h EXCEPT !.header = new, !.memory = filled]
  BY DEF Put
<1> HIDE DEF new, filled, g
<1>3. g = [header |-> new, free_list |-> h.free_list, memory |-> filled,
           brk |-> h.brk, mapped |-> h.mapped, frames |-> h.frames]
  BY <1>2 DEF IsHeap
<1> QED BY <1>1, <1>3 DEF Written, IsHeap, BlocksOf, filled, g

\* A write to a run of bytes.
LEMMA FillFacts ==
  ASSUME NEW m, NEW p \in Int, NEW n \in Int, NEW mark
  PROVE  /\ \A a \in Address : Fill(m, p, n, mark)[a] = IF p <= a /\ a < p + n THEN mark ELSE m[a]
         /\ m \in [Address -> MarksOfBytes] /\ mark \in MarksOfBytes =>
              Fill(m, p, n, mark) \in [Address -> MarksOfBytes]
BY HeapAssumption DEF Fill, Address

(***************************************************************************)
(* The free list                                                           *)
(***************************************************************************)
LEMMA RemoveFacts ==
  ASSUME NEW S, NEW list \in Seq(S), NEW i \in DOMAIN list
  PROVE  /\ RemoveAt(list, i) \in Seq(S)
         /\ Len(RemoveAt(list, i)) = Len(list) - 1
         /\ \A j \in 1 .. Len(list) - 1 : RemoveAt(list, i)[j] = list[IF j < i THEN j ELSE j + 1]
<1> DEFINE n == Len(list)  a == SubSeq(list, 1, i - 1)  b == SubSeq(list, i + 1, n)
<1>1. n \in Nat /\ DOMAIN list = 1 .. n /\ i \in 1 .. n
  OBVIOUS
<1>2. a \in Seq(S) /\ Len(a) = i - 1 /\ \A j \in 1 .. i - 1 : a[j] = list[j]
  BY <1>1
<1>3. b \in Seq(S) /\ Len(b) = n - i /\ \A j \in 1 .. n - i : b[j] = list[i + j]
  BY <1>1
<1> HIDE DEF a, b, n
<1>4. /\ a \o b \in Seq(S) /\ Len(a \o b) = Len(a) + Len(b)
      /\ \A j \in 1 .. Len(a) + Len(b) : (a \o b)[j] = IF j <= Len(a) THEN a[j] ELSE b[j - Len(a)]
  BY <1>2, <1>3, ConcatProperties
<1>5. ASSUME NEW j \in 1 .. n - 1 PROVE (a \o b)[j] = list[IF j < i THEN j ELSE j + 1]
  <2>1. CASE j < i
    BY <1>1, <1>2, <1>3, <1>4, <2>1
  <2>2. CASE ~(j < i)
    <3>1. j - Len(a) \in 1 .. n - i /\ i + (j - Len(a)) = j + 1 /\ j > Len(a)
      BY <1>1, <1>2, <2>2
    <3>2. (a \o b)[j] = b[j - Len(a)]
      BY SMTT(30), <1>1, <1>2, <1>3, <1>4, <3>1
    <3>3. b[j - Len(a)] = list[j + 1]
      BY <1>3, <3>1
    <3> QED BY <2>2, <3>2, <3>3
  <2> QED BY <2>1, <2>2
<1>6. RemoveAt(list, i) = a \o b
  BY DEF RemoveAt, a, b, n
<1>7. Len(a \o b) = n - 1
  BY <1>1, <1>2, <1>3, <1>4
<1> QED BY <1>4, <1>5, <1>6, <1>7 DEF n

LEMMA ElementsSeq ==
  ASSUME NEW S, NEW T, NEW list \in Seq(S), \A j \in 1 .. Len(list) : list[j] \in T
  PROVE  list \in Seq(T)
<1>1. Len(list) \in Nat /\ DOMAIN list = 1 .. Len(list)
  OBVIOUS
<1>2. list \in [1 .. Len(list) -> T]
  BY <1>1
<1> QED BY <1>1, <1>2

LEMMA RemoveLists ==
  ASSUME NEW S, NEW list, Lists(list, S), NEW i \in DOMAIN list
  PROVE  list[i] \in S /\ Lists(RemoveAt(list, i), S \ {list[i]})
<1> DEFINE n == Len(list)  new == RemoveAt(list, i)
           Old(j) == IF j < i THEN j ELSE j + 1
<1>1. list \in Seq(S) /\ n \in Nat /\ DOMAIN list = 1 .. n /\ i \in 1 .. n /\ list[i] \in S
  BY DEF Lists
<1>2. /\ new \in Seq(S) /\ Len(new) = n - 1 /\ DOMAIN new = 1 .. n - 1
      /\ \A j \in 1 .. n - 1 : new[j] = list[Old(j)]
  <2>1. /\ RemoveAt(list, i) \in Seq(S)
        /\ Len(RemoveAt(list, i)) = Len(list) - 1
        /\ \A j \in 1 .. Len(list) - 1 : RemoveAt(list, i)[j] = list[IF j < i THEN j ELSE j + 1]
    BY <1>1, RemoveFacts
  <2> HIDE DEF new
  <2>2. new \in Seq(S) /\ Len(new) = n - 1
    BY <2>1 DEF new
  <2>3. \A j \in 1 .. n - 1 : new[j] = list[IF j < i THEN j ELSE j + 1]
    BY <2>1 DEF new
  <2> QED BY <2>2, <2>3
<1> HIDE DEF new, n
<1>3. \A j \in 1 .. n - 1 : Old(j) \in 1 .. n /\ Old(j) # i
  BY <1>1
<1>4. \A j, k \in 1 .. n - 1 : Old(j) = Old(k) => j = k
  BY <1>1
<1>5. \A j, k \in 1 .. n : list[j] = list[k] => j = k
  BY <1>1 DEF Lists
<1>6. ASSUME NEW j \in 1 .. n - 1 PROVE new[j] \in S \ {list[i]}
  <2>1. list[Old(j)] \in S /\ list[Old(j)] # list[i]
    BY <1>1, <1>3, <1>5
  <2> QED BY <1>2, <2>1
<1>7. new \in Seq(S \ {list[i]})
  <2>1. \A j \in 1 .. Len(new) : new[j] \in S \ {list[i]}
    BY <1>2, <1>6
  <2> QED BY <1>1, <1>2, <2>1, ElementsSeq
<1>8. \A j, k \in 1 .. n - 1 : new[j] = new[k] => j = k
  BY <1>2, <1>3, <1>4, <1>5
<1>9. ASSUME NEW b \in S \ {list[i]} PROVE \E j \in 1 .. n - 1 : new[j] = b
  <2>1. PICK k \in 1 .. n : list[k] = b
    BY <1>1, <1>9 DEF Lists
  <2>2. k # i
    BY <1>9, <2>1
  <2> DEFINE j == IF k < i THEN k ELSE k - 1
  <2>3. j \in 1 .. n - 1 /\ Old(j) = k
    BY <1>1, <2>1, <2>2
  <2> QED BY <1>2, <2>1, <2>3
<1> QED BY <1>1, <1>2, <1>7, <1>8, <1>9 DEF Lists, new

\* A block that is not on the list goes first, or last.
LEMMA PushLists ==
  ASSUME NEW S, NEW list, Lists(list, S), NEW r, r \notin S
  PROVE  Lists(<<r>> \o list, S \cup {r})
<1> DEFINE n == Len(list)  new == <<r>> \o list  T == S \cup {r}
<1>1. list \in Seq(S) /\ n \in Nat /\ DOMAIN list = 1 .. n
  BY DEF Lists
<1>2. <<r>> \in Seq(T) /\ Len(<<r>>) = 1 /\ <<r>>[1] = r
  OBVIOUS
<1>3. list \in Seq(T)
  BY <1>1
<1>4. /\ new \in Seq(T) /\ Len(new) = n + 1
      /\ \A j \in 1 .. n + 1 : new[j] = IF j <= 1 THEN r ELSE list[j - 1]
  BY <1>1, <1>2, <1>3, ConcatProperties
<1>5. DOMAIN new = 1 .. n + 1
  BY <1>1, <1>4
<1> HIDE DEF new, n
<1>6. new[1] = r /\ \A j \in 1 .. n : j + 1 \in 1 .. n + 1 /\ new[j + 1] = list[j]
  BY <1>1, <1>4
<1>7. \A j \in 1 .. n + 1 : j = 1 \/ (j - 1 \in 1 .. n /\ new[j] = list[j - 1])
  BY <1>1, <1>4
<1>8. \A j \in 1 .. n : list[j] \in S
  BY <1>1
<1>9. \A j, k \in 1 .. n : list[j] = list[k] => j = k
  BY <1>1 DEF Lists
<1>10. \A j, k \in 1 .. n + 1 : new[j] = new[k] => j = k
  BY <1>1, <1>6, <1>7, <1>8, <1>9
<1>11. ASSUME NEW b \in T PROVE \E j \in 1 .. n + 1 : new[j] = b
  <2>1. CASE b = r
    BY <1>1, <1>6, <2>1
  <2>2. CASE b \in S
    <3>1. PICK k \in 1 .. n : list[k] = b
      BY <1>1, <2>2 DEF Lists
    <3> QED BY <1>6, <3>1
  <2> QED BY <2>1, <2>2
<1> QED BY <1>4, <1>5, <1>10, <1>11 DEF Lists, new

LEMMA AppendLists ==
  ASSUME NEW S, NEW list, Lists(list, S), NEW r, r \notin S
  PROVE  Lists(Append(list, r), S \cup {r})
<1> DEFINE n == Len(list)  new == Append(list, r)  T == S \cup {r}
<1>1. list \in Seq(S) /\ n \in Nat /\ DOMAIN list = 1 .. n
  BY DEF Lists
<1>2. list \in Seq(T) /\ r \in T
  BY <1>1
<1>3. /\ new \in Seq(T) /\ Len(new) = n + 1 /\ DOMAIN new = 1 .. n + 1
      /\ new[n + 1] = r /\ \A j \in 1 .. n : new[j] = list[j]
  BY <1>1, <1>2, AppendProperties
<1> HIDE DEF new, n
<1>4. \A j \in 1 .. n : list[j] \in S
  BY <1>1
<1>5. \A j, k \in 1 .. n : list[j] = list[k] => j = k
  BY <1>1 DEF Lists
<1>6. \A j, k \in 1 .. n + 1 : new[j] = new[k] => j = k
  BY <1>1, <1>3, <1>4, <1>5
<1>7. ASSUME NEW b \in T PROVE \E j \in 1 .. n + 1 : new[j] = b
  <2>1. CASE b = r
    BY <1>1, <1>3, <2>1
  <2>2. CASE b \in S
    <3>1. PICK k \in 1 .. n : list[k] = b
      BY <1>1, <2>2 DEF Lists
    <3> QED BY <1>1, <1>3, <3>1
  <2> QED BY <2>1, <2>2
<1> QED BY <1>3, <1>6, <1>7 DEF Lists, new

LEMMA ListsOf ==
  ASSUME NEW S, NEW list, Lists(list, S)
  PROVE  {list[i] : i \in DOMAIN list} = S
<1>1. \A i \in DOMAIN list : list[i] \in S
  BY DEF Lists
<1> QED BY <1>1 DEF Lists

(***************************************************************************)
(* Cutting a block                                                         *)
(***************************************************************************)

\* g is h with block b in use, and what its first n bytes leave a block of its own.
Cut(h, g, b, n) ==
  LET r == Remainder(b, n)  have == h.header[b].size IN
  /\ IsHeap(g) /\ g.brk = h.brk /\ g.mapped = h.mapped /\ g.frames = h.frames
  /\ r \in Nat /\ r \notin BlocksOf(h) /\ BlocksOf(g) = BlocksOf(h) \cup {r}
  /\ have - n - HEADER_SIZE \in Nat
  /\ g.header[b].size = n /\ g.header[b].is_free = FALSE
  /\ g.header[r].size = have - n - HEADER_SIZE /\ g.header[r].is_free = TRUE
  /\ \A x \in BlocksOf(h) : x # b => g.header[x] = h.header[x]
  /\ g.free_list = <<r>> \o h.free_list
  /\ g.memory = Fill(Fill(h.memory, r, HEADER_SIZE, Header), b, HEADER_SIZE, Header)

\* g is h with the whole of block b in use.
Kept(h, g, b) ==
  /\ IsHeap(g) /\ g.brk = h.brk /\ g.mapped = h.mapped /\ g.frames = h.frames
  /\ BlocksOf(g) = BlocksOf(h)
  /\ g.header[b].size = h.header[b].size /\ g.header[b].is_free = FALSE
  /\ \A x \in BlocksOf(h) : x # b => g.header[x] = h.header[x]
  /\ g.free_list = h.free_list
  /\ g.memory = Fill(h.memory, b, HEADER_SIZE, Header)

LEMMA SplitCases ==
  ASSUME NEW h, IsHeap(h), Shape(h), NEW b \in BlocksOf(h), NEW n \in Nat,
         n <= h.header[b].size
  PROVE  Cut(h, Split(h, b, n, FALSE), b, n) \/ Kept(h, Split(h, b, n, FALSE), b)
<1> DEFINE have == h.header[b].size
           r == Remainder(b, n)
           h1 == Put(h, r, have - n - HEADER_SIZE, TRUE)
           h2 == Put(h1, b, n, FALSE)
<1>1. /\ b \in Nat /\ have \in Nat /\ HEADER_SIZE \in Nat \ {0} /\ ALIGN \in Nat \ {0}
      /\ r = b + HEADER_SIZE + n /\ r \in Nat
  BY HeapAssumption DEF Shape, Remainder
<1>2. CASE Splits(have, n)
  <2>1. have >= n + HEADER_SIZE + ALIGN
    BY <1>2 DEF Splits
  <2>2. r \notin BlocksOf(h)
    <3>1. b < r /\ r < EndOf(h, b)
      BY <1>1, <2>1 DEF EndOf
    <3>2. EndOf(h, b) \in Int
      BY <1>1 DEF EndOf
    <3> QED BY <1>1, <3>1, <3>2 DEF Shape
  <2> HIDE DEF r, have
  <2>3. Written(h, h1, r, have - n - HEADER_SIZE, TRUE)
    BY PutFacts
  <2> HIDE DEF h1
  <2>4. Written(h1, h2, b, n, FALSE)
    <3>1. IsHeap(h1)
      BY <2>3 DEF Written
    <3> QED BY <3>1, PutFacts
  <2> HIDE DEF h2
  <2> DEFINE g == [h2 EXCEPT !.free_list = <<r>> \o @]
  <2>5. g = Split(h, b, n, FALSE)
    BY <1>2 DEF Split, r, have, h1, h2
  <2>6. /\ IsHeap(g) /\ g.brk = h2.brk /\ g.mapped = h2.mapped /\ g.frames = h2.frames
        /\ g.header = h2.header /\ g.memory = h2.memory /\ g.free_list = <<r>> \o h2.free_list
    <3> DEFINE longer == <<r>> \o h2.free_list
    <3>1. IsHeap(h2) /\ g = [h2 EXCEPT !.free_list = longer]
      BY <2>4 DEF Written
    <3> HIDE DEF longer, g
    <3>2. g = [header |-> h2.header, free_list |-> longer, memory |-> h2.memory,
               brk |-> h2.brk, mapped |-> h2.mapped, frames |-> h2.frames]
      BY <3>1 DEF IsHeap
    <3> QED BY <3>2 DEF IsHeap, longer
  <2> HIDE DEF g
  <2>7. have - n - HEADER_SIZE \in Nat
    BY <1>1, <2>1
  <2>8. BlocksOf(g) = BlocksOf(h) \cup {r} /\ r # b
    BY <2>2, <2>3, <2>4, <2>6 DEF BlocksOf, Written
  <2>9. g.header[r].size = have - n - HEADER_SIZE /\ g.header[r].is_free = TRUE
    BY <2>3, <2>4, <2>6, <2>8 DEF Written
  <2>10. \A x \in BlocksOf(h) : x # b => g.header[x] = h.header[x]
    BY <2>2, <2>3, <2>4, <2>6 DEF Written
  <2>11. Cut(h, g, b, n)
    BY <1>1, <2>2, <2>3, <2>4, <2>6, <2>7, <2>8, <2>9, <2>10 DEF Cut, Written, r, have
  <2> QED BY <2>5, <2>11
<1>3. CASE ~Splits(have, n)
  <2>1. Split(h, b, n, FALSE) = Put(h, b, have, FALSE)
    BY <1>3 DEF Split
  <2> HIDE DEF have
  <2>2. Kept(h, Put(h, b, have, FALSE), b)
    <3>1. Written(h, Put(h, b, have, FALSE), b, have, FALSE)
      BY PutFacts
    <3> QED BY <3>1 DEF Written, Kept, BlocksOf, have
  <2> QED BY <2>1, <2>2
<1> QED BY <1>2, <1>3

LEMMA CutShape ==
  ASSUME NEW h, Shape(h), NEW b \in BlocksOf(h), NEW n \in Nat, n <= h.header[b].size,
         NEW g, Cut(h, g, b, n)
  PROVE  Shape(g)
<1> DEFINE r == Remainder(b, n)
           have == h.header[b].size
<1>1. /\ b \in Nat /\ have \in Nat /\ HEADER_SIZE \in Nat \ {0}
      /\ r = b + HEADER_SIZE + n /\ r \in Nat /\ EndOf(h, b) = b + HEADER_SIZE + have
  BY HeapAssumption DEF Shape, Remainder, EndOf
<1>2. /\ g.brk = h.brk /\ r \notin BlocksOf(h) /\ BlocksOf(g) = BlocksOf(h) \cup {r}
      /\ have - n - HEADER_SIZE \in Nat
      /\ g.header[b].size = n /\ g.header[b].is_free = FALSE
      /\ g.header[r].size = have - n - HEADER_SIZE /\ g.header[r].is_free = TRUE
      /\ \A x \in BlocksOf(h) : x # b => g.header[x] = h.header[x]
  BY DEF Cut
<1>3. EndOf(g, b) = r /\ EndOf(g, r) = EndOf(h, b) /\ b < r /\ r < EndOf(h, b)
  BY <1>1, <1>2 DEF EndOf
<1>4. \A x \in BlocksOf(h) : x # b => EndOf(g, x) = EndOf(h, x)
  BY <1>2 DEF EndOf
<1>5. \A x \in BlocksOf(h) :
        /\ x \in Nat /\ h.header[x].size \in Nat /\ h.header[x].is_free \in BOOLEAN
        /\ EndOf(h, x) \in Nat /\ x < EndOf(h, x)
        /\ EndOf(h, x) \in BlocksOf(h) \cup {h.brk} /\ EndOf(h, x) <= h.brk
  BY HeapAssumption DEF Shape, EndOf
<1>6. \A x, y \in BlocksOf(h) : x < y => EndOf(h, x) <= y
  BY DEF Shape
<1>7. h.brk \in Nat /\ (h.brk > 0 => 0 \in BlocksOf(h))
  BY DEF Shape
<1> HIDE DEF r, have
<1>8. \A x \in BlocksOf(g) : x \in Nat /\ g.header[x].size \in Nat /\ g.header[x].is_free \in BOOLEAN
  <2> TAKE x \in BlocksOf(g)
  <2>1. CASE x = r
    BY <1>1, <1>2, <2>1
  <2>2. CASE x = b
    BY <1>1, <1>2, <2>2
  <2>3. CASE x # r /\ x # b
    BY <1>2, <1>5, <2>3
  <2> QED BY <2>1, <2>2, <2>3
<1>9. \A x \in BlocksOf(g) : EndOf(g, x) \in BlocksOf(g) \cup {g.brk} /\ EndOf(g, x) <= g.brk
  <2> TAKE x \in BlocksOf(g)
  <2>1. CASE x = r
    BY <1>2, <1>3, <1>5, <2>1
  <2>2. CASE x = b
    <3>1. r <= h.brk
      BY <1>1, <1>3, <1>5, <1>7
    <3> QED BY <1>2, <1>3, <2>2, <3>1
  <2>3. CASE x # r /\ x # b
    BY <1>2, <1>4, <1>5, <2>3
  <2> QED BY <2>1, <2>2, <2>3
<1>10. \A x, y \in BlocksOf(g) : x < y => EndOf(g, x) <= y
  <2> SUFFICES ASSUME NEW x \in BlocksOf(g), NEW y \in BlocksOf(g), x < y
               PROVE  EndOf(g, x) <= y
    OBVIOUS
  <2>1. CASE x = r
    <3>1. y \in BlocksOf(h) /\ b < y
      BY <1>1, <1>2, <1>3, <1>5, <2>1
    <3> QED BY <1>3, <1>6, <2>1, <3>1
  <2>2. CASE x = b
    <3>1. y = r \/ EndOf(h, b) <= y
      BY <1>2, <1>6, <2>2
    <3> QED BY <1>1, <1>2, <1>3, <1>5, <2>2, <3>1
  <2>3. CASE x # r /\ x # b /\ y = r
    <3>1. x \in BlocksOf(h)
      BY <1>2, <2>3
    <3>2. ~(b < x)
      BY <1>1, <1>3, <1>5, <1>6, <2>3, <3>1
    <3>3. EndOf(h, x) <= b
      BY <1>1, <1>5, <1>6, <2>3, <3>1, <3>2
    <3> QED BY <1>1, <1>3, <1>4, <1>5, <2>3, <3>1, <3>3
  <2>4. CASE x # r /\ x # b /\ y # r
    BY <1>2, <1>4, <1>6, <2>4
  <2> QED BY <2>1, <2>2, <2>3, <2>4
<1> QED BY <1>2, <1>7, <1>8, <1>9, <1>10 DEF Shape

LEMMA KeptShape ==
  ASSUME NEW h, Shape(h), NEW b \in BlocksOf(h), NEW g, Kept(h, g, b)
  PROVE  Shape(g)
<1>1. /\ g.brk = h.brk /\ BlocksOf(g) = BlocksOf(h)
      /\ \A x \in BlocksOf(h) : g.header[x].size = h.header[x].size
      /\ \A x \in BlocksOf(h) : h.header[x].is_free \in BOOLEAN => g.header[x].is_free \in BOOLEAN
  BY DEF Kept
<1>2. \A x \in BlocksOf(h) : EndOf(g, x) = EndOf(h, x)
  BY <1>1 DEF EndOf
<1> QED BY <1>1, <1>2 DEF Shape

\* Two blocks do not overlap.
LEMMA Apart ==
  ASSUME NEW h, Shape(h), NEW x \in BlocksOf(h), NEW y \in BlocksOf(h), x # y
  PROVE  EndOf(h, x) <= y \/ EndOf(h, y) <= x
<1>1. x \in Nat /\ y \in Nat /\ (x < y \/ y < x)
  BY DEF Shape
<1> QED BY <1>1 DEF Shape

LEMMA BlockFacts ==
  ASSUME NEW h, Shape(h), NEW x \in BlocksOf(h)
  PROVE  /\ x \in Nat /\ h.header[x].size \in Nat /\ h.header[x].is_free \in BOOLEAN
         /\ HEADER_SIZE \in Nat \ {0}
         /\ EndOf(h, x) = x + HEADER_SIZE + h.header[x].size
         /\ EndOf(h, x) \in Nat /\ x < EndOf(h, x) /\ EndOf(h, x) <= h.brk /\ h.brk \in Nat
BY HeapAssumption DEF Shape, EndOf

\* Block x, its header and its bytes are in g what they were in h.
Untouched(h, g, x) ==
  x \in BlocksOf(g) /\ g.header[x] = h.header[x] /\ Same(h, g, x, h.header[x].size)

\* Block b of h is in use in g, for n bytes at least, and keeps the first n.
Handed(h, g, b, n) ==
  /\ IsHeap(g) /\ Shape(g) /\ g.brk = h.brk /\ g.mapped = h.mapped /\ g.frames = h.frames
  /\ b \in BlocksOf(g) /\ g.header[b].size >= n
  /\ Used(g) = Used(h) \cup {b}
  /\ \A x \in BlocksOf(h) : x # b => Untouched(h, g, x)
  /\ Same(h, g, b, n)
  /\ h.memory \in [Address -> MarksOfBytes] => g.memory \in [Address -> MarksOfBytes]
  /\ Headers(h) => Headers(g)
  /\ Even(h) /\ n % ALIGN = 0 => Even(g)
  /\ Lists(h.free_list, Free(h) \ {b}) => Lists(g.free_list, Free(g))

LEMMA CutHanded ==
  ASSUME NEW h, Shape(h), NEW b \in BlocksOf(h), NEW n \in Nat, n <= h.header[b].size,
         NEW g, Cut(h, g, b, n)
  PROVE  Handed(h, g, b, n)
<1> DEFINE r == Remainder(b, n)
           have == h.header[b].size
           m == Fill(h.memory, r, HEADER_SIZE, Header)
<1>1. Shape(g)
  BY CutShape
<1>2. /\ b \in Nat /\ have \in Nat /\ HEADER_SIZE \in Nat \ {0}
      /\ r = b + HEADER_SIZE + n /\ r \in Nat /\ EndOf(h, b) = b + HEADER_SIZE + have
  BY BlockFacts DEF Remainder
<1>3. /\ IsHeap(g) /\ g.brk = h.brk /\ g.mapped = h.mapped /\ g.frames = h.frames
      /\ r \notin BlocksOf(h) /\ BlocksOf(g) = BlocksOf(h) \cup {r}
      /\ have - n - HEADER_SIZE \in Nat
      /\ g.header[b].size = n /\ g.header[b].is_free = FALSE
      /\ g.header[r].size = have - n - HEADER_SIZE /\ g.header[r].is_free = TRUE
      /\ \A x \in BlocksOf(h) : x # b => g.header[x] = h.header[x]
      /\ g.free_list = <<r>> \o h.free_list
      /\ g.memory = Fill(m, b, HEADER_SIZE, Header)
  BY DEF Cut
<1> HIDE DEF r, have
<1>4. \A a \in Address : g.memory[a] =
        IF (b <= a /\ a < b + HEADER_SIZE) \/ (r <= a /\ a < r + HEADER_SIZE)
        THEN Header ELSE h.memory[a]
  <2>1. \A a \in Address : m[a] = IF r <= a /\ a < r + HEADER_SIZE THEN Header ELSE h.memory[a]
    BY <1>2, FillFacts
  <2> HIDE DEF m
  <2>2. \A a \in Address : g.memory[a] = IF b <= a /\ a < b + HEADER_SIZE THEN Header ELSE m[a]
    BY <1>2, <1>3, FillFacts
  <2> QED BY <2>1, <2>2
<1>5. ASSUME h.memory \in [Address -> MarksOfBytes] PROVE g.memory \in [Address -> MarksOfBytes]
  <2>1. Header \in MarksOfBytes
    BY DEF MarksOfBytes
  <2>2. m \in [Address -> MarksOfBytes]
    BY <1>2, <1>5, <2>1, FillFacts
  <2> HIDE DEF m
  <2> QED BY <1>2, <1>3, <2>1, <2>2, FillFacts
<1>6. \A a \in Address : a \in Nat
  BY DEF Address
<1>7. ASSUME Headers(h) PROVE Headers(g)
  BY <1>2, <1>3, <1>4, <1>7 DEF Headers
<1>8. Same(h, g, b, n)
  BY <1>2, <1>4, <1>6 DEF Same
<1>9. \A x \in BlocksOf(h) : x # b => Untouched(h, g, x)
  <2> SUFFICES ASSUME NEW x \in BlocksOf(h), x # b PROVE Untouched(h, g, x)
    OBVIOUS
  <2>1. /\ x \in Nat /\ h.header[x].size \in Nat
        /\ EndOf(h, x) = x + HEADER_SIZE + h.header[x].size
    BY BlockFacts
  <2>2. EndOf(h, x) <= b \/ EndOf(h, b) <= x
    BY Apart
  <2>3. r + HEADER_SIZE <= EndOf(h, b)
    BY <1>2, <1>3
  <2>4. Same(h, g, x, h.header[x].size)
    BY <1>2, <1>4, <1>6, <2>1, <2>2, <2>3 DEF Same
  <2> QED BY <1>3, <2>4 DEF Untouched
<1>10. Used(g) = Used(h) \cup {b}
  BY <1>3 DEF Used
<1>11. Free(g) = (Free(h) \ {b}) \cup {r} /\ r \notin Free(h)
  BY <1>3 DEF Free
<1>12. ASSUME Lists(h.free_list, Free(h) \ {b}) PROVE Lists(g.free_list, Free(g))
  BY <1>3, <1>11, <1>12, PushLists
<1>13. ASSUME Even(h), n % ALIGN = 0 PROVE Even(g)
  <2>1. ALIGN \in Nat \ {0} /\ HEADER_SIZE % ALIGN = 0 /\ b % ALIGN = 0 /\ have % ALIGN = 0
    BY <1>13, HeapAssumption DEF Even, have
  <2>2. n \in Int /\ b \in Int /\ have \in Int /\ HEADER_SIZE \in Int
    BY <1>2
  <2>3. n % ALIGN = 0
    BY <1>13
  <2> HIDE DEF have
  <2>4. (b + HEADER_SIZE + n) % ALIGN = 0
    BY ONLY <2>1, <2>2, <2>3, CutEven, Zenon
  <2>5. (have - n - HEADER_SIZE) % ALIGN = 0
    BY ONLY <2>1, <2>2, <2>3, CutEven, Zenon
  <2>6. r % ALIGN = 0 /\ (have - n - HEADER_SIZE) % ALIGN = 0
    BY <1>2, <2>4, <2>5
  <2> QED BY <1>2, <1>3, <1>13, <2>6 DEF Even
<1> QED
  BY <1>1, <1>3, <1>5, <1>7, <1>8, <1>9, <1>10, <1>12, <1>13, <1>2 DEF Handed

LEMMA KeptHanded ==
  ASSUME NEW h, Shape(h), NEW b \in BlocksOf(h), NEW n \in Nat, n <= h.header[b].size,
         NEW g, Kept(h, g, b)
  PROVE  Handed(h, g, b, n)
<1>1. Shape(g)
  BY KeptShape
<1>2. /\ b \in Nat /\ h.header[b].size \in Nat /\ HEADER_SIZE \in Nat \ {0}
      /\ EndOf(h, b) = b + HEADER_SIZE + h.header[b].size
  BY BlockFacts
<1>3. /\ IsHeap(g) /\ g.brk = h.brk /\ g.mapped = h.mapped /\ g.frames = h.frames
      /\ BlocksOf(g) = BlocksOf(h)
      /\ g.header[b].size = h.header[b].size /\ g.header[b].is_free = FALSE
      /\ \A x \in BlocksOf(h) : x # b => g.header[x] = h.header[x]
      /\ g.free_list = h.free_list
      /\ g.memory = Fill(h.memory, b, HEADER_SIZE, Header)
  BY DEF Kept
<1>4. \A a \in Address : g.memory[a] =
        IF b <= a /\ a < b + HEADER_SIZE THEN Header ELSE h.memory[a]
  BY <1>2, <1>3, FillFacts
<1>5. ASSUME h.memory \in [Address -> MarksOfBytes] PROVE g.memory \in [Address -> MarksOfBytes]
  <2>1. Header \in MarksOfBytes
    BY DEF MarksOfBytes
  <2> QED BY <1>2, <1>3, <1>5, <2>1, FillFacts
<1>6. \A a \in Address : a \in Nat
  BY DEF Address
<1>7. ASSUME Headers(h) PROVE Headers(g)
  BY <1>2, <1>3, <1>4, <1>7 DEF Headers
<1>8. Same(h, g, b, n)
  BY <1>2, <1>4, <1>6 DEF Same
<1>9. \A x \in BlocksOf(h) : x # b => Untouched(h, g, x)
  <2> SUFFICES ASSUME NEW x \in BlocksOf(h), x # b PROVE Untouched(h, g, x)
    OBVIOUS
  <2>1. /\ x \in Nat /\ h.header[x].size \in Nat
        /\ EndOf(h, x) = x + HEADER_SIZE + h.header[x].size
    BY BlockFacts
  <2>2. EndOf(h, x) <= b \/ EndOf(h, b) <= x
    BY Apart
  <2>3. Same(h, g, x, h.header[x].size)
    BY <1>2, <1>4, <1>6, <2>1, <2>2 DEF Same
  <2> QED BY <1>3, <2>3 DEF Untouched
<1>10. Used(g) = Used(h) \cup {b} /\ Free(g) = Free(h) \ {b}
  BY <1>3 DEF Used, Free
<1>11. ASSUME Even(h) PROVE Even(g)
  BY <1>3, <1>11 DEF Even
<1> QED
  BY <1>1, <1>2, <1>3, <1>5, <1>7, <1>8, <1>9, <1>10, <1>11 DEF Handed

LEMMA SplitHanded ==
  ASSUME NEW h, IsHeap(h), Shape(h), NEW b \in BlocksOf(h), NEW n \in Nat,
         n <= h.header[b].size
  PROVE  Handed(h, Split(h, b, n, FALSE), b, n)
BY SplitCases, CutHanded, KeptHanded

(***************************************************************************)
(* A heap as every call must leave it                                      *)
(***************************************************************************)
Good(h) ==
  /\ IsHeap(h) /\ Shape(h) /\ Even(h) /\ Pages(h) /\ Headers(h)
  /\ Lists(h.free_list, Free(h))
  /\ h.memory \in [Address -> MarksOfBytes]
  /\ h.frames \in 0 .. MaxFrames

\* What is in use in h is in g, untouched.
Keeps(h, g) == \A x \in Used(h) : Untouched(h, g, x)

\* The heap of h with block b in use, for n bytes at least, and given to nobody before.
Given(h, g, b, n) ==
  /\ Good(g) /\ Keeps(h, g)
  /\ b \in BlocksOf(g) /\ b \notin Used(h) /\ Used(g) = Used(h) \cup {b}
  /\ g.header[b].size >= n

LEMMA KeepsTransitive ==
  ASSUME NEW h, NEW g, NEW k, Keeps(h, g), Keeps(g, k), Used(h) \subseteq Used(g)
  PROVE  Keeps(h, k)
BY DEF Keeps, Untouched, Same

LEMMA TakeGiven ==
  ASSUME NEW h, Good(h), NEW n \in Nat, n % ALIGN = 0, NEW o \in FirstFit(h, n)
  PROVE  \E b : o.ptr = b + HEADER_SIZE /\ Given(h, o.heap, b, n)
<1>1. PICK i \in First(h, n) : o = take(h, i, n)
  BY DEF FirstFit
<1> DEFINE b == h.free_list[i]
           shorter == RemoveAt(h.free_list, i)
           h0 == [h EXCEPT !.free_list = RemoveAt(@, i)]
           g == Split(h0, b, n, FALSE)
<1>2. o = [heap |-> g, ptr |-> b + HEADER_SIZE]
  BY <1>1 DEF take
<1>3. i \in DOMAIN h.free_list /\ h.header[b].size >= n
  BY DEF First, Fitting
<1>4. b \in Free(h) /\ Lists(shorter, Free(h) \ {b})
  BY <1>3, RemoveLists DEF Good
<1> HIDE DEF b
<1>5. /\ IsHeap(h0) /\ h0.header = h.header /\ h0.free_list = shorter /\ h0.memory = h.memory
      /\ h0.brk = h.brk /\ h0.mapped = h.mapped /\ h0.frames = h.frames
  <2>1. h0 = [h EXCEPT !.free_list = shorter] /\ IsHeap(h)
    BY DEF Good
  <2> HIDE DEF h0, shorter
  <2>2. h0 = [header |-> h.header, free_list |-> shorter, memory |-> h.memory,
              brk |-> h.brk, mapped |-> h.mapped, frames |-> h.frames]
    BY <2>1 DEF IsHeap
  <2> QED BY <2>2 DEF IsHeap
<1> HIDE DEF h0, shorter
<1>6. BlocksOf(h0) = BlocksOf(h) /\ Used(h0) = Used(h) /\ Free(h0) = Free(h)
  BY <1>5 DEF BlocksOf, Used, Free
<1>7. \A x : EndOf(h0, x) = EndOf(h, x)
  BY <1>5 DEF EndOf
<1>8. Shape(h0) /\ Even(h0) /\ Headers(h0) /\ h0.memory \in [Address -> MarksOfBytes]
  BY <1>5, <1>6, <1>7 DEF Good, Shape, Even, Headers
<1>9. b \in BlocksOf(h0) /\ n <= h0.header[b].size /\ b \notin Used(h)
  <2>1. b \in BlocksOf(h) /\ h.header[b].is_free
    BY <1>4 DEF Free
  <2>2. h.header[b].size \in Nat
    BY <2>1 DEF Good, Shape
  <2> QED BY <1>3, <1>5, <1>6, <2>1, <2>2 DEF Used
<1>10. Handed(h0, g, b, n)
  BY <1>5, <1>8, <1>9, SplitHanded
<1> HIDE DEF g
<1>11. Lists(h0.free_list, Free(h0) \ {b})
  BY <1>4, <1>5, <1>6
<1>12. Good(g)
  <2>1. IsHeap(g) /\ Shape(g) /\ Headers(g) /\ Even(g)
    BY <1>8, <1>10 DEF Handed
  <2>2. Lists(g.free_list, Free(g)) /\ g.memory \in [Address -> MarksOfBytes]
    BY <1>8, <1>10, <1>11 DEF Handed
  <2>3. g.brk = h.brk /\ g.mapped = h.mapped /\ g.frames = h.frames
    BY <1>5, <1>10 DEF Handed
  <2>4. Pages(g) /\ g.frames \in 0 .. MaxFrames
    BY <2>3 DEF Good, Pages
  <2> QED BY <2>1, <2>2, <2>4 DEF Good
<1>13. Keeps(h, g)
  <2> SUFFICES ASSUME NEW x \in Used(h) PROVE Untouched(h, g, x)
    BY DEF Keeps
  <2>1. x \in BlocksOf(h0) /\ x # b
    BY <1>6, <1>9 DEF Used
  <2>2. Untouched(h0, g, x)
    BY <1>10, <2>1 DEF Handed
  <2> QED BY <1>5, <2>2 DEF Untouched, Same
<1>14. b \in BlocksOf(g) /\ Used(g) = Used(h) \cup {b} /\ g.header[b].size >= n
  BY <1>6, <1>10 DEF Handed
<1>15. Given(h, g, b, n)
  BY <1>9, <1>12, <1>13, <1>14 DEF Given
<1> QED BY <1>2, <1>15

(***************************************************************************)
(* Growing the heap                                                        *)
(***************************************************************************)
LEMMA PageOf ==
  ASSUME NEW first \in Nat, NEW needed \in Nat, NEW a \in Nat,
         first * PAGE_SIZE <= a, a < (first + needed) * PAGE_SIZE
  PROVE  a \div PAGE_SIZE \in first .. first + needed - 1
<1> DEFINE q == a \div PAGE_SIZE  r == a % PAGE_SIZE
<1>1. /\ PAGE_SIZE \in Nat \ {0} /\ q \in Nat /\ r \in 0 .. PAGE_SIZE - 1
      /\ a = PAGE_SIZE * q + r
  BY HeapAssumption
<1> HIDE DEF q, r
<1>2. q >= first
  <2> SUFFICES ASSUME q + 1 <= first PROVE FALSE
    BY <1>1
  <2>1. (q + 1) * PAGE_SIZE <= first * PAGE_SIZE
    BY <1>1
  <2> QED BY <1>1, <2>1
<1>3. q < first + needed
  <2> SUFFICES ASSUME q >= first + needed PROVE FALSE
    BY <1>1
  <2>1. q * PAGE_SIZE >= (first + needed) * PAGE_SIZE
    BY <1>1
  <2> QED BY <1>1, <2>1
<1> QED BY <1>1, <1>2, <1>3 DEF q

LEMMA Exact ==
  ASSUME NEW d \in Nat \ {0}, NEW x \in Nat, x % d = 0
  PROVE  x \div d \in Nat /\ x = (x \div d) * d
OBVIOUS

LEMMA Pagewise ==
  ASSUME NEW n \in Nat
  PROVE  /\ n * PAGE_SIZE \in Nat /\ (n * PAGE_SIZE) % PAGE_SIZE = 0
         /\ (n * PAGE_SIZE) % ALIGN = 0
<1>1. /\ PAGE_SIZE \in Nat \ {0} /\ PAGE_SIZE \in Int /\ n \in Int
      /\ ALIGN \in Nat \ {0} /\ PAGE_SIZE % ALIGN = 0
  BY HeapAssumption
<1>2. n * PAGE_SIZE \in Nat
  BY <1>1
<1>3. PAGE_SIZE % PAGE_SIZE = 0
  BY <1>1
<1>4. (n * PAGE_SIZE) % PAGE_SIZE = 0
  BY <1>1, <1>3, Products
<1>5. (n * PAGE_SIZE) % ALIGN = 0
  BY <1>1, Products
<1> QED BY <1>2, <1>4, <1>5

LEMMA BrkFacts ==
  ASSUME NEW h, Pages(h), NEW needed \in Nat
  PROVE  /\ h.brk \div PAGE_SIZE \in Nat /\ h.brk = (h.brk \div PAGE_SIZE) * PAGE_SIZE
         /\ h.brk % ALIGN = 0 /\ (needed * PAGE_SIZE) % ALIGN = 0
         /\ (h.brk + needed * PAGE_SIZE) % PAGE_SIZE = 0
<1> DEFINE brk == h.brk  first == brk \div PAGE_SIZE  room == needed * PAGE_SIZE
<1>1. PAGE_SIZE \in Nat \ {0} /\ brk \in Nat /\ brk % PAGE_SIZE = 0
  BY HeapAssumption DEF Pages
<1> HIDE DEF brk
<1>2. first \in Nat /\ brk = first * PAGE_SIZE
  BY <1>1, Exact
<1>3. brk % ALIGN = 0
  <2> HIDE DEF first
  <2> QED BY <1>2, Pagewise
<1>4. room \in Nat /\ room % PAGE_SIZE = 0 /\ room % ALIGN = 0
  BY Pagewise
<1> HIDE DEF room, first
<1>5. (brk + room) % PAGE_SIZE = 0
  <2>1. brk \in Int /\ room \in Int
    BY <1>1, <1>4
  <2> QED BY <1>1, <1>4, <2>1, Sums
<1> QED BY <1>2, <1>3, <1>4, <1>5 DEF brk, room, first

LEMMA GrownGood ==
  ASSUME NEW h, Good(h), NEW size \in Nat, NEW tables \in {0, 1},
         pages_needed(size) + tables <= h.frames
  PROVE  LET g == Grown(h, pages_needed(size), tables) IN
         Good(g) /\ Used(g) = Used(h) /\ Keeps(h, g)
<1> DEFINE needed == pages_needed(size)
           room == needed * PAGE_SIZE
           first == h.brk \div PAGE_SIZE
           more == h.mapped \cup first .. first + needed - 1
           longer == Append(h.free_list, h.brk)
           h1 == Put(h, h.brk, room - HEADER_SIZE, TRUE)
           g == Grown(h, needed, tables)
           b == h.brk
<1>1. /\ needed \in Nat /\ needed >= 1 /\ room \in Nat /\ room >= size + HEADER_SIZE
      /\ HEADER_SIZE \in Nat \ {0}
  BY PagesFacts, HeapAssumption
<1> HIDE DEF needed
<1>2. Written(h, h1, b, room - HEADER_SIZE, TRUE)
  BY PutFacts DEF Good
<1>3. /\ IsHeap(g) /\ g.header = h1.header /\ g.free_list = longer /\ g.memory = h1.memory
      /\ g.brk = b + room /\ g.mapped = more /\ g.frames = h.frames - needed - tables
  <2> HIDE DEF h1, longer, more
  <2>1. g = [h1 EXCEPT !.frames = h1.frames - needed - tables,
                 !.mapped = h1.mapped \cup first .. first + needed - 1,
                 !.brk = h1.brk + room, !.free_list = Append(h1.free_list, h.brk)]
    BY DEF Grown, h1
  <2>2. /\ h1.frames = h.frames /\ h1.mapped = h.mapped /\ h1.brk = h.brk
        /\ h1.free_list = h.free_list /\ IsHeap(h1)
    BY <1>2 DEF Written
  <2>3. g = [h1 EXCEPT !.frames = h.frames - needed - tables, !.mapped = more,
                 !.brk = b + room, !.free_list = longer]
    BY <2>1, <2>2 DEF longer, more
  <2> HIDE DEF g, room
  <2>4. g = [header |-> h1.header, free_list |-> longer, memory |-> h1.memory,
             brk |-> b + room, mapped |-> more, frames |-> h.frames - needed - tables]
    BY <2>2, <2>3 DEF IsHeap
  <2> QED BY <2>4 DEF IsHeap
<1> HIDE DEF g, h1
<1>4. /\ first \in Nat /\ b \in Nat /\ b = first * PAGE_SIZE /\ b % ALIGN = 0
      /\ room % ALIGN = 0 /\ (b + room) % PAGE_SIZE = 0
  <2>1. Pages(h)
    BY DEF Good
  <2> QED BY <1>1, <2>1, BrkFacts DEF Pages
<1>5. \A x \in BlocksOf(h) : /\ x \in Nat /\ x < EndOf(h, x) /\ EndOf(h, x) <= b /\ EndOf(h, x) \in Nat
                             /\ h.header[x].size \in Nat /\ h.header[x].is_free \in BOOLEAN
                             /\ EndOf(h, x) = x + HEADER_SIZE + h.header[x].size
  BY BlockFacts DEF Good
<1>6. b \notin BlocksOf(h)
  BY <1>4, <1>5
<1>7. /\ BlocksOf(g) = BlocksOf(h) \cup {b}
      /\ g.header[b].size = room - HEADER_SIZE /\ g.header[b].is_free = TRUE
      /\ \A x \in BlocksOf(h) : g.header[x] = h.header[x]
      /\ g.memory = Fill(h.memory, b, HEADER_SIZE, Header)
  BY <1>2, <1>3, <1>6 DEF Written, BlocksOf
<1>8. room - HEADER_SIZE \in Nat /\ b + room \in Nat
  BY <1>1, <1>4
<1>9. EndOf(g, b) = b + room /\ \A x \in BlocksOf(h) : EndOf(g, x) = EndOf(h, x)
  BY <1>1, <1>4, <1>7 DEF EndOf
<1> HIDE DEF room, first, more, longer
<1>10. Shape(g)
  <2> HIDE DEF b
  <2>1. BlocksOf(g) \subseteq Nat
    BY <1>4, <1>5, <1>7
  <2>2. \A x \in BlocksOf(g) : g.header[x].size \in Nat /\ g.header[x].is_free \in BOOLEAN
    BY <1>5, <1>7, <1>8
  <2>3. 0 \in BlocksOf(g)
    <3>1. CASE b = 0
      BY <1>7, <3>1
    <3>2. CASE b > 0
      BY <1>7, <3>2 DEF Good, Shape, b
    <3> QED BY <1>4, <3>1, <3>2
  <2>4. \A x \in BlocksOf(g) : EndOf(g, x) \in BlocksOf(g) \cup {g.brk} /\ EndOf(g, x) <= g.brk
    <3> TAKE x \in BlocksOf(g)
    <3>1. CASE x = b
      BY <1>3, <1>8, <1>9, <3>1
    <3>2. CASE x \in BlocksOf(h)
      <4>1. EndOf(h, x) \in BlocksOf(h) \cup {b}
        BY <3>2 DEF Good, Shape, b
      <4>2. b <= b + room
        BY <1>1, <1>4
      <4>3. EndOf(h, x) \in Nat /\ EndOf(h, x) <= b
        BY <1>5, <3>2
      <4>4. EndOf(h, x) <= b + room
        BY <1>4, <1>8, <4>2, <4>3
      <4> QED BY <1>3, <1>7, <1>9, <3>2, <4>1, <4>4
    <3> QED BY <1>7, <3>1, <3>2
  <2>5. \A x, y \in BlocksOf(g) : x < y => EndOf(g, x) <= y
    <3> SUFFICES ASSUME NEW x \in BlocksOf(g), NEW y \in BlocksOf(g), x < y
                 PROVE  EndOf(g, x) <= y
      OBVIOUS
    <3>1. x # b
      BY <1>4, <1>5, <1>7
    <3>2. CASE y = b
      BY <1>5, <1>7, <1>9, <3>1, <3>2
    <3>3. CASE y # b
      <4>1. x \in BlocksOf(h) /\ y \in BlocksOf(h)
        BY <1>7, <3>1, <3>3
      <4> QED BY <1>9, <4>1 DEF Good, Shape
    <3> QED BY <3>2, <3>3
  <2> QED BY <1>3, <1>8, <2>1, <2>2, <2>3, <2>4, <2>5 DEF Shape
<1>11. Even(g)
  <2>1. (room - HEADER_SIZE) % ALIGN = 0
    BY <1>1, <1>4, HeapAssumption, Sums
  <2> QED BY <1>4, <1>7, <2>1 DEF Even, Good
<1>12. Pages(g)
  <2> HIDE DEF b
  <2> DEFINE top == b + room
  <2>1. ASSUME NEW a \in 0 .. top - 1 PROVE a \div PAGE_SIZE \in more
    <3>1. CASE a < b
      BY <1>4, <3>1 DEF Good, Pages, more, b
    <3>2. CASE ~(a < b)
      <4>1. (first + needed) * PAGE_SIZE = b + room
        BY <1>1, <1>4, HeapAssumption DEF room
      <4>2. a \in Nat /\ first * PAGE_SIZE <= a /\ a < (first + needed) * PAGE_SIZE
        <5>1. a \in Nat /\ a < b + room /\ b <= a
          BY <1>1, <1>4, <3>2
        <5> QED BY <1>4, <4>1, <5>1
      <4>3. a \div PAGE_SIZE \in first .. first + needed - 1
        BY <1>1, <1>4, <4>2, PageOf
      <4> QED BY <4>3 DEF more
    <3> QED BY <3>1, <3>2
  <2>2. g.brk = top /\ g.mapped = more /\ top \in Nat /\ top % PAGE_SIZE = 0
    BY <1>3, <1>4, <1>8
  <2> HIDE DEF top
  <2> QED BY <2>1, <2>2 DEF Pages
<1>13. \A a \in Address : a \in Nat /\
         g.memory[a] = IF b <= a /\ a < b + HEADER_SIZE THEN Header ELSE h.memory[a]
  <2>1. \A a \in Address : a \in Nat
    BY DEF Address
  <2> QED BY <1>1, <1>4, <1>7, <2>1, FillFacts
<1>14. Headers(g)
  <2> HIDE DEF b
  <2>1. Headers(h)
    BY DEF Good
  <2> QED BY <1>7, <1>13, <2>1 DEF Headers
<1>15. g.memory \in [Address -> MarksOfBytes]
  <2> HIDE DEF b
  <2>1. Header \in MarksOfBytes
    BY DEF MarksOfBytes
  <2>2. h.memory \in [Address -> MarksOfBytes]
    BY DEF Good
  <2> QED BY <1>1, <1>4, <1>7, <2>1, <2>2, FillFacts
<1>16. Free(g) = Free(h) \cup {b} /\ b \notin Free(h) /\ Used(g) = Used(h)
  BY <1>6, <1>7 DEF Free, Used
<1>17. Lists(g.free_list, Free(g))
  BY <1>3, <1>16, AppendLists DEF Good, longer
<1>18. g.frames \in 0 .. MaxFrames
  BY <1>1, <1>3, HeapAssumption DEF Good, needed
<1>19. Keeps(h, g)
  <2> SUFFICES ASSUME NEW x \in Used(h) PROVE Untouched(h, g, x)
    BY DEF Keeps
  <2>1. x \in BlocksOf(h)
    BY DEF Used
  <2>2. Same(h, g, x, h.header[x].size)
    BY <1>4, <1>5, <1>13, <2>1 DEF Same
  <2> QED BY <1>7, <2>1, <2>2 DEF Untouched
<1> QED
  BY <1>3, <1>10, <1>11, <1>12, <1>14, <1>15, <1>16, <1>17, <1>18, <1>19 DEF Good, g, needed

LEMMA FailedGood ==
  ASSUME NEW h, Good(h), NEW needed, NEW done
  PROVE  LET g == Failed(h, needed, done) IN
         Good(g) /\ Used(g) = Used(h) /\ Keeps(h, g)
<1> DEFINE g == Failed(h, needed, done)
           first == h.brk \div PAGE_SIZE
           more == h.mapped \cup first .. first + done - 1
<1>1. /\ IsHeap(g) /\ g.header = h.header /\ g.free_list = h.free_list /\ g.memory = h.memory
      /\ g.brk = h.brk /\ g.mapped = more /\ g.frames = 0
  <2>1. g = [h EXCEPT !.frames = 0, !.mapped = more] /\ IsHeap(h)
    BY DEF Failed, Good
  <2> HIDE DEF g, more
  <2>2. g = [header |-> h.header, free_list |-> h.free_list, memory |-> h.memory,
             brk |-> h.brk, mapped |-> more, frames |-> 0]
    BY <2>1 DEF IsHeap
  <2> QED BY <2>2 DEF IsHeap
<1>2. h.mapped \subseteq more
  OBVIOUS
<1> HIDE DEF g, more
<1>3. BlocksOf(g) = BlocksOf(h) /\ Used(g) = Used(h) /\ Free(g) = Free(h)
  BY <1>1 DEF BlocksOf, Used, Free
<1>4. \A x : EndOf(g, x) = EndOf(h, x)
  BY <1>1 DEF EndOf
<1>5. Shape(g) /\ Even(g) /\ Headers(g)
  BY <1>1, <1>3, <1>4 DEF Good, Shape, Even, Headers
<1>6. Pages(g)
  BY <1>1, <1>2 DEF Good, Pages
<1>7. 0 \in 0 .. MaxFrames
  BY HeapAssumption
<1>8. Keeps(h, g)
  BY <1>1, <1>3 DEF Keeps, Untouched, Same, Used
<1> QED BY <1>1, <1>3, <1>5, <1>6, <1>7, <1>8 DEF Good, g

LEMMA ExpandGood ==
  ASSUME NEW h, Good(h), NEW n \in Nat, NEW e \in expand_heap(h, n)
  PROVE  Good(e.heap) /\ Used(e.heap) = Used(h) /\ Keeps(h, e.heap)
<1> DEFINE needed == pages_needed(n)
<1>1. CASE \E tables \in {t \in {0, 1} : needed + t <= h.frames} :
             e = [ok |-> TRUE, heap |-> Grown(h, needed, tables)]
  <2>1. PICK tables \in {0, 1} : /\ needed + tables <= h.frames
                                 /\ e = [ok |-> TRUE, heap |-> Grown(h, needed, tables)]
    BY <1>1
  <2> QED BY <2>1, GrownGood
<1>2. CASE \E done \in {d \in 0 .. needed - 1 : d <= h.frames /\ h.frames <= d + 1} :
             e = [ok |-> FALSE, heap |-> Failed(h, needed, done)]
  <2>1. PICK done : e = [ok |-> FALSE, heap |-> Failed(h, needed, done)]
    BY <1>2
  <2> QED BY <2>1, FailedGood
<1> QED BY <1>1, <1>2 DEF expand_heap

(***************************************************************************)
(* The calls                                                               *)
(***************************************************************************)

\* o answers a request for size bytes, of a caller that finds the heap at h.
Answer(h, o, size) ==
  /\ o = [heap |-> o.heap, ptr |-> o.ptr]
  /\ \/ o.ptr = NULL /\ Good(o.heap) /\ Used(o.heap) = Used(h) /\ Keeps(h, o.heap)
     \/ size > 0 /\ \E b \in Nat : o.ptr = b + HEADER_SIZE /\ Given(h, o.heap, b, size)

LEMMA GoodKeepsItself ==
  ASSUME NEW h PROVE Keeps(h, h)
BY DEF Keeps, Untouched, Same, Used

LEMMA TakeAnswers ==
  ASSUME NEW h, NEW g, Good(g), Used(g) = Used(h), Keeps(h, g),
         NEW size \in Nat \ {0}, NEW o \in FirstFit(g, Aligned(size))
  PROVE  Answer(h, o, size)
<1> DEFINE n == Aligned(size)
<1>1. n \in Nat /\ n >= size /\ n % ALIGN = 0
  BY AlignedFacts
<1> HIDE DEF n
<1>2. PICK b : o.ptr = b + HEADER_SIZE /\ Given(g, o.heap, b, n)
  BY <1>1, TakeGiven DEF n
<1>3. o = [heap |-> o.heap, ptr |-> o.ptr]
  <2>1. PICK i : o = take(g, i, n)
    BY DEF FirstFit, n
  <2>2. \E u, v : o = [heap |-> u, ptr |-> v]
    BY <2>1 DEF take
  <2> QED BY <2>2
<1>4. b \in Nat /\ o.heap.header[b].size \in Nat
  BY <1>2, BlockFacts DEF Given, Good
<1>5. Keeps(h, o.heap)
  BY <1>2, KeepsTransitive DEF Given
<1>6. Given(h, o.heap, b, size)
  BY <1>1, <1>2, <1>4, <1>5 DEF Given
<1> QED BY <1>2, <1>3, <1>4, <1>6 DEF Answer

LEMMA KmallocAnswers ==
  ASSUME NEW h, Good(h), NEW size \in Nat, NEW o \in kmalloc(h, size)
  PROVE  Answer(h, o, size)
<1> DEFINE n == Aligned(size)
<1>1. n \in Nat
  BY AlignedFacts
<1>2. Keeps(h, h)
  BY GoodKeepsItself
<1>3. ASSUME NEW g, Good(g), Used(g) = Used(h), Keeps(h, g), o \in Refused(g)
      PROVE  Answer(h, o, size)
  BY <1>3 DEF Refused, Answer
<1>4. CASE size = 0
  <2>1. o \in Refused(h)
    BY <1>4 DEF kmalloc
  <2> QED BY <1>2, <1>3, <2>1
<1>5. CASE size # 0 /\ Fitting(h, n) # {}
  <2>1. o \in FirstFit(h, n) /\ size \in Nat \ {0}
    BY <1>5 DEF kmalloc
  <2> QED BY <1>2, <2>1, TakeAnswers
<1>6. CASE size # 0 /\ ~(Fitting(h, n) # {})
  <2>1. PICK e \in expand_heap(h, n) :
          o \in IF e.ok THEN FirstFit(e.heap, n) ELSE Refused(e.heap)
    BY <1>6 DEF kmalloc
  <2>2. Good(e.heap) /\ Used(e.heap) = Used(h) /\ Keeps(h, e.heap)
    BY <1>1, ExpandGood
  <2>3. CASE e.ok
    <3>1. o \in FirstFit(e.heap, n) /\ size \in Nat \ {0}
      BY <1>6, <2>1, <2>3
    <3> QED BY <2>2, <3>1, TakeAnswers
  <2>4. CASE ~e.ok
    <3>1. o \in Refused(e.heap)
      BY <2>1, <2>4
    <3> QED BY <1>3, <2>2, <3>1
  <2> QED BY <2>3, <2>4
<1> QED BY <1>4, <1>5, <1>6

\* g is h with block b free; the others are as they were.
Freeing(h, g, b) ==
  /\ Good(g) /\ Used(g) = Used(h) \ {b} /\ BlocksOf(g) = BlocksOf(h) /\ g.brk = h.brk
  /\ g.header[b].size = h.header[b].size
  /\ \A x \in BlocksOf(h) : x # b => Untouched(h, g, x)

LEMMA KfreeFrees ==
  ASSUME NEW h, Good(h), NEW b \in Used(h)
  PROVE  Freeing(h, kfree(h, b + HEADER_SIZE), b)
<1> DEFINE h1 == Put(h, b, h.header[b].size, TRUE)
           longer == <<b>> \o h.free_list
           g == kfree(h, b + HEADER_SIZE)
<1>1. /\ IsHeap(h) /\ Shape(h) /\ Even(h) /\ Pages(h) /\ Headers(h)
      /\ Lists(h.free_list, Free(h)) /\ h.memory \in [Address -> MarksOfBytes]
      /\ h.frames \in 0 .. MaxFrames
  BY DEF Good
<1>2. b \in BlocksOf(h) /\ ~h.header[b].is_free /\ b \notin Free(h)
  BY DEF Used, Free
<1>3. /\ b \in Nat /\ h.header[b].size \in Nat /\ HEADER_SIZE \in Nat \ {0}
      /\ EndOf(h, b) = b + HEADER_SIZE + h.header[b].size
  BY <1>1, <1>2, BlockFacts
<1>4. Written(h, h1, b, h.header[b].size, TRUE)
  BY <1>1, PutFacts
<1> HIDE DEF h1
<1>5. g = [h1 EXCEPT !.free_list = <<b>> \o h1.free_list]
  <2>1. (b + HEADER_SIZE) - HEADER_SIZE = b
    BY <1>3
  <2> QED BY <1>2, <2>1 DEF kfree, h1
<1> HIDE DEF g
<1>6. /\ IsHeap(g) /\ g.header = h1.header /\ g.free_list = longer /\ g.memory = h1.memory
      /\ g.brk = h.brk /\ g.mapped = h.mapped /\ g.frames = h.frames
  <2>1. g = [h1 EXCEPT !.free_list = longer] /\ IsHeap(h1)
    BY <1>4, <1>5 DEF Written
  <2> HIDE DEF longer
  <2>2. g = [header |-> h1.header, free_list |-> longer, memory |-> h1.memory,
             brk |-> h1.brk, mapped |-> h1.mapped, frames |-> h1.frames]
    BY <2>1 DEF IsHeap
  <2> QED BY <1>4, <2>2 DEF IsHeap, Written
<1> HIDE DEF longer
<1>7. /\ BlocksOf(g) = BlocksOf(h)
      /\ g.header[b].size = h.header[b].size /\ g.header[b].is_free = TRUE
      /\ \A x \in BlocksOf(h) : x # b => g.header[x] = h.header[x]
      /\ g.memory = Fill(h.memory, b, HEADER_SIZE, Header)
  BY <1>2, <1>4, <1>6 DEF Written, BlocksOf
<1>8. \A x \in BlocksOf(h) : g.header[x].size = h.header[x].size /\ EndOf(g, x) = EndOf(h, x)
  BY <1>7 DEF EndOf
<1>9. \A x \in BlocksOf(h) : g.header[x].is_free \in BOOLEAN
  BY <1>1, <1>7 DEF Shape
<1>10. Shape(g) /\ Even(g) /\ Pages(g)
  <2>1. Shape(g)
    BY <1>1, <1>6, <1>7, <1>8, <1>9 DEF Shape
  <2>2. Even(g) /\ Pages(g)
    BY <1>1, <1>6, <1>7, <1>8 DEF Even, Pages
  <2> QED BY <2>1, <2>2
<1>11. \A a \in Address : a \in Nat /\
         g.memory[a] = IF b <= a /\ a < b + HEADER_SIZE THEN Header ELSE h.memory[a]
  <2>1. \A a \in Address : a \in Nat
    BY DEF Address
  <2> QED BY <1>3, <1>7, <2>1, FillFacts
<1>12. Headers(g)
  BY <1>1, <1>7, <1>11 DEF Headers
<1>13. g.memory \in [Address -> MarksOfBytes]
  <2>1. Header \in MarksOfBytes
    BY DEF MarksOfBytes
  <2> QED BY <1>1, <1>3, <1>7, <2>1, FillFacts
<1>14. Free(g) = Free(h) \cup {b} /\ Used(g) = Used(h) \ {b}
  BY <1>2, <1>7 DEF Free, Used
<1>15. Lists(g.free_list, Free(g))
  BY <1>1, <1>2, <1>6, <1>14, PushLists DEF longer
<1>16. \A x \in BlocksOf(h) : x # b => Untouched(h, g, x)
  <2> SUFFICES ASSUME NEW x \in BlocksOf(h), x # b PROVE Untouched(h, g, x)
    OBVIOUS
  <2>1. /\ x \in Nat /\ h.header[x].size \in Nat
        /\ EndOf(h, x) = x + HEADER_SIZE + h.header[x].size
    BY <1>1, BlockFacts
  <2>2. EndOf(h, x) <= b \/ EndOf(h, b) <= x
    BY <1>1, <1>2, Apart
  <2>3. Same(h, g, x, h.header[x].size)
    BY <1>3, <1>11, <2>1, <2>2 DEF Same
  <2> QED BY <1>7, <2>3 DEF Untouched
<1>17. Good(g)
  BY <1>1, <1>6, <1>10, <1>12, <1>13, <1>15 DEF Good
<1> QED BY <1>6, <1>7, <1>14, <1>16, <1>17 DEF Freeing, g

(***************************************************************************)
(* What is written in the bytes of a block                                 *)
(***************************************************************************)

\* m is the memory of h but for the bytes of block b.
Inside(h, m, b) ==
  /\ m \in [Address -> MarksOfBytes]
  /\ \A a \in Address : a < b + HEADER_SIZE \/ EndOf(h, b) <= a => m[a] = h.memory[a]

Rewritten(h, g, b) ==
  /\ Good(g) /\ g.header = h.header /\ g.brk = h.brk
  /\ BlocksOf(g) = BlocksOf(h) /\ Used(g) = Used(h)
  /\ \A x \in BlocksOf(h) : x # b => Untouched(h, g, x)

LEMMA InsideRewrites ==
  ASSUME NEW h, Good(h), NEW b \in BlocksOf(h), NEW m, Inside(h, m, b)
  PROVE  LET g == [h EXCEPT !.memory = m] IN
         Rewritten(h, g, b) /\ g.memory = m /\ g.frames = h.frames
<1> DEFINE g == [h EXCEPT !.memory = m]
<1>1. /\ IsHeap(h) /\ Shape(h) /\ Even(h) /\ Pages(h) /\ Headers(h)
      /\ Lists(h.free_list, Free(h)) /\ h.frames \in 0 .. MaxFrames
  BY DEF Good
<1>2. /\ IsHeap(g) /\ g.header = h.header /\ g.free_list = h.free_list /\ g.memory = m
      /\ g.brk = h.brk /\ g.mapped = h.mapped /\ g.frames = h.frames
  <2>1. g = [header |-> h.header, free_list |-> h.free_list, memory |-> m,
             brk |-> h.brk, mapped |-> h.mapped, frames |-> h.frames]
    BY <1>1 DEF IsHeap
  <2> HIDE DEF g
  <2> QED BY <2>1 DEF IsHeap
<1> HIDE DEF g
<1>3. BlocksOf(g) = BlocksOf(h) /\ Used(g) = Used(h) /\ Free(g) = Free(h)
  BY <1>2 DEF BlocksOf, Used, Free
<1>4. \A x : EndOf(g, x) = EndOf(h, x)
  BY <1>2 DEF EndOf
<1>5. Shape(g) /\ Even(g) /\ Pages(g)
  BY <1>1, <1>2, <1>3, <1>4 DEF Shape, Even, Pages
<1>6. \A x \in BlocksOf(h) : x # b => EndOf(h, x) <= b \/ EndOf(h, b) <= x
  BY <1>1, Apart
<1>7. \A x \in BlocksOf(h) :
        /\ x \in Nat /\ h.header[x].size \in Nat /\ HEADER_SIZE \in Nat /\ EndOf(h, x) \in Nat
        /\ EndOf(h, x) = x + HEADER_SIZE + h.header[x].size
  BY <1>1, BlockFacts
<1>8. \A a \in Address : a \in Nat /\
        (a < b + HEADER_SIZE \/ EndOf(h, b) <= a => g.memory[a] = h.memory[a])
  BY <1>2 DEF Inside, Address
<1>9. Headers(g)
  <2> SUFFICES ASSUME NEW x \in BlocksOf(h), NEW a \in Address, x <= a, a < x + HEADER_SIZE
               PROVE  g.memory[a] = Header
    BY <1>3 DEF Headers
  <2>1. h.memory[a] = Header
    BY <1>1 DEF Headers
  <2>2. a < b + HEADER_SIZE \/ EndOf(h, b) <= a
    <3>1. a \in Nat
      BY <1>8
    <3> QED BY <1>6, <1>7, <3>1
  <2> QED BY <1>8, <2>1, <2>2
<1>10. \A x \in BlocksOf(h) : x # b => Untouched(h, g, x)
  <2> SUFFICES ASSUME NEW x \in BlocksOf(h), x # b PROVE Untouched(h, g, x)
    OBVIOUS
  <2>1. Same(h, g, x, h.header[x].size)
    <3> SUFFICES ASSUME NEW a \in Address, x + HEADER_SIZE <= a,
                        a < x + HEADER_SIZE + h.header[x].size
                 PROVE  g.memory[a] = h.memory[a]
      BY DEF Same
    <3>1. a \in Nat /\ (EndOf(h, x) <= b \/ EndOf(h, b) <= x)
      BY <1>6, <1>8
    <3>2. a < b + HEADER_SIZE \/ EndOf(h, b) <= a
      BY <1>7, <3>1
    <3> QED BY <1>8, <3>2
  <2> QED BY <1>2, <1>3, <2>1 DEF Untouched
<1>11. g.memory \in [Address -> MarksOfBytes]
  BY <1>2 DEF Inside
<1>12. Good(g)
  BY <1>1, <1>2, <1>3, <1>5, <1>9, <1>11 DEF Good
<1> QED BY <1>2, <1>3, <1>10, <1>12 DEF Rewritten, g

LEMMA MemoryInside ==
  ASSUME NEW h, Good(h), NEW b
  PROVE  Inside(h, h.memory, b)
BY DEF Inside, Good

LEMMA FillInside ==
  ASSUME NEW h, Good(h), NEW b \in BlocksOf(h), NEW m, Inside(h, m, b),
         NEW p \in Int, NEW n \in Int, b + HEADER_SIZE <= p, n <= 0 \/ p + n <= EndOf(h, b),
         NEW mark \in MarksOfBytes
  PROVE  Inside(h, Fill(m, p, n, mark), b)
<1> DEFINE filled == Fill(m, p, n, mark)
<1>1. b \in Nat /\ HEADER_SIZE \in Nat /\ EndOf(h, b) \in Nat
  BY BlockFacts DEF Good
<1>2. m \in [Address -> MarksOfBytes]
  BY DEF Inside
<1>3. filled \in [Address -> MarksOfBytes]
  BY <1>2, FillFacts
<1>4. \A a \in Address : a \in Nat /\
        filled[a] = IF p <= a /\ a < p + n THEN mark ELSE m[a]
  <2>1. \A a \in Address : a \in Nat
    BY DEF Address
  <2> QED BY <2>1, FillFacts
<1> HIDE DEF filled
<1>5. ASSUME NEW a \in Address, a < b + HEADER_SIZE \/ EndOf(h, b) <= a
      PROVE  filled[a] = h.memory[a]
  <2>1. ~(p <= a /\ a < p + n)
    BY <1>1, <1>4, <1>5
  <2>2. m[a] = h.memory[a]
    BY <1>5 DEF Inside
  <2> QED BY <1>4, <2>1, <2>2
<1> QED BY <1>3, <1>5 DEF Inside, filled

(***************************************************************************)
(* The heap and its callers                                                *)
(***************************************************************************)

\* The owner of p, of which r is the record, finds its bytes as it left them.
Owner(h, p, r) ==
  /\ r = [n |-> r.n, mark |-> r.mark] /\ r.n \in Nat /\ r.mark \in {Zero} \cup Marks
  /\ p \in Nat /\ p - HEADER_SIZE \in Used(h)
  /\ r.n <= h.header[p - HEADER_SIZE].size
  /\ \A a \in Address : p <= a /\ a < p + r.n => h.memory[a] = r.mark

\* Every block in use is some caller's, and no caller's is anything else.
Lawful(h, lv) ==
  /\ Good(h) /\ h.brk <= HeapTop
  /\ lv = [p \in DOMAIN lv |-> lv[p]]
  /\ \A p \in DOMAIN lv : Owner(h, p, lv[p])
  /\ \A b \in Used(h) : b + HEADER_SIZE \in DOMAIN lv

Adding(lv, p, r) == [q \in DOMAIN lv \cup {p} |-> IF q = p THEN r ELSE lv[q]]
Dropping(lv, p) == [q \in DOMAIN lv \ {p} |-> lv[q]]
Moving(lv, p, q, r) == [x \in (DOMAIN lv \ {p}) \cup {q} |-> IF x = q THEN r ELSE lv[x]]

LEMMA PointerFacts ==
  ASSUME NEW b \in Int, NEW c \in Int
  PROVE  /\ b + HEADER_SIZE \in Int /\ (b + HEADER_SIZE) - HEADER_SIZE = b
         /\ (b - HEADER_SIZE) + HEADER_SIZE = b
         /\ (b + HEADER_SIZE = c + HEADER_SIZE => b = c)
         /\ (b - HEADER_SIZE = c - HEADER_SIZE => b = c)
BY HeapAssumption

LEMMA UntouchedTransitive ==
  ASSUME NEW h, NEW g, NEW k, NEW x, Untouched(h, g, x), Untouched(g, k, x)
  PROVE  Untouched(h, k, x)
BY DEF Untouched, Same

LEMMA OwnerKept ==
  ASSUME NEW h, NEW g, Good(h), NEW p, NEW r, Owner(h, p, r),
         Untouched(h, g, p - HEADER_SIZE)
  PROVE  Owner(g, p, r)
<1> DEFINE b == p - HEADER_SIZE
<1>1. /\ r = [n |-> r.n, mark |-> r.mark] /\ r.n \in Nat /\ r.mark \in {Zero} \cup Marks
      /\ p \in Nat /\ b \in Used(h) /\ r.n <= h.header[b].size
      /\ \A a \in Address : p <= a /\ a < p + r.n => h.memory[a] = r.mark
  BY DEF Owner
<1>2. b \in BlocksOf(g) /\ g.header[b] = h.header[b] /\ Same(h, g, b, h.header[b].size)
  BY DEF Untouched
<1>3. b + HEADER_SIZE = p
  BY <1>1, PointerFacts
<1> HIDE DEF b
<1>4. b \in BlocksOf(h) /\ b \in Used(g)
  BY <1>1, <1>2 DEF Used
<1>5. h.header[b].size \in Nat
  BY <1>4, BlockFacts DEF Good
<1>6. ASSUME NEW a \in Address, p <= a, a < p + r.n PROVE g.memory[a] = r.mark
  <2>1. a \in Nat /\ b + HEADER_SIZE <= a /\ a < b + HEADER_SIZE + h.header[b].size
    BY <1>1, <1>3, <1>5, <1>6 DEF Address
  <2>2. g.memory[a] = h.memory[a]
    BY <1>2, <2>1 DEF Same
  <2> QED BY <1>1, <1>6, <2>2
<1> QED BY <1>1, <1>2, <1>4, <1>6 DEF Owner, b

LEMMA OwnersApart ==
  ASSUME NEW h, NEW lv, Lawful(h, lv), NEW p \in DOMAIN lv, NEW q \in DOMAIN lv, p # q
  PROVE  p - HEADER_SIZE # q - HEADER_SIZE
<1>1. p \in Nat /\ q \in Nat
  BY DEF Lawful, Owner
<1> QED BY <1>1, PointerFacts

LEMMA SameLawful ==
  ASSUME NEW h, NEW lv, Lawful(h, lv),
         NEW f, Good(f), f.brk <= HeapTop, Used(f) = Used(h), Keeps(h, f)
  PROVE  Lawful(f, lv)
<1>1. ASSUME NEW p \in DOMAIN lv PROVE Owner(f, p, lv[p])
  <2>1. Owner(h, p, lv[p]) /\ Good(h)
    BY DEF Lawful
  <2>2. Untouched(h, f, p - HEADER_SIZE)
    BY <2>1 DEF Owner, Keeps
  <2> QED BY <2>1, <2>2, OwnerKept
<1> QED BY <1>1 DEF Lawful

LEMMA AddLawful ==
  ASSUME NEW h, NEW lv, Lawful(h, lv), NEW b \in Nat, NEW r,
         NEW f, Good(f), f.brk <= HeapTop,
         b \notin Used(h), Used(f) = Used(h) \cup {b}, Keeps(h, f),
         Owner(f, b + HEADER_SIZE, r)
  PROVE  Lawful(f, Adding(lv, b + HEADER_SIZE, r)) /\ b + HEADER_SIZE \notin DOMAIN lv
<1> DEFINE p == b + HEADER_SIZE  new == Adding(lv, p, r)
<1>1. p - HEADER_SIZE = b
  BY PointerFacts
<1>2. p \notin DOMAIN lv
  BY <1>1 DEF Lawful, Owner
<1> HIDE DEF p
<1>3. /\ DOMAIN new = DOMAIN lv \cup {p} /\ new[p] = r /\ new = [q \in DOMAIN new |-> new[q]]
      /\ \A q \in DOMAIN lv : new[q] = lv[q]
  BY <1>2 DEF Adding
<1> HIDE DEF new
<1>4. ASSUME NEW q \in DOMAIN lv PROVE Owner(f, q, new[q])
  <2>1. Owner(h, q, lv[q]) /\ Good(h)
    BY DEF Lawful
  <2>2. Untouched(h, f, q - HEADER_SIZE)
    BY <2>1 DEF Owner, Keeps
  <2> QED BY <1>3, <2>1, <2>2, OwnerKept
<1>5. \A q \in DOMAIN new : Owner(f, q, new[q])
  BY <1>3, <1>4 DEF p
<1>6. \A x \in Used(f) : x + HEADER_SIZE \in DOMAIN new
  BY <1>3 DEF Lawful, p
<1> QED BY <1>2, <1>3, <1>5, <1>6 DEF Lawful, new, p

LEMMA DropLawful ==
  ASSUME NEW h, NEW lv, Lawful(h, lv), NEW p \in DOMAIN lv,
         NEW f, Good(f), f.brk <= HeapTop, Used(f) = Used(h) \ {p - HEADER_SIZE},
         \A x \in Used(h) : x # p - HEADER_SIZE => Untouched(h, f, x)
  PROVE  Lawful(f, Dropping(lv, p))
<1> DEFINE new == Dropping(lv, p)
<1>1. /\ DOMAIN new = DOMAIN lv \ {p} /\ new = [q \in DOMAIN new |-> new[q]]
      /\ \A q \in DOMAIN new : new[q] = lv[q]
  BY DEF Dropping
<1> HIDE DEF new
<1>2. ASSUME NEW q \in DOMAIN new PROVE Owner(f, q, new[q])
  <2>1. Owner(h, q, lv[q]) /\ Good(h) /\ q \in DOMAIN lv /\ q # p
    BY <1>1 DEF Lawful
  <2>2. q - HEADER_SIZE # p - HEADER_SIZE
    BY <2>1, OwnersApart
  <2>3. Untouched(h, f, q - HEADER_SIZE)
    BY <2>1, <2>2 DEF Owner
  <2> QED BY <1>1, <2>1, <2>3, OwnerKept
<1>3. ASSUME NEW x \in Used(f) PROVE x + HEADER_SIZE \in DOMAIN new
  <2>1. x \in Used(h) /\ x # p - HEADER_SIZE
    OBVIOUS
  <2>2. x \in Nat
    BY <2>1, BlockFacts DEF Lawful, Good, Used
  <2>3. x + HEADER_SIZE # p
    BY <2>1, <2>2, PointerFacts
  <2> QED BY <1>1, <2>1, <2>3 DEF Lawful
<1> QED BY <1>1, <1>2, <1>3 DEF Lawful, new

LEMMA MoveLawful ==
  ASSUME NEW h, NEW lv, Lawful(h, lv), NEW p \in DOMAIN lv, NEW b \in Nat, NEW r,
         NEW f, Good(f), f.brk <= HeapTop,
         b \in Used(h) => b = p - HEADER_SIZE,
         Used(f) = (Used(h) \ {p - HEADER_SIZE}) \cup {b},
         \A x \in Used(h) : x # p - HEADER_SIZE => Untouched(h, f, x),
         Owner(f, b + HEADER_SIZE, r)
  PROVE  /\ Lawful(f, Moving(lv, p, b + HEADER_SIZE, r))
         /\ b + HEADER_SIZE \notin DOMAIN lv \ {p}
<1> DEFINE q == b + HEADER_SIZE  new == Moving(lv, p, q, r)
<1>1. q - HEADER_SIZE = b
  BY PointerFacts
<1>2. q \notin DOMAIN lv \ {p}
  <2> SUFFICES ASSUME q \in DOMAIN lv, q # p PROVE FALSE
    OBVIOUS
  <2>1. b \in Used(h)
    BY <1>1 DEF Lawful, Owner
  <2>2. b # p - HEADER_SIZE
    BY <1>1, OwnersApart
  <2> QED BY <2>1, <2>2
<1> HIDE DEF q
<1>3. /\ DOMAIN new = (DOMAIN lv \ {p}) \cup {q} /\ new[q] = r
      /\ new = [x \in DOMAIN new |-> new[x]]
      /\ \A x \in DOMAIN lv : x # p => new[x] = lv[x]
  BY <1>2 DEF Moving
<1> HIDE DEF new
<1>4. ASSUME NEW x \in DOMAIN lv, x # p PROVE Owner(f, x, new[x])
  <2>1. Owner(h, x, lv[x]) /\ Good(h)
    BY DEF Lawful
  <2>2. x - HEADER_SIZE # p - HEADER_SIZE
    BY <1>4, OwnersApart
  <2>3. Untouched(h, f, x - HEADER_SIZE)
    BY <2>1, <2>2 DEF Owner
  <2> QED BY <1>3, <1>4, <2>1, <2>3, OwnerKept
<1>5. \A x \in DOMAIN new : Owner(f, x, new[x])
  BY <1>3, <1>4 DEF q
<1>6. ASSUME NEW x \in Used(f) PROVE x + HEADER_SIZE \in DOMAIN new
  <2>1. CASE x = b
    BY <1>3, <2>1 DEF q
  <2>2. CASE x # b
    <3>1. x \in Used(h) /\ x # p - HEADER_SIZE
      BY <2>2
    <3>2. x \in Nat
      BY <3>1, BlockFacts DEF Lawful, Good, Used
    <3>3. x + HEADER_SIZE # p
      BY <3>1, <3>2, PointerFacts
    <3> QED BY <1>3, <3>1, <3>3 DEF Lawful
  <2> QED BY <2>1, <2>2
<1> QED BY <1>2, <1>3, <1>5, <1>6 DEF Lawful, new, q

(***************************************************************************)
(* The invariant, and the steps                                            *)
(***************************************************************************)
Inv == Lawful(Heap, live)

Asked == Sizes \cup {2 * s : s \in Sizes}

\* What a step does to the regions callers hold.
Change ==
  \/ live' = live
  \/ \E p, r : p \notin DOMAIN live /\ r.n \in Asked /\ r.n > 0 /\ live' = Adding(live, p, r)
  \/ \E p \in DOMAIN live : live' = Dropping(live, p)
  \/ \E p \in DOMAIN live : \E q, r : /\ q \notin DOMAIN live \ {p}
                                       /\ r.n \in Asked /\ r.n > 0
                                       /\ live' = Moving(live, p, q, r)

LEMMA HeapIs ==
  ASSUME NEW g, IsHeap(g), HeapBecomes(g)
  PROVE  Heap' = g
BY DEF IsHeap, HeapBecomes, Heap

LEMMA BecomesLawful ==
  ASSUME NEW g, NEW lv, Lawful(g, lv), HeapBecomes(g), live' = lv
  PROVE  Inv'
<1>1. Heap' = g
  BY HeapIs DEF Lawful, Good
<1> QED BY <1>1 DEF Inv

LEMMA SizesFacts ==
  /\ Sizes \subseteq Nat /\ \A s \in Sizes : 2 * s \in Nat /\ 2 * s \in Asked /\ s \in Asked
  /\ \A mark \in Marks \cup {Zero, Stale} : mark \in MarksOfBytes
  /\ Marks \subseteq {Zero} \cup Marks /\ Unused \subseteq Marks /\ Zero \in {Zero} \cup Marks
BY HeapAssumption DEF Asked, MarksOfBytes, Unused

\* A caller given block b in answer to its call, that fills it with its mark.
LEMMA FilledLawful ==
  ASSUME NEW h, NEW lv, Lawful(h, lv), NEW b \in Nat, NEW g, NEW size \in Nat,
         Given(h, g, b, size), g.brk <= HeapTop, NEW mark \in {Zero} \cup Marks
  PROVE  LET p == b + HEADER_SIZE
             f == [g EXCEPT !.memory = Fill(@, p, size, mark)]
         IN  /\ Lawful(f, Adding(lv, p, [n |-> size, mark |-> mark]))
             /\ p \notin DOMAIN lv
<1> DEFINE p == b + HEADER_SIZE
           m == Fill(g.memory, p, size, mark)
           f == [g EXCEPT !.memory = m]
           r == [n |-> size, mark |-> mark]
<1>1. /\ Good(g) /\ b \in BlocksOf(g) /\ b \notin Used(h) /\ Used(g) = Used(h) \cup {b}
      /\ g.header[b].size >= size /\ Keeps(h, g)
  BY DEF Given
<1>2. /\ HEADER_SIZE \in Nat /\ p \in Nat /\ g.header[b].size \in Nat
      /\ p + size <= EndOf(g, b) /\ p - HEADER_SIZE = b
  BY <1>1, BlockFacts DEF Good
<1> HIDE DEF p
<1>3. Inside(g, m, b)
  <2>1. mark \in MarksOfBytes
    BY SizesFacts
  <2>2. Inside(g, g.memory, b)
    BY <1>1, MemoryInside
  <2> QED BY <1>1, <1>2, <2>1, <2>2, FillInside DEF p
<1>4. Rewritten(g, f, b) /\ f.memory = m
  BY <1>1, <1>3, InsideRewrites
<1> HIDE DEF f
<1>5. /\ Good(f) /\ f.brk <= HeapTop /\ Used(f) = Used(h) \cup {b}
      /\ f.header[b].size >= size
  BY <1>1, <1>4 DEF Rewritten
<1>6. Keeps(h, f)
  <2> SUFFICES ASSUME NEW x \in Used(h) PROVE Untouched(h, f, x)
    BY DEF Keeps
  <2>1. Untouched(h, g, x) /\ x # b
    BY <1>1 DEF Keeps
  <2>2. Untouched(g, f, x)
    BY <1>4, <2>1 DEF Rewritten, Untouched
  <2> QED BY <2>1, <2>2, UntouchedTransitive
<1>7. Owner(f, p, r)
  <2>1. \A a \in Address : p <= a /\ a < p + size => f.memory[a] = mark
    <3>1. p \in Int /\ size \in Int
      BY <1>2
    <3>2. \A a \in Address : m[a] = IF p <= a /\ a < p + size THEN mark ELSE g.memory[a]
      BY <3>1, FillFacts
    <3> QED BY <1>4, <3>2
  <2>2. size <= f.header[b].size
    BY <1>2, <1>4, <1>1 DEF Rewritten
  <2>3. r = [n |-> r.n, mark |-> r.mark] /\ r.n = size /\ r.mark = mark
    OBVIOUS
  <2> HIDE DEF r
  <2> QED BY <1>2, <1>5, <2>1, <2>2, <2>3 DEF Owner
<1>8. Lawful(f, Adding(lv, p, r)) /\ p \notin DOMAIN lv
  BY <1>1, <1>5, <1>6, <1>7, AddLawful DEF p
<1>9. f = [g EXCEPT !.memory = Fill(@, p, size, mark)]
  BY DEF f
<1> QED BY <1>8, <1>9 DEF p

LEMMA KmallocStep ==
  ASSUME Inv, NEW size \in Sizes, NEW mark \in Unused, Kmalloc(size, mark)
  PROVE  Inv' /\ Change
<1>1. PICK o \in kmalloc(Heap, size) :
        /\ o.heap.brk <= HeapTop
        /\ IF o.ptr = NULL THEN HeapBecomes(o.heap) /\ UNCHANGED live
           ELSE /\ Own(o.ptr, size, mark)
                /\ HeapBecomes([o.heap EXCEPT !.memory = Fill(@, o.ptr, size, mark)])
  BY DEF Kmalloc, Outcomes
<1>2. size \in Nat /\ mark \in {Zero} \cup Marks /\ size \in Asked
  BY SizesFacts
<1>3. Lawful(Heap, live) /\ Good(Heap)
  BY DEF Inv, Lawful
<1>4. Answer(Heap, o, size)
  BY <1>2, <1>3, KmallocAnswers
<1>5. CASE o.ptr = NULL
  <2>1. Good(o.heap) /\ Used(o.heap) = Used(Heap) /\ Keeps(Heap, o.heap)
    <3>1. \A b \in Nat : b + HEADER_SIZE # NULL
      BY HeapAssumption DEF NULL
    <3> QED BY <1>4, <1>5, <3>1 DEF Answer
  <2>2. Lawful(o.heap, live)
    BY <1>1, <1>3, <2>1, SameLawful
  <2> QED BY <1>1, <1>5, <2>2, BecomesLawful DEF Change
<1>6. CASE o.ptr # NULL
  <2>1. PICK b \in Nat : o.ptr = b + HEADER_SIZE /\ Given(Heap, o.heap, b, size) /\ size > 0
    BY <1>4, <1>6 DEF Answer
  <2> DEFINE p == b + HEADER_SIZE
             g == [o.heap EXCEPT !.memory = Fill(@, p, size, mark)]
             r == [n |-> size, mark |-> mark]
  <2>2. Lawful(g, Adding(live, p, r)) /\ p \notin DOMAIN live
    BY <1>1, <1>2, <1>3, <2>1, FilledLawful
  <2>3. live' = Adding(live, p, r) /\ HeapBecomes(g)
    BY <1>1, <1>6, <2>1 DEF Own, Adding
  <2>4. Inv'
    BY <2>2, <2>3, BecomesLawful
  <2>5. r.n = size
    OBVIOUS
  <2> QED BY <1>2, <2>1, <2>2, <2>3, <2>4, <2>5 DEF Change
<1> QED BY <1>5, <1>6

LEMMA KcallocStep ==
  ASSUME Inv, NEW s \in Sizes, Kcalloc(2, s)
  PROVE  Inv' /\ Change
<1> DEFINE size == 2 * s
           Zeroed(w) == IF w.ptr = NULL THEN w
                        ELSE [w EXCEPT !.heap.memory = Fill(@, w.ptr, size, Zero)]
<1>1. PICK o \in kmalloc(Heap, size) :
        /\ Zeroed(o).heap.brk <= HeapTop
        /\ HeapBecomes(Zeroed(o).heap)
        /\ IF Zeroed(o).ptr = NULL THEN UNCHANGED live ELSE Own(Zeroed(o).ptr, size, Zero)
  BY DEF Kcalloc, Outcomes, kcalloc
<1>2. size \in Nat /\ Zero \in {Zero} \cup Marks /\ size \in Asked
  BY SizesFacts
<1> HIDE DEF size
<1>3. Lawful(Heap, live) /\ Good(Heap)
  BY DEF Inv, Lawful
<1>4. Answer(Heap, o, size)
  BY <1>2, <1>3, KmallocAnswers
<1>5. CASE o.ptr = NULL
  <2>1. Good(o.heap) /\ Used(o.heap) = Used(Heap) /\ Keeps(Heap, o.heap)
    <3>1. \A b \in Nat : b + HEADER_SIZE # NULL
      BY HeapAssumption DEF NULL
    <3> QED BY <1>4, <1>5, <3>1 DEF Answer
  <2>2. Zeroed(o) = o
    BY <1>5
  <2>3. Lawful(o.heap, live)
    BY <1>1, <1>3, <2>1, <2>2, SameLawful
  <2> QED BY <1>1, <1>5, <2>2, <2>3, BecomesLawful DEF Change
<1>6. CASE o.ptr # NULL
  <2>1. PICK b \in Nat : o.ptr = b + HEADER_SIZE /\ Given(Heap, o.heap, b, size) /\ size > 0
    BY <1>4, <1>6 DEF Answer
  <2> DEFINE p == b + HEADER_SIZE
             g == [o.heap EXCEPT !.memory = Fill(@, p, size, Zero)]
             r == [n |-> size, mark |-> Zero]
  <2>2. Zeroed(o).heap = g /\ Zeroed(o).ptr = p
    <3>1. o = [heap |-> o.heap, ptr |-> o.ptr]
      BY <1>4 DEF Answer
    <3>2. Zeroed(o) = [o EXCEPT !.heap.memory = Fill(@, o.ptr, size, Zero)]
      BY <1>6
    <3> HIDE DEF Zeroed
    <3> QED BY <2>1, <3>1, <3>2
  <2>3. g.brk = o.heap.brk
    <3>1. IsHeap(o.heap)
      BY <2>1 DEF Given, Good
    <3> QED BY <3>1 DEF IsHeap
  <2> HIDE DEF Zeroed
  <2>4. Lawful(g, Adding(live, p, r)) /\ p \notin DOMAIN live
    BY <1>1, <1>2, <1>3, <2>1, <2>2, <2>3, FilledLawful
  <2>5. p # NULL
    BY HeapAssumption DEF NULL
  <2>6. live' = Adding(live, p, r) /\ HeapBecomes(g)
    BY <1>1, <2>2, <2>5 DEF Own, Adding
  <2>7. Inv'
    BY <2>4, <2>6, BecomesLawful
  <2>8. r.n = size
    OBVIOUS
  <2> QED BY <1>2, <2>1, <2>4, <2>6, <2>7, <2>8 DEF Change
<1> QED BY <1>5, <1>6

LEMMA ReleasedFacts ==
  ASSUME Inv, NEW p \in DOMAIN live, NEW n \in Nat, n <= live[p].n
  PROVE  /\ Inside(Heap, Released(p, n), p - HEADER_SIZE)
         /\ \A a \in Address : a < p + n \/ n = live[p].n => Released(p, n)[a] = Heap.memory[a]
<1> DEFINE h == Heap  b == p - HEADER_SIZE  r == live[p]
           m == Fill(h.memory, p + n, r.n - n, Stale)
<1>1. Good(h) /\ Owner(h, p, r)
  BY DEF Inv, Lawful
<1>2. /\ r.n \in Nat /\ p \in Nat /\ b \in BlocksOf(h) /\ r.n <= h.header[b].size
      /\ b + HEADER_SIZE = p
  BY <1>1, PointerFacts DEF Owner, Used
<1>3. Released(p, n) = m
  BY DEF Released, Heap
<1> HIDE DEF h, b, r
<1>4. /\ EndOf(h, b) = b + HEADER_SIZE + h.header[b].size /\ h.header[b].size \in Nat
      /\ b \in Nat /\ HEADER_SIZE \in Nat
  BY <1>1, <1>2, BlockFacts DEF Good
<1>5. p + n \in Int /\ r.n - n \in Int /\ b + HEADER_SIZE <= p + n
      /\ p + n + (r.n - n) <= EndOf(h, b) /\ p + n + (r.n - n) = p + r.n
  BY <1>2, <1>4
<1>6. Inside(h, m, b)
  <2>1. Inside(h, h.memory, b)
    BY <1>1, MemoryInside
  <2>2. Stale \in MarksOfBytes
    BY DEF MarksOfBytes
  <2> QED BY <1>1, <1>2, <1>5, <2>1, <2>2, FillInside
<1>7. \A a \in Address : a \in Nat /\
        m[a] = IF p + n <= a /\ a < p + n + (r.n - n) THEN Stale ELSE h.memory[a]
  <2>1. \A a \in Address : a \in Nat
    BY DEF Address
  <2> QED BY <1>5, <2>1, FillFacts
<1> HIDE DEF m
<1>8. \A a \in Address : a < p + n \/ n = r.n => m[a] = h.memory[a]
  BY <1>2, <1>7
<1> QED BY <1>3, <1>6, <1>8 DEF h, b, r

\* A caller gives its block back.
LEMMA FreedLawful ==
  ASSUME Inv, NEW p \in DOMAIN live
  PROVE  Lawful(kfree([Heap EXCEPT !.memory = Released(p, 0)], p), Dropping(live, p))
<1> DEFINE m == Released(p, 0)
           h0 == [Heap EXCEPT !.memory = m]
           g == kfree(h0, p)
           b == p - HEADER_SIZE
<1>1. Lawful(Heap, live) /\ Good(Heap) /\ Heap.brk <= HeapTop
  BY DEF Inv, Lawful
<1>2. Owner(Heap, p, live[p])
  BY <1>1 DEF Lawful
<1>3. live[p].n \in Nat /\ p \in Nat /\ b \in Used(Heap) /\ b + HEADER_SIZE = p
  BY <1>2, PointerFacts DEF Owner
<1>4. Inside(Heap, m, b)
  BY <1>3, ReleasedFacts
<1> HIDE DEF m, b
<1>5. b \in BlocksOf(Heap)
  BY <1>3 DEF Used
<1>6. Rewritten(Heap, h0, b)
  BY <1>1, <1>4, <1>5, InsideRewrites
<1> HIDE DEF h0
<1>7. Freeing(h0, g, b)
  BY <1>3, <1>6, KfreeFrees DEF Rewritten
<1> HIDE DEF g
<1>8. Good(g) /\ g.brk <= HeapTop /\ Used(g) = Used(Heap) \ {b}
  BY <1>1, <1>6, <1>7 DEF Freeing, Rewritten
<1>9. \A x \in Used(Heap) : x # b => Untouched(Heap, g, x)
  <2> SUFFICES ASSUME NEW x \in Used(Heap), x # b PROVE Untouched(Heap, g, x)
    OBVIOUS
  <2>1. x \in BlocksOf(Heap)
    BY DEF Used
  <2>2. Untouched(Heap, h0, x) /\ x \in BlocksOf(h0)
    BY <1>6, <2>1 DEF Rewritten
  <2>3. Untouched(h0, g, x)
    BY <1>7, <2>2 DEF Freeing
  <2> QED BY <2>2, <2>3, UntouchedTransitive
<1>10. Lawful(g, Dropping(live, p))
  BY <1>1, <1>8, <1>9, DropLawful DEF b
<1> QED BY <1>10 DEF g, h0, m

LEMMA KfreeStep ==
  ASSUME Inv, NEW p \in DOMAIN live \cup Freed, Kfree(p)
  PROVE  Inv' /\ Change
<1> DEFINE h0 == [Heap EXCEPT !.memory = Released(p, 0)]
           g == kfree(h0, p)
<1>1. HeapBecomes(g) /\ live' = Dropping(live, p)
  BY DEF Kfree, Disown, Dropping
<1>2. Lawful(Heap, live) /\ Good(Heap)
  BY DEF Inv, Lawful
<1>3. CASE p \in DOMAIN live
  <2>1. Lawful(g, Dropping(live, p))
    BY <1>3, FreedLawful
  <2> HIDE DEF g
  <2> QED BY <1>1, <1>3, <2>1, BecomesLawful DEF Change
<1>4. CASE p \notin DOMAIN live
  <2>1. PICK x \in DOMAIN header : p = x + HEADER_SIZE /\ header[x].is_free
    BY <1>4 DEF Freed
  <2>2. x \in Nat
    <3>1. BlocksOf(Heap) = DOMAIN header
      BY DEF BlocksOf, Heap
    <3> QED BY <1>2, <2>1, <3>1, BlockFacts DEF Good
  <2>3. p - HEADER_SIZE = x
    BY <2>1, <2>2, PointerFacts
  <2>4. h0 = Heap
    BY <1>4 DEF Released, Heap
  <2>5. g = Heap
    BY <2>1, <2>3, <2>4 DEF kfree, Heap
  <2>6. live' = live
    <3>1. DOMAIN live \ {p} = DOMAIN live
      BY <1>4
    <3>2. live = [q \in DOMAIN live |-> live[q]]
      BY <1>2 DEF Lawful
    <3> QED BY <1>1, <3>1, <3>2 DEF Dropping
  <2>7. HeapBecomes(Heap)
    BY <1>1, <2>5
  <2>8. Inv'
    BY <1>2, <2>6, <2>7, BecomesLawful
  <2> QED BY <2>6, <2>8 DEF Change
<1> QED BY <1>3, <1>4

LEMMA ElsewhereStep ==
  ASSUME Inv, PagesElsewhere
  PROVE  Inv' /\ Change
<1> DEFINE h == Heap  g == [h EXCEPT !.frames = frames']
<1>1. Lawful(h, live)
  BY DEF Inv
<1>2. /\ IsHeap(g) /\ g.header = h.header /\ g.free_list = h.free_list /\ g.memory = h.memory
      /\ g.brk = h.brk /\ g.mapped = h.mapped /\ g.frames = frames'
  BY DEF Heap, IsHeap
<1>3. HeapBecomes(g) /\ live' = live /\ frames' \in 0 .. MaxFrames
  BY DEF PagesElsewhere, HeapBecomes, Heap
<1> HIDE DEF g, h
<1>4. BlocksOf(g) = BlocksOf(h) /\ Used(g) = Used(h) /\ Free(g) = Free(h)
  BY <1>2 DEF BlocksOf, Used, Free
<1>5. \A x : EndOf(g, x) = EndOf(h, x)
  BY <1>2 DEF EndOf
<1>6. Good(h)
  BY <1>1 DEF Lawful
<1>7. Shape(g) /\ Even(g) /\ Headers(g) /\ Pages(g)
  BY <1>2, <1>4, <1>5, <1>6 DEF Good, Shape, Even, Headers, Pages
<1>8. Good(g)
  BY <1>2, <1>3, <1>4, <1>6, <1>7 DEF Good
<1>9. Keeps(h, g)
  BY <1>2, <1>4 DEF Keeps, Untouched, Same, Used
<1>10. Lawful(g, live)
  BY <1>1, <1>2, <1>4, <1>8, <1>9, SameLawful DEF Lawful
<1> QED BY <1>3, <1>10, BecomesLawful DEF Change

\* A block that stays where it is, with its caller's first bytes.
LEMMA StayLawful ==
  ASSUME Inv, NEW p \in DOMAIN live, NEW size \in Nat, NEW kept \in Nat, NEW n \in Nat,
         kept <= live[p].n, kept <= size, size <= n, n % ALIGN = 0,
         n <= Heap.header[p - HEADER_SIZE].size
  PROVE  LET h0 == [Heap EXCEPT !.memory = Released(p, kept)]
             g == Split(h0, p - HEADER_SIZE, n, FALSE)
             f == [g EXCEPT !.memory = Fill(@, p + kept, size - kept, live[p].mark)]
         IN  /\ g.brk = Heap.brk
             /\ Lawful(f, Moving(live, p, p, [n |-> size, mark |-> live[p].mark]))
<1> DEFINE b == p - HEADER_SIZE
           old == live[p]
           r == [n |-> size, mark |-> old.mark]
           m0 == Released(p, kept)
           h0 == [Heap EXCEPT !.memory = m0]
           g == Split(h0, b, n, FALSE)
           m == Fill(g.memory, p + kept, size - kept, old.mark)
           f == [g EXCEPT !.memory = m]
<1>1. Lawful(Heap, live) /\ Good(Heap) /\ Heap.brk <= HeapTop /\ Owner(Heap, p, old)
  BY DEF Inv, Lawful
<1>2. /\ old.n \in Nat /\ old.mark \in {Zero} \cup Marks /\ p \in Nat /\ b \in Used(Heap)
      /\ b + HEADER_SIZE = p /\ HEADER_SIZE \in Nat
      /\ \A a \in Address : p <= a /\ a < p + old.n => Heap.memory[a] = old.mark
  BY <1>1, PointerFacts, HeapAssumption DEF Owner
<1>3. /\ Inside(Heap, m0, b)
      /\ \A a \in Address : a < p + kept => m0[a] = Heap.memory[a]
  BY ReleasedFacts
<1>4. kept <= old.n /\ n <= Heap.header[b].size
  OBVIOUS
<1> HIDE DEF b, old, m0
<1>5. b \in BlocksOf(Heap) /\ b \in Nat
  <2>1. b \in BlocksOf(Heap)
    BY <1>2 DEF Used
  <2> QED BY <1>1, <2>1, BlockFacts DEF Good
<1>6. Rewritten(Heap, h0, b) /\ h0.memory = m0
  BY <1>1, <1>3, <1>5, InsideRewrites
<1> HIDE DEF h0
<1>7. /\ Good(h0) /\ b \in BlocksOf(h0) /\ b \in Used(h0) /\ Used(h0) = Used(Heap)
      /\ h0.header = Heap.header /\ h0.brk = Heap.brk
  BY <1>2, <1>5, <1>6 DEF Rewritten
<1>8. Handed(h0, g, b, n)
  BY <1>4, <1>7, SplitHanded DEF Good
<1> HIDE DEF g
<1>9. Good(g)
  <2>1. Free(h0) \ {b} = Free(h0)
    BY <1>7 DEF Used, Free
  <2>2. Lists(h0.free_list, Free(h0) \ {b})
    BY <1>7, <2>1 DEF Good
  <2>3. IsHeap(g) /\ Shape(g) /\ Headers(g) /\ Even(g)
    BY <1>7, <1>8 DEF Handed, Good
  <2>4. Lists(g.free_list, Free(g)) /\ g.memory \in [Address -> MarksOfBytes]
    BY <1>7, <1>8, <2>2 DEF Handed, Good
  <2>5. Pages(g) /\ g.frames \in 0 .. MaxFrames
    BY <1>7, <1>8 DEF Handed, Good, Pages
  <2> QED BY <2>3, <2>4, <2>5 DEF Good
<1>10. /\ b \in BlocksOf(g) /\ g.header[b].size >= n /\ Used(g) = Used(Heap)
       /\ g.brk = Heap.brk /\ Same(h0, g, b, n)
  BY <1>2, <1>7, <1>8 DEF Handed
<1>11. /\ g.header[b].size \in Nat /\ EndOf(g, b) = b + HEADER_SIZE + g.header[b].size
  BY <1>9, <1>10, BlockFacts DEF Good
<1>12. Inside(g, m, b)
  <2>1. /\ p + kept \in Int /\ size - kept \in Int /\ b + HEADER_SIZE <= p + kept
        /\ p + kept + (size - kept) <= EndOf(g, b)
    BY <1>2, <1>5, <1>10, <1>11
  <2>2. Inside(g, g.memory, b)
    BY <1>9, MemoryInside
  <2>3. old.mark \in MarksOfBytes
    BY <1>2, SizesFacts
  <2> QED BY <1>9, <1>10, <2>1, <2>2, <2>3, FillInside
<1>13. \A a \in Address : a \in Nat /\
         m[a] = IF p + kept <= a /\ a < p + kept + (size - kept) THEN old.mark ELSE g.memory[a]
  <2>1. \A a \in Address : a \in Nat
    BY DEF Address
  <2>2. p + kept \in Int /\ size - kept \in Int
    BY <1>2
  <2> QED BY <2>1, <2>2, FillFacts
<1>14. Rewritten(g, f, b) /\ f.memory = m
  BY <1>9, <1>10, <1>12, InsideRewrites
<1> HIDE DEF f, m
<1>15. /\ Good(f) /\ f.brk <= HeapTop /\ Used(f) = (Used(Heap) \ {b}) \cup {b}
       /\ f.header = g.header
  BY <1>1, <1>2, <1>10, <1>14 DEF Rewritten
<1>16. \A x \in Used(Heap) : x # b => Untouched(Heap, f, x)
  <2> SUFFICES ASSUME NEW x \in Used(Heap), x # b PROVE Untouched(Heap, f, x)
    OBVIOUS
  <2>1. x \in BlocksOf(Heap)
    BY DEF Used
  <2>2. Untouched(Heap, h0, x) /\ x \in BlocksOf(h0)
    BY <1>6, <2>1 DEF Rewritten
  <2>3. Untouched(h0, g, x) /\ x \in BlocksOf(g)
    BY <1>8, <2>2 DEF Handed, Untouched
  <2>4. Untouched(g, f, x)
    BY <1>14, <2>3 DEF Rewritten
  <2> QED BY <2>2, <2>3, <2>4, UntouchedTransitive
<1>17. \A a \in Address : p <= a /\ a < p + size => f.memory[a] = old.mark
  <2> SUFFICES ASSUME NEW a \in Address, p <= a, a < p + size PROVE m[a] = old.mark
    BY <1>14
  <2>1. a \in Nat
    BY <1>13
  <2>2. CASE p + kept <= a
    BY <1>2, <1>13, <2>1, <2>2
  <2>3. CASE a < p + kept
    <3>1. m[a] = g.memory[a]
      BY <1>2, <1>13, <2>1, <2>3
    <3>2. g.memory[a] = h0.memory[a]
      <4>1. b + HEADER_SIZE <= a /\ a < b + HEADER_SIZE + n
        BY <1>2, <2>1
      <4> QED BY <1>10, <4>1 DEF Same
    <3>3. h0.memory[a] = Heap.memory[a]
      BY <1>3, <1>6, <2>3
    <3>4. a < p + old.n
      BY <1>2, <1>4, <2>1, <2>3
    <3> QED BY <1>2, <3>1, <3>2, <3>3, <3>4
  <2> QED BY <1>2, <2>1, <2>2, <2>3
<1>18. Owner(f, b + HEADER_SIZE, r)
  <2>1. r = [n |-> r.n, mark |-> r.mark] /\ r.n = size /\ r.mark = old.mark
    OBVIOUS
  <2>2. size <= f.header[b].size /\ b \in Used(f)
    BY <1>10, <1>11, <1>15
  <2>3. p - HEADER_SIZE = b
    BY DEF b
  <2> HIDE DEF r
  <2> QED BY <1>2, <1>17, <2>1, <2>2, <2>3 DEF Owner
<1>19. Lawful(f, Moving(live, p, b + HEADER_SIZE, r))
  BY <1>1, <1>5, <1>15, <1>16, <1>18, MoveLawful DEF b
<1>20. Lawful(f, Moving(live, p, p, r))
  BY <1>2, <1>19
<1> QED BY <1>10, <1>20 DEF f, m, g, h0, m0, old, b

LEMMA CopyInside ==
  ASSUME NEW g, Good(g), g.brk <= HeapTop, NEW b \in BlocksOf(g), NEW c \in BlocksOf(g),
         NEW have \in Nat, have <= g.header[b].size, have <= g.header[c].size
  PROVE  LET p == b + HEADER_SIZE  q == c + HEADER_SIZE
             m == Copy(g.memory, p, q, have)
         IN  /\ Inside(g, m, c)
             /\ \A a \in Address : q <= a /\ a < q + have =>
                  a - q + p \in Address /\ m[a] = g.memory[a - q + p]
<1> DEFINE p == b + HEADER_SIZE  q == c + HEADER_SIZE
           m == Copy(g.memory, p, q, have)
<1>1. /\ b \in Nat /\ c \in Nat /\ HEADER_SIZE \in Nat /\ HeapTop \in Nat /\ g.brk \in Nat
      /\ g.header[b].size \in Nat /\ g.header[c].size \in Nat
      /\ EndOf(g, b) = p + g.header[b].size /\ EndOf(g, b) <= g.brk
      /\ EndOf(g, c) = q + g.header[c].size
  BY BlockFacts, HeapAssumption DEF Good
<1>2. p \in Nat /\ q \in Nat
  BY <1>1
<1> HIDE DEF p, q
<1>3. \A a \in Address : a \in Nat /\
        m[a] = IF q <= a /\ a < q + have THEN g.memory[a - q + p] ELSE g.memory[a]
  BY <1>2 DEF Copy, Address
<1>4. m = [a \in Address |-> m[a]]
  BY DEF Copy
<1> HIDE DEF m
<1>5. \A a \in Address : q <= a /\ a < q + have => a - q + p \in Address
  BY <1>1, <1>2, <1>3 DEF Address
<1>6. \A a \in Address : m[a] \in MarksOfBytes
  BY <1>3, <1>5 DEF Good
<1>7. m \in [Address -> MarksOfBytes]
  BY <1>4, <1>6
<1>8. \A a \in Address : a < q \/ EndOf(g, c) <= a => m[a] = g.memory[a]
  BY <1>1, <1>2, <1>3
<1>9. Inside(g, m, c)
  BY <1>7, <1>8 DEF Inside, q
<1> QED BY <1>3, <1>5, <1>9 DEF m, p, q

\* A block that moves: its bytes are copied, and its old place freed.
LEMMA MovedLawful ==
  ASSUME Inv, NEW p \in DOMAIN live, NEW size \in Nat, NEW kept \in Nat, NEW n \in Nat,
         kept <= live[p].n, kept <= size, size <= n,
         Heap.header[p - HEADER_SIZE].size <= n,
         NEW c \in Nat, NEW g, g.brk <= HeapTop,
         Given([Heap EXCEPT !.memory = Released(p, kept)], g, c, n)
  PROVE  LET q == c + HEADER_SIZE
             g2 == [g EXCEPT !.memory = Copy(@, p, q, Heap.header[p - HEADER_SIZE].size)]
             g3 == kfree(g2, p)
             f == [g3 EXCEPT !.memory = Fill(Fill(@, p, live[p].n, Stale),
                                             q + kept, size - kept, live[p].mark)]
         IN  /\ g3.brk = g.brk /\ q # p /\ q \notin DOMAIN live \ {p}
             /\ Lawful(f, Moving(live, p, q, [n |-> size, mark |-> live[p].mark]))
<1> DEFINE b == p - HEADER_SIZE
           old == live[p]
           have == Heap.header[b].size
           q == c + HEADER_SIZE
           r == [n |-> size, mark |-> old.mark]
           m0 == Released(p, kept)
           h0 == [Heap EXCEPT !.memory = m0]
           m2 == Copy(g.memory, p, q, have)
           g2 == [g EXCEPT !.memory = m2]
           g3 == kfree(g2, p)
           m3 == Fill(g3.memory, p, old.n, Stale)
           g4 == [g3 EXCEPT !.memory = m3]
           m == Fill(m3, q + kept, size - kept, old.mark)
           f == [g3 EXCEPT !.memory = m]
<1>1. Lawful(Heap, live) /\ Good(Heap) /\ Owner(Heap, p, old)
  BY DEF Inv, Lawful
<1>2. /\ old.n \in Nat /\ old.mark \in {Zero} \cup Marks /\ p \in Nat /\ b \in Used(Heap)
      /\ b + HEADER_SIZE = p /\ HEADER_SIZE \in Nat /\ old.n <= have
      /\ \A a \in Address : p <= a /\ a < p + old.n => Heap.memory[a] = old.mark
  BY <1>1, PointerFacts, HeapAssumption DEF Owner
<1>3. /\ Inside(Heap, m0, b)
      /\ \A a \in Address : a < p + kept => m0[a] = Heap.memory[a]
  BY ReleasedFacts
<1>4. kept <= old.n /\ have <= n /\ Given(h0, g, c, n)
  OBVIOUS
<1> HIDE DEF b, old, m0
<1>5. b \in BlocksOf(Heap) /\ b \in Nat /\ have \in Nat
  <2>1. b \in BlocksOf(Heap)
    BY <1>2 DEF Used
  <2> QED BY <1>1, <2>1, BlockFacts DEF Good
<1>6. Rewritten(Heap, h0, b) /\ h0.memory = m0
  BY <1>1, <1>3, <1>5, InsideRewrites
<1> HIDE DEF h0
<1>7. b \in Used(h0) /\ Used(h0) = Used(Heap) /\ h0.header = Heap.header
  BY <1>2, <1>6 DEF Rewritten
<1>8. /\ Good(g) /\ c \in BlocksOf(g) /\ c \notin Used(Heap) /\ Used(g) = Used(Heap) \cup {c}
      /\ g.header[c].size >= n /\ Keeps(h0, g) /\ c # b
  BY <1>4, <1>2, <1>7 DEF Given
<1>9. b \in BlocksOf(g) /\ g.header[b].size = have /\ Same(h0, g, b, have)
  <2>1. Untouched(h0, g, b)
    BY <1>7, <1>8 DEF Keeps
  <2> QED BY <1>7, <2>1 DEF Untouched
<1>10. g.header[c].size \in Nat
  BY <1>8, BlockFacts DEF Good
<1> HIDE DEF have
<1>11. /\ Inside(g, m2, c)
       /\ \A a \in Address : q <= a /\ a < q + have =>
            a - q + p \in Address /\ m2[a] = g.memory[a - q + p]
  <2>1. have <= g.header[b].size /\ have <= g.header[c].size
    BY <1>4, <1>5, <1>8, <1>9, <1>10
  <2> QED BY <1>2, <1>5, <1>8, <1>9, <2>1, CopyInside
<1> HIDE DEF m2
<1>12. Rewritten(g, g2, c) /\ g2.memory = m2
  BY <1>8, <1>11, InsideRewrites
<1> HIDE DEF g2
<1>13. b \in Used(g2) /\ Used(g2) = Used(Heap) \cup {c} /\ g2.header = g.header /\ Good(g2)
       /\ BlocksOf(g2) = BlocksOf(g) /\ g2.brk = g.brk
  BY <1>2, <1>8, <1>12 DEF Rewritten
<1>14. Freeing(g2, g3, b)
  <2>1. Freeing(g2, kfree(g2, b + HEADER_SIZE), b)
    BY <1>13, KfreeFrees
  <2> QED BY <1>2, <2>1
<1> HIDE DEF g3
<1>15. /\ Good(g3) /\ BlocksOf(g3) = BlocksOf(g) /\ g3.brk = g.brk
       /\ Used(g3) = (Used(Heap) \cup {c}) \ {b} /\ g3.header[b].size = have
       /\ Untouched(g2, g3, c)
  BY <1>8, <1>9, <1>13, <1>14 DEF Freeing
<1>16. Inside(g3, m3, b)
  <2>1. EndOf(g3, b) = b + HEADER_SIZE + have
    BY <1>15 DEF EndOf
  <2>2. p \in Int /\ old.n \in Int /\ b + HEADER_SIZE <= p /\ p + old.n <= EndOf(g3, b)
    BY <1>2, <1>5, <2>1
  <2>3. Inside(g3, g3.memory, b) /\ Stale \in MarksOfBytes
    BY <1>15, MemoryInside, SizesFacts
  <2> QED BY <1>9, <1>15, <2>2, <2>3, FillInside
<1> HIDE DEF m3
<1>17. Rewritten(g3, g4, b) /\ g4.memory = m3
  BY <1>9, <1>15, <1>16, InsideRewrites
<1>18. f = [g4 EXCEPT !.memory = m]
  <2>1. IsHeap(g3)
    BY <1>15 DEF Good
  <2> HIDE DEF m
  <2> QED BY <2>1 DEF IsHeap
<1> HIDE DEF g4, f
<1>19. /\ Good(g4) /\ BlocksOf(g4) = BlocksOf(g) /\ Used(g4) = (Used(Heap) \cup {c}) \ {b}
       /\ g4.header[c].size >= n /\ g4.header[c].size \in Nat /\ g4.brk = g.brk
  <2>1. g3.header[c].size >= n /\ g3.header[c].size \in Nat
    BY <1>8, <1>10, <1>13, <1>15 DEF Untouched
  <2> QED BY <1>15, <1>17, <2>1 DEF Rewritten
<1>20. q \in Nat /\ q - HEADER_SIZE = c
  BY <1>2, PointerFacts
<1>21. Inside(g4, m, c)
  <2>1. EndOf(g4, c) = q + g4.header[c].size
    BY DEF EndOf
  <2>2. /\ q + kept \in Int /\ size - kept \in Int /\ c + HEADER_SIZE <= q + kept
        /\ q + kept + (size - kept) <= EndOf(g4, c)
    BY <1>2, <1>19, <1>20, <2>1
  <2>3. Inside(g4, m3, c) /\ old.mark \in MarksOfBytes
    BY <1>2, <1>17, <1>19, MemoryInside, SizesFacts
  <2> QED BY <1>8, <1>19, <2>2, <2>3, FillInside
<1>22. \A a \in Address : a \in Nat /\
         m[a] = IF q + kept <= a /\ a < q + kept + (size - kept) THEN old.mark ELSE m3[a]
  <2>1. \A a \in Address : a \in Nat
    BY DEF Address
  <2> HIDE DEF q
  <2> DEFINE lo == q + kept  len == size - kept
  <2>2. lo \in Int /\ len \in Int /\ m = Fill(m3, lo, len, old.mark)
    BY <1>20
  <2> HIDE DEF lo, len, m
  <2>3. \A a \in Address : m[a] = IF lo <= a /\ a < lo + len THEN old.mark ELSE m3[a]
    BY <2>2, FillFacts
  <2> QED BY <2>1, <2>3 DEF lo, len
<1> HIDE DEF q, m
<1>23. Rewritten(g4, f, c) /\ f.memory = m
  BY <1>8, <1>18, <1>19, <1>21, InsideRewrites
<1>24. /\ Good(f) /\ f.brk <= HeapTop /\ Used(f) = (Used(Heap) \ {b}) \cup {c}
       /\ f.header = g4.header
  BY <1>8, <1>19, <1>23 DEF Rewritten
<1>25. \A x \in Used(Heap) : x # b => Untouched(Heap, f, x)
  <2> SUFFICES ASSUME NEW x \in Used(Heap), x # b PROVE Untouched(Heap, f, x)
    OBVIOUS
  <2>1. x \in BlocksOf(Heap) /\ x # c
    BY <1>8 DEF Used
  <2>2. Untouched(Heap, h0, x)
    BY <1>6, <2>1 DEF Rewritten
  <2>3. Untouched(h0, g, x) /\ x \in BlocksOf(g)
    BY <1>7, <1>8 DEF Keeps, Untouched
  <2>4. Untouched(g, g2, x)
    BY <1>12, <2>1, <2>3 DEF Rewritten
  <2>5. Untouched(g2, g3, x)
    BY <1>13, <1>14, <2>3 DEF Freeing
  <2>6. Untouched(g3, g4, x)
    BY <1>15, <1>17, <2>3 DEF Rewritten
  <2>7. Untouched(g4, f, x)
    BY <1>19, <1>23, <2>1, <2>3 DEF Rewritten
  <2> QED BY <2>2, <2>3, <2>4, <2>5, <2>6, <2>7, UntouchedTransitive
<1>26. ASSUME NEW a \in Address, q <= a, a < q + size PROVE f.memory[a] = old.mark
  <2>1. a \in Nat
    BY <1>22
  <2>2. CASE q + kept <= a
    BY <1>20, <1>22, <1>23, <1>26, <2>1, <2>2
  <2>3. CASE a < q + kept
    <3>1. f.memory[a] = m3[a]
      BY <1>20, <1>22, <1>23, <2>1, <2>3
    <3>2. Same(g2, g3, c, g2.header[c].size) /\ Untouched(g3, g4, c)
      BY <1>8, <1>15, <1>17 DEF Untouched, Rewritten
    <3>3. g2.header[c].size >= n /\ g3.header[c].size >= n
      BY <1>8, <1>13, <1>15 DEF Untouched
    <3>4. g2.header[c].size \in Nat /\ g3.header[c].size \in Nat
      BY <1>10, <1>13, <1>15 DEF Untouched
    <3>5. c + HEADER_SIZE <= a /\ a < c + HEADER_SIZE + n
      BY <1>2, <1>4, <1>5, <1>20, <1>26, <2>1, <2>3 DEF q
    <3>6. m3[a] = g3.memory[a] /\ g3.memory[a] = g2.memory[a]
      <4>1. a < c + HEADER_SIZE + g2.header[c].size /\ a < c + HEADER_SIZE + g3.header[c].size
        BY <1>2, <2>1, <3>3, <3>4, <3>5
      <4> QED BY <1>17, <3>2, <3>5, <4>1 DEF Same, Untouched
    <3> DEFINE z == a - q + p
    <3>7. z \in Address /\ m2[a] = g.memory[z]
      <4>1. a < q + have
        BY <1>2, <1>4, <1>5, <1>20, <2>1, <2>3
      <4> QED BY <1>11, <1>26, <4>1
    <3>8. z \in Nat /\ p <= z /\ z < p + kept
      BY <1>2, <1>20, <1>26, <2>1, <2>3
    <3> HIDE DEF z
    <3>9. g.memory[z] = h0.memory[z]
      <4>1. b + HEADER_SIZE <= z /\ z < b + HEADER_SIZE + have
        BY <1>2, <1>4, <1>5, <3>8
      <4> QED BY <1>9, <3>7, <4>1 DEF Same
    <3>10. h0.memory[z] = Heap.memory[z]
      BY <1>3, <1>6, <3>7, <3>8
    <3>11. z < p + old.n
      BY <1>2, <1>4, <3>8
    <3> QED BY <1>2, <1>12, <3>1, <3>6, <3>7, <3>8, <3>9, <3>10, <3>11
  <2> QED BY <1>20, <2>1, <2>2, <2>3
<1>27. Owner(f, q, r)
  <2>1. r = [n |-> r.n, mark |-> r.mark] /\ r.n = size /\ r.mark = old.mark
    OBVIOUS
  <2>2. size <= f.header[c].size /\ c \in Used(f)
    BY <1>19, <1>24
  <2> HIDE DEF r
  <2> QED BY <1>2, <1>20, <1>26, <2>1, <2>2 DEF Owner
<1>28. Lawful(f, Moving(live, p, q, r)) /\ q \notin DOMAIN live \ {p}
  BY <1>1, <1>8, <1>24, <1>25, <1>27, MoveLawful DEF b, q
<1>29. q # p
  BY <1>2, <1>5, <1>8, PointerFacts DEF q
<1> QED BY <1>15, <1>28, <1>29 DEF f, m, m3, g3, g2, m2, q, have, old, b

LEMMA AlignedKeeps ==
  ASSUME NEW size \in Nat, NEW have \in Nat, have % ALIGN = 0, size <= have
  PROVE  Aligned(size) <= have
<1> DEFINE n == Aligned(size)  x == size + ALIGN - 1  q == x \div ALIGN
<1>1. ALIGN \in Nat \ {0} /\ x \in Nat
  BY HeapAssumption
<1>2. q \in Nat /\ x % ALIGN \in 0 .. ALIGN - 1 /\ x = ALIGN * q + (x % ALIGN)
  BY <1>1
<1> HIDE DEF q
<1>3. PICK k \in Int : have = k * ALIGN
  BY <1>1, Multiple
<1>4. q <= k
  <2> SUFFICES ASSUME k + 1 <= q PROVE FALSE
    BY <1>2
  <2>1. (k + 1) * ALIGN <= q * ALIGN
    BY <1>1, <1>2
  <2> QED BY <1>1, <1>2, <1>3, <2>1
<1>5. q * ALIGN <= k * ALIGN
  BY <1>1, <1>2, <1>4
<1> QED BY <1>3, <1>5 DEF Aligned, q

LEMMA KreallocStep ==
  ASSUME Inv, NEW p \in DOMAIN live, NEW size \in Sizes, Krealloc(p, size)
  PROVE  Inv' /\ Change
<1> DEFINE old == live[p]
           b == p - HEADER_SIZE
           kept == IF size < old.n THEN size ELSE old.n
           n == Aligned(size)
           have == Heap.header[b].size
           h0 == [Heap EXCEPT !.memory = Released(p, kept)]
           r == [n |-> size, mark |-> old.mark]
           Settled(m, q) ==
             Fill(IF q = p THEN m ELSE Fill(m, p, old.n, Stale), q + kept, size - kept, old.mark)
<1>1. PICK o \in krealloc(h0, p, size) :
        /\ o.heap.brk <= HeapTop
        /\ IF o.ptr = NULL
           THEN HeapBecomes(o.heap) /\ live' = IF size = 0 THEN Disown(p) ELSE live
           ELSE /\ HeapBecomes([o.heap EXCEPT !.memory = Settled(@, o.ptr)])
                /\ live' = [q \in (DOMAIN live \ {p}) \cup {o.ptr} |->
                              IF q = o.ptr THEN [old EXCEPT !.n = size] ELSE live[q]]
  BY DEF Krealloc, Outcomes
<1>2. Lawful(Heap, live) /\ Good(Heap) /\ Owner(Heap, p, old)
  BY DEF Inv, Lawful
<1>3. /\ old.n \in Nat /\ p \in Nat /\ b \in Used(Heap) /\ b \in BlocksOf(Heap)
      /\ b + HEADER_SIZE = p /\ old.n <= have
      /\ old = [n |-> old.n, mark |-> old.mark]
  BY <1>2, PointerFacts DEF Owner, Used
<1>4. have \in Nat /\ have % ALIGN = 0 /\ b \in Nat
  BY <1>2, <1>3, BlockFacts DEF Good, Even
<1>5. size \in Nat /\ size \in Asked /\ n \in Nat /\ size <= n /\ n % ALIGN = 0
  BY SizesFacts, AlignedFacts
<1>6. kept \in Nat /\ kept <= size /\ kept <= old.n
  BY <1>3, <1>5
<1>7. [old EXCEPT !.n = size] = r
  BY <1>3
<1>8. /\ h0.header = Heap.header /\ h0.memory = Released(p, kept)
      /\ Rewritten(Heap, h0, b)
  <2>1. Inside(Heap, Released(p, kept), b)
    BY <1>6, ReleasedFacts
  <2>2. Rewritten(Heap, h0, b) /\ h0.memory = Released(p, kept)
    BY <1>2, <1>3, <2>1, InsideRewrites
  <2> QED BY <2>2 DEF Rewritten
<1>9. CASE size = 0
  <2>1. kept = 0
    BY <1>3, <1>9
  <2>2. o = [heap |-> kfree(h0, p), ptr |-> NULL]
    BY <1>9 DEF krealloc, Refused
  <2>3. HeapBecomes(o.heap) /\ live' = Dropping(live, p)
    BY <1>1, <1>9, <2>2 DEF Disown, Dropping
  <2>4. Lawful(kfree([Heap EXCEPT !.memory = Released(p, 0)], p), Dropping(live, p))
    BY FreedLawful
  <2>5. Lawful(o.heap, Dropping(live, p))
    BY <2>1, <2>2, <2>4
  <2> QED BY <2>3, <2>5, BecomesLawful DEF Change
<1>10. CASE size # 0 /\ have >= n
  <2> DEFINE g == Split(h0, b, n, FALSE)
             f == [g EXCEPT !.memory = Fill(@, p + kept, size - kept, old.mark)]
  <2>1. o = [heap |-> g, ptr |-> p]
    BY <1>8, <1>10 DEF krealloc
  <2>2. Lawful(f, Moving(live, p, p, r))
    BY <1>4, <1>5, <1>6, <1>10, StayLawful
  <2>3. p # NULL
    BY <1>3 DEF NULL
  <2>4. live' = Moving(live, p, p, r) /\ HeapBecomes(f)
    BY <1>1, <1>7, <2>1, <2>3 DEF Moving
  <2>5. p \notin DOMAIN live \ {p} /\ r.n \in Asked /\ r.n > 0
    BY <1>5, <1>10
  <2> HIDE DEF f, r
  <2>6. Inv'
    BY <2>2, <2>4, BecomesLawful
  <2> QED BY <2>4, <2>5, <2>6 DEF Change
<1>11. CASE size # 0 /\ ~(have >= n)
  <2> HIDE DEF h0
  <2>1. PICK w \in kmalloc(h0, n) :
          o = IF w.ptr = NULL THEN w ELSE [w EXCEPT !.heap = moved(@, p, w.ptr, have)]
    BY <1>8, <1>11 DEF krealloc
  <2>2. Good(h0) /\ Used(h0) = Used(Heap)
    BY <1>8 DEF Rewritten
  <2>3. Answer(h0, w, n)
    BY <1>5, <2>2, KmallocAnswers
  <2>4. CASE w.ptr = NULL
    <3>1. Good(w.heap) /\ Used(w.heap) = Used(h0) /\ Keeps(h0, w.heap)
      <4>1. \A c \in Nat : c + HEADER_SIZE # NULL
        BY HeapAssumption DEF NULL
      <4> QED BY <2>3, <2>4, <4>1 DEF Answer
    <3>2. kept = old.n
      <4>1. ~(size <= have)
        BY <1>4, <1>5, <1>11, AlignedKeeps
      <4> QED BY <1>3, <1>4, <1>5, <4>1
    <3>3. \A a \in Address : h0.memory[a] = Heap.memory[a]
      BY <1>6, <1>8, <3>2, ReleasedFacts
    <3>4. Keeps(Heap, h0)
      BY <1>8, <2>2, <3>3 DEF Keeps, Untouched, Same, Rewritten, Used
    <3>5. Keeps(Heap, w.heap)
      BY <2>2, <3>1, <3>4, KeepsTransitive
    <3>6. o = w
      BY <2>1, <2>4
    <3>7. Lawful(o.heap, live)
      BY <1>1, <1>2, <2>2, <3>1, <3>5, <3>6, SameLawful
    <3> QED BY <1>1, <1>11, <2>4, <3>6, <3>7, BecomesLawful DEF Change
  <2>5. CASE w.ptr # NULL
    <3>1. PICK c \in Nat : w.ptr = c + HEADER_SIZE /\ Given(h0, w.heap, c, n)
      BY <2>3, <2>5 DEF Answer
    <3> DEFINE q == c + HEADER_SIZE
               g2 == [w.heap EXCEPT !.memory = Copy(@, p, q, have)]
               g3 == kfree(g2, p)
               f == [g3 EXCEPT !.memory = Fill(Fill(@, p, old.n, Stale),
                                               q + kept, size - kept, old.mark)]
    <3>2. o.heap = g3 /\ o.ptr = q
      <4>1. w = [heap |-> w.heap, ptr |-> w.ptr]
        BY <2>3 DEF Answer
      <4>2. o = [w EXCEPT !.heap = g3]
        <5>1. moved(w.heap, p, w.ptr, have) = g3
          BY <3>1 DEF moved
        <5> QED BY <2>1, <2>5, <5>1
      <4> HIDE DEF g3
      <4> QED BY <3>1, <4>1, <4>2
    <3>3. w.heap.brk <= HeapTop
      <4>1. Good(w.heap) /\ b \in Used(w.heap)
        BY <1>3, <2>2, <3>1 DEF Given
      <4>2. g3.brk = w.heap.brk
        <5> DEFINE m2 == Copy(w.heap.memory, p, q, have)
        <5>1. IsHeap(w.heap)
          BY <4>1 DEF Good
        <5>2. /\ IsHeap(g2) /\ g2.brk = w.heap.brk
          BY <5>1 DEF IsHeap
        <5> HIDE DEF g2
        <5>3. g3.brk = g2.brk
          <6> DEFINE was == g2.header[p - HEADER_SIZE].size
                     h1 == Put(g2, p - HEADER_SIZE, was, TRUE)
          <6>1. Written(g2, h1, p - HEADER_SIZE, was, TRUE)
            BY <5>2, PutFacts
          <6>2. g3 = g2 \/ g3 = [h1 EXCEPT !.free_list = <<p - HEADER_SIZE>> \o @]
            BY DEF kfree
          <6> HIDE DEF h1, was, g3
          <6> QED BY <6>1, <6>2 DEF Written, IsHeap
        <5> QED BY <5>2, <5>3
      <4> QED BY <1>1, <3>2, <4>2
    <3>4. /\ q # p /\ q \notin DOMAIN live \ {p}
          /\ Lawful(f, Moving(live, p, q, r))
      BY SMTT(30), <1>4, <1>5, <1>6, <1>11, <3>1, <3>3, MovedLawful DEF h0
    <3>5. q # NULL
      BY HeapAssumption DEF NULL
    <3>6. live' = Moving(live, p, q, r) /\ HeapBecomes(f)
      BY <1>1, <1>7, <3>2, <3>4, <3>5 DEF Moving
    <3>7. r.n \in Asked /\ r.n > 0
      BY <1>5, <1>11
    <3> HIDE DEF f, r, q
    <3>8. Inv'
      BY <3>4, <3>6, BecomesLawful
    <3> QED BY <3>4, <3>6, <3>7, <3>8 DEF Change
  <2> QED BY <2>4, <2>5
<1> QED BY <1>5, <1>9, <1>10, <1>11

LEMMA InitInv == Init => Inv
<1> SUFFICES ASSUME Init PROVE Inv
  OBVIOUS
<1>1. /\ IsHeap(Heap) /\ BlocksOf(Heap) = {} /\ Heap.free_list = <<>> /\ Heap.brk = 0
      /\ Heap.memory = [a \in Address |-> Stale] /\ Heap.frames = MaxFrames
      /\ live = [p \in {} |-> 0]
  BY DEF Init, Heap, IsHeap, BlocksOf
<1>2. Free(Heap) = {} /\ Used(Heap) = {}
  BY <1>1 DEF Free, Used
<1>3. Shape(Heap) /\ Even(Heap) /\ Headers(Heap)
  BY <1>1 DEF Shape, Even, Headers
<1>4. Pages(Heap)
  BY <1>1, HeapAssumption DEF Pages
<1>5. Lists(Heap.free_list, Free(Heap))
  BY <1>1, <1>2 DEF Lists
<1>6. Heap.memory \in [Address -> MarksOfBytes]
  BY <1>1 DEF MarksOfBytes
<1>7. Heap.frames \in 0 .. MaxFrames /\ Heap.brk <= HeapTop
  BY <1>1, HeapAssumption
<1>8. DOMAIN live = {} /\ live = [p \in DOMAIN live |-> live[p]]
  BY <1>1
<1> QED BY <1>1, <1>2, <1>3, <1>4, <1>5, <1>6, <1>7, <1>8 DEF Inv, Lawful, Good

LEMMA StepInv == Inv /\ [Next]_vars => Inv' /\ Change
<1> SUFFICES ASSUME Inv, [Next]_vars PROVE Inv' /\ Change
  OBVIOUS
<1>1. ASSUME NEW size \in Sizes, NEW mark \in Unused, Kmalloc(size, mark)
      PROVE  Inv' /\ Change
  BY <1>1, KmallocStep
<1>2. ASSUME NEW size \in Sizes, Kcalloc(2, size) PROVE Inv' /\ Change
  BY <1>2, KcallocStep
<1>3. ASSUME NEW p \in DOMAIN live \cup Freed, Kfree(p) PROVE Inv' /\ Change
  BY <1>3, KfreeStep
<1>4. ASSUME NEW p \in DOMAIN live, NEW size \in Sizes, Krealloc(p, size)
      PROVE  Inv' /\ Change
  BY <1>4, KreallocStep
<1>5. CASE PagesElsewhere
  BY <1>5, ElsewhereStep
<1>6. CASE UNCHANGED vars
  BY <1>6 DEF vars, heap, Inv, Heap, Change
<1> QED BY <1>1, <1>2, <1>3, <1>4, <1>5, <1>6 DEF Next

\* Every call, whatever its outcome, leaves the heap and its callers in order.
THEOREM HeapInvariant == Spec => []Inv
<1>1. Inv /\ [Next]_vars => Inv'
  BY StepInv
<1> QED BY InitInv, <1>1, PTL DEF Spec

(***************************************************************************)
(* The properties of Heap                                                  *)
(***************************************************************************)
LEMMA InvFacts ==
  ASSUME Inv
  PROVE  /\ Good(Heap) /\ Lawful(Heap, live) /\ heap_current_virtual <= HeapTop
         /\ BlocksOf(Heap) = Blocks /\ Heap.header = header /\ Heap.brk = heap_current_virtual
         /\ \A b : EndOf(Heap, b) = End(b)
         /\ \A b \in Blocks : /\ b \in Nat /\ End(b) \in Nat /\ b < End(b) /\ End(b) <= HeapTop
                              /\ header[b].size \in Nat /\ header[b].is_free \in BOOLEAN
                              /\ b \in Address
<1>1. Good(Heap) /\ Lawful(Heap, live) /\ Heap.brk <= HeapTop
  BY DEF Inv, Lawful
<1>2. /\ BlocksOf(Heap) = Blocks /\ Heap.header = header /\ Heap.brk = heap_current_virtual
      /\ \A b : EndOf(Heap, b) = End(b)
  BY DEF BlocksOf, Blocks, EndOf, End, Heap
<1>3. HeapTop \in Nat
  BY HeapAssumption
<1>4. ASSUME NEW b \in Blocks
      PROVE  /\ b \in Nat /\ End(b) \in Nat /\ b < End(b) /\ End(b) <= heap_current_virtual
             /\ header[b].size \in Nat /\ header[b].is_free \in BOOLEAN
             /\ heap_current_virtual \in Nat
  BY <1>1, <1>2, BlockFacts DEF Good
<1>5. \A b \in Blocks : End(b) <= HeapTop /\ b \in Address
  BY <1>1, <1>2, <1>3, <1>4 DEF Address
<1> QED BY <1>1, <1>2, <1>4, <1>5

\* Every address handed out and every size is aligned, whatever was asked for.
THEOREM HeapTypeOK == Spec => []TypeOK
<1>1. ASSUME Inv PROVE TypeOK
  <2>1. free_list \in Seq(Blocks)
    <3>1. Lists(free_list, Free(Heap)) /\ Free(Heap) \subseteq Blocks
      BY <1>1, InvFacts DEF Good, Heap, Free
    <3>2. free_list \in Seq(Free(Heap))
      BY <3>1 DEF Lists
    <3> QED BY <3>1, <3>2, ElementsSeq
  <2>2. memory \in [Address -> {Header, Stale, Zero} \cup Marks]
    BY <1>1, InvFacts DEF Good, Heap, MarksOfBytes
  <2>3. heap_current_virtual \in 0 .. HeapTop /\ frames \in 0 .. MaxFrames
    <3>1. Heap.brk \in Nat /\ Heap.frames \in 0 .. MaxFrames /\ Heap.frames = frames
      BY <1>1, InvFacts DEF Good, Pages, Heap
    <3> QED BY <1>1, <3>1, InvFacts, HeapAssumption
  <2>4. \A b \in Blocks : b % ALIGN = 0 /\ header[b].size % ALIGN = 0
    BY <1>1, InvFacts DEF Good, Even
  <2> QED BY <1>1, <2>1, <2>2, <2>3, <2>4, InvFacts DEF TypeOK
<1> QED BY HeapInvariant, <1>1, PTL

\* The blocks tile the heap after any sequence of calls.
THEOREM HeapTiled == Spec => []Tiled
<1>1. ASSUME Inv PROVE Tiled
  <2>1. Shape(Heap)
    BY <1>1, InvFacts DEF Good
  <2>2. heap_current_virtual > 0 => 0 \in Blocks
    BY <1>1, <2>1, InvFacts DEF Shape
  <2>3. ASSUME NEW b \in Blocks PROVE End(b) \in Blocks \cup {heap_current_virtual}
    BY <1>1, <2>1, InvFacts DEF Shape
  <2>4. ASSUME NEW b \in Blocks, NEW x \in Blocks, b < x PROVE ~(x < End(b))
    <3>1. End(b) <= x
      BY <1>1, <2>1, <2>4, InvFacts DEF Shape
    <3> QED BY <1>1, <3>1, InvFacts
  <2> QED BY <2>2, <2>3, <2>4 DEF Tiled
<1> QED BY HeapInvariant, <1>1, PTL

\* The free list holds each free block once, and every other block is a caller's.
THEOREM HeapFreeListExact == Spec => []FreeListExact
<1>1. ASSUME Inv PROVE FreeListExact
  <2>1. Lists(free_list, Free(Heap)) /\ Free(Heap) = {b \in Blocks : header[b].is_free}
    BY <1>1, InvFacts DEF Good, Heap, Free
  <2>2. {free_list[i] : i \in DOMAIN free_list} = {b \in Blocks : header[b].is_free}
    BY <2>1, ListsOf
  <2>3. Used(Heap) = {b \in Blocks : ~header[b].is_free}
    BY <1>1, InvFacts DEF Used
  <2>4. ASSUME NEW b \in Used(Heap) PROVE \E p \in DOMAIN live : b = p - HEADER_SIZE
    <3>1. b + HEADER_SIZE \in DOMAIN live /\ b \in Nat
      BY <1>1, <2>3, InvFacts DEF Lawful
    <3> QED BY <3>1, PointerFacts
  <2>5. \A p \in DOMAIN live : p - HEADER_SIZE \in Used(Heap)
    BY <1>1, InvFacts DEF Lawful, Owner
  <2>6. {b \in Blocks : ~header[b].is_free} = {p - HEADER_SIZE : p \in DOMAIN live}
    BY <2>3, <2>4, <2>5
  <2> QED BY <2>1, <2>2, <2>6 DEF FreeListExact, Lists
<1> QED BY HeapInvariant, <1>1, PTL

LEMMA OwnedBytes ==
  ASSUME Inv, NEW p \in DOMAIN live
  PROVE  /\ p \in Nat /\ live[p].n \in Nat /\ p - HEADER_SIZE \in Blocks
         /\ p - HEADER_SIZE < p /\ p + live[p].n <= End(p - HEADER_SIZE)
         /\ End(p - HEADER_SIZE) <= HeapTop
<1> DEFINE b == p - HEADER_SIZE
<1>1. Owner(Heap, p, live[p])
  BY InvFacts DEF Lawful
<1>2. /\ p \in Nat /\ live[p].n \in Nat /\ b \in Blocks /\ live[p].n <= header[b].size
      /\ b + HEADER_SIZE = p
  BY <1>1, InvFacts, PointerFacts DEF Owner, Used
<1>3. b < p
  BY <1>2, HeapAssumption
<1> HIDE DEF b
<1>4. header[b].size \in Nat /\ b \in Nat /\ End(b) <= HeapTop
  BY <1>2, InvFacts
<1>5. End(b) = p + header[b].size
  BY <1>2 DEF End
<1> QED BY <1>2, <1>3, <1>4, <1>5 DEF b

\* Every owner reads back what it wrote, and no header is overwritten.
THEOREM HeapIntact == Spec => []Intact
<1>1. ASSUME Inv PROVE Intact
  <2>1. ASSUME NEW p \in DOMAIN live, NEW a \in p .. p + live[p].n - 1
        PROVE  memory[a] = live[p].mark
    <3>1. Owner(Heap, p, live[p]) /\ Heap.memory = memory
      BY <1>1, InvFacts DEF Lawful, Heap
    <3>2. a \in Nat /\ p <= a /\ a < p + live[p].n /\ a < HeapTop
      BY <1>1, OwnedBytes, InvFacts, HeapAssumption
    <3>3. a \in Address
      BY <3>2, HeapAssumption DEF Address
    <3> QED BY <3>1, <3>2, <3>3 DEF Owner
  <2>2. ASSUME NEW b \in Blocks, NEW a \in b .. b + HEADER_SIZE - 1 PROVE memory[a] = Header
    <3>1. /\ b \in Nat /\ header[b].size \in Nat /\ End(b) <= HeapTop
          /\ HEADER_SIZE \in Nat /\ HeapTop \in Nat
      BY <1>1, InvFacts, HeapAssumption
    <3>2. a \in Nat /\ b <= a /\ a < b + HEADER_SIZE /\ a < HeapTop
      BY <3>1 DEF End
    <3>3. a \in Address
      BY <3>1, <3>2 DEF Address
    <3> QED BY <1>1, <3>2, <3>3, InvFacts DEF Good, Headers, Heap
  <2> QED BY <2>1, <2>2 DEF Intact
<1> QED BY HeapInvariant, <1>1, PTL

\* The heap never reaches past its mapped pages, whenever an expansion fails.
THEOREM HeapBacked == Spec => []Backed
<1>1. ASSUME Inv PROVE Backed
  BY <1>1, InvFacts DEF Good, Pages, Heap, Backed
<1> QED BY HeapInvariant, <1>1, PTL

(***************************************************************************)
(* The refinement                                                          *)
(***************************************************************************)
regions == [p \in DOMAIN live |-> live[p].n]

\* What two callers hold does not overlap.
LEMMA RegionsApart ==
  ASSUME Inv, NEW p \in DOMAIN live, NEW q \in DOMAIN live, p # q
  PROVE  R!Bytes(p, live[p].n) \cap R!Bytes(q, live[q].n) = {}
<1> DEFINE b == p - HEADER_SIZE  c == q - HEADER_SIZE
<1>1. /\ p \in Nat /\ live[p].n \in Nat /\ b \in Blocks /\ b < p /\ p + live[p].n <= End(b)
      /\ q \in Nat /\ live[q].n \in Nat /\ c \in Blocks /\ c < q /\ q + live[q].n <= End(c)
  BY OwnedBytes
<1>2. b # c
  BY <1>1, PointerFacts
<1> HIDE DEF b, c
<1>3. End(b) <= c \/ End(c) <= b
  BY <1>1, <1>2, InvFacts, Apart DEF Good
<1>4. b \in Nat /\ c \in Nat /\ End(b) \in Nat /\ End(c) \in Nat
  BY <1>1, InvFacts
<1>5. p + live[p].n <= q \/ q + live[q].n <= p
  BY <1>1, <1>3, <1>4
<1> QED BY <1>1, <1>5 DEF R!Bytes

\* The regions are in the heap, and apart.
Separated ==
  /\ \A p \in DOMAIN live : p \in Nat /\ live[p].n \in Nat /\ p + live[p].n <= HeapTop
  /\ \A p, q \in DOMAIN live : p # q =>
       R!Bytes(p, live[p].n) \cap R!Bytes(q, live[q].n) = {}

LEMMA InvSeparated == Inv => Separated
<1>1. ASSUME Inv, NEW p \in DOMAIN live
      PROVE  p \in Nat /\ live[p].n \in Nat /\ p + live[p].n <= HeapTop
  <2>1. /\ p \in Nat /\ live[p].n \in Nat /\ p - HEADER_SIZE \in Blocks
        /\ p + live[p].n <= End(p - HEADER_SIZE)
    BY <1>1, OwnedBytes
  <2>2. End(p - HEADER_SIZE) \in Nat /\ End(p - HEADER_SIZE) <= HeapTop /\ HeapTop \in Nat
    BY <1>1, <2>1, InvFacts, HeapAssumption
  <2> QED BY <2>1, <2>2
<1> QED BY <1>1, RegionsApart DEF Separated

LEMMA StepRegions ==
  ASSUME Separated', Change
  PROVE  [R!RNext]_regions
<1>1. CASE live' = live
  BY <1>1 DEF regions
<1>2. ASSUME NEW p, NEW r, p \notin DOMAIN live, r.n \in Asked, r.n > 0,
             live' = Adding(live, p, r)
      PROVE  R!RNext
  <2>1. /\ DOMAIN live' = DOMAIN live \cup {p} /\ live'[p] = r
        /\ \A q \in DOMAIN live : live'[q] = live[q]
    BY <1>2 DEF Adding
  <2>2. regions' = R!With(p, r.n, DOMAIN regions)
    BY <1>2, <2>1 DEF R!With, regions
  <2>3. p \in Address
    <3>1. p \in Nat /\ r.n \in Nat /\ p + r.n <= HeapTop
      BY <2>1 DEF Separated
    <3> QED BY <1>2, <3>1, HeapAssumption DEF Address
  <2>4. R!Clear(p, r.n, DOMAIN regions)
    <3> SUFFICES ASSUME NEW q \in DOMAIN live
                 PROVE  R!Bytes(p, r.n) \cap R!Bytes(q, live[q].n) = {}
      BY DEF R!Clear, regions
    <3>1. R!Bytes(p, live'[p].n) \cap R!Bytes(q, live'[q].n) = {}
      BY <1>2, <2>1 DEF Separated
    <3> QED BY <2>1, <3>1
  <2>5. R!Grant(p, r.n)
    BY <1>2, <2>2, <2>4 DEF R!Grant, regions
  <2> QED BY <1>2, <2>3, <2>5 DEF R!RNext, Asked
<1>3. ASSUME NEW p \in DOMAIN live, live' = Dropping(live, p) PROVE R!RNext
  <2>1. DOMAIN live' = DOMAIN live \ {p} /\ \A q \in DOMAIN live' : live'[q] = live[q]
    BY <1>3 DEF Dropping
  <2>2. R!GiveBack(p)
    BY <2>1 DEF R!GiveBack, regions
  <2> QED BY <2>2 DEF R!RNext, regions
<1>4. ASSUME NEW p \in DOMAIN live, NEW q, NEW r, q \notin DOMAIN live \ {p},
             r.n \in Asked, r.n > 0, live' = Moving(live, p, q, r)
      PROVE  R!RNext
  <2>1. /\ DOMAIN live' = (DOMAIN live \ {p}) \cup {q} /\ live'[q] = r
        /\ \A x \in DOMAIN live \ {p} : live'[x] = live[x]
    BY <1>4 DEF Moving
  <2>2. regions' = R!With(q, r.n, DOMAIN regions \ {p})
    BY <1>4, <2>1 DEF R!With, regions
  <2>3. q \in Address
    <3>1. q \in Nat /\ r.n \in Nat /\ q + r.n <= HeapTop
      BY <2>1 DEF Separated
    <3> QED BY <1>4, <3>1, HeapAssumption DEF Address
  <2>4. R!Clear(q, r.n, DOMAIN regions \ {p})
    <3> SUFFICES ASSUME NEW x \in DOMAIN live \ {p}
                 PROVE  R!Bytes(q, r.n) \cap R!Bytes(x, live[x].n) = {}
      BY DEF R!Clear, regions
    <3>1. R!Bytes(q, live'[q].n) \cap R!Bytes(x, live'[x].n) = {}
      BY <1>4, <2>1 DEF Separated
    <3> QED BY <2>1, <3>1
  <2>5. R!Resize(p, q, r.n)
    BY <1>4, <2>2, <2>4 DEF R!Resize, regions
  <2> QED BY <1>4, <2>3, <2>5 DEF R!RNext, Asked, regions
<1> QED BY <1>1, <1>2, <1>3, <1>4 DEF Change

\* heap.c implements an allocator of disjoint regions, each changed by its own
\* caller's calls only.
THEOREM HeapImplements == Spec => Implements
<1>1. Init => R!RInit
  BY DEF Init, R!RInit
<1>2. Inv => Separated
  BY InvSeparated
<1>3. Inv /\ [Next]_vars => Change
  BY StepInv
<1>4. Separated' /\ Change => [R!RNext]_regions
  BY StepRegions
<1> QED BY <1>1, <1>2, <1>3, <1>4, HeapInvariant, PTL DEF Spec, Implements, R!RSpec, regions
====
