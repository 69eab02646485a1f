---- MODULE KMem ----
(***************************************************************************)
(* klib/mem.c: memcpy, memset, memmove and memcmp, at their real sizes     *)
(* (eight-byte words, the cases up to 16 bytes, alignment). Each is a      *)
(* sequence of byte and word moves in program order, run over a memory;    *)
(* the properties compare the outcome with the C standard's, which the     *)
(* file says the four must meet.                                           *)
(***************************************************************************)
EXTENDS Integers, Sequences

CONSTANTS
  Size,                    \* bytes of memory
  Copies, Sets, Moves, Comparisons     \* the calls that are made

Address == 0 .. Size - 1
Word == 8

\* A region of n bytes at p, and whether two of them meet.
Region(p, n) == {a \in Address : p <= a /\ a < p + n}
Disjoint(p, q, n) == Region(p, n) \cap Region(q, n) = {}

ASSUME CallsAssumption ==
  /\ Size \in Nat
  /\ Copies \cup Moves \subseteq [dest : Nat, src : Nat, n : Nat]
  /\ Sets \subseteq [dest : Nat, c : Int, n : Nat]
  /\ Comparisons \subseteq [p1 : Nat, p2 : Nat, n : Nat, differ : SUBSET Nat, by : {-1, 1}]
  /\ \A k \in Copies \cup Moves : k.dest + k.n <= Size /\ k.src + k.n <= Size
  /\ \A k \in Sets : k.dest + k.n <= Size
  /\ \A k \in Copies : Disjoint(k.dest, k.src, k.n)      \* restrict
  /\ \A k \in Comparisons :
       /\ k.p1 + k.n <= Size /\ k.p2 + k.n <= Size /\ k.differ \subseteq 0 .. k.n - 1
       /\ k.p1 = k.p2 \/ Disjoint(k.p1, k.p2, k.n)

VARIABLES
  mem,                     \* [Address -> byte]
  call,                    \* the call that has returned, None before it
  ret                      \* what memcmp returned

vars == <<mem, call, ret>>
None == [f |-> "none"]

\* Every byte of memory differs from every other.
Distinct == [a \in Address |-> a]

(***************************************************************************)
(* Moves                                                                   *)
(***************************************************************************)
Move(d, s, w) == [d |-> d, s |-> s, w |-> w]

\* Read w bytes at s, then write them at d.
Moved(m, v) == [a \in Address |-> IF a \in v.d .. v.d + v.w - 1 THEN m[a - v.d + v.s] ELSE m[a]]

Run(m, moves) ==
  LET after[i \in 0 .. Len(moves)] ==
        IF i = 0 THEN m ELSE Moved(after[i - 1], moves[i])
  IN  after[Len(moves)]

\* How many bytes each end of the region has written singly, n > 0. Mutant: the
\* last case stops one short.
ends_off_by_one(n) == IF n <= 2 THEN 1 ELSE IF n <= 6 THEN 3 ELSE IF n <= 8 THEN 4 ELSE 7
ends(n) == IF n <= 2 THEN 1 ELSE IF n <= 6 THEN 3 ELSE IF n <= 8 THEN 4 ELSE 8

\* Their offsets, front and back in turn.
End(n, j) == IF j % 2 = 1 THEN (j - 1) \div 2 ELSE n - j \div 2
EndMoves(d, s, n) == [j \in 1 .. 2 * ends(n) |-> Move(d + End(n, j), s + End(n, j), 1)]

\* Bytes up to the alignment of d, then whole words of what is left.
Skip(d) == (-d) % Word
Words(d, n) == (n - Skip(d)) \div Word

Upwards(d, s, n) ==
  [i \in 1 .. Skip(d) |-> Move(d + i - 1, s + i - 1, 1)]
    \o [i \in 1 .. Words(d, n) |->
          LET at == Skip(d) + Word * (i - 1) IN Move(d + at, s + at, Word)]

\* Up to 16 bytes, the ends are all.
memcpy(d, s, n) ==
  IF n = 0 THEN <<>>
  ELSE EndMoves(d, s, n) \o (IF n <= 16 THEN <<>> ELSE Upwards(d, s, n))

\* memmove copies downwards from the end when dest lies inside the source.
Below(d, n) == (d + n) % Word
Downwards(d, s, n) ==
  [i \in 1 .. Below(d, n) |-> Move(d + n - i, s + n - i, 1)]
    \o [i \in 1 .. (n - Below(d, n)) \div Word |->
          LET at == n - Below(d, n) - Word * i IN Move(d + at, s + at, Word)]

memmove(d, s, n) ==
  IF n = 0 \/ d = s THEN <<>>
  ELSE IF d < s \/ d >= s + n THEN memcpy(d, s, n)
  ELSE EndMoves(d, s, n) \o (IF n <= 16 THEN <<>> ELSE Downwards(d, s, n))

\* The addresses memset writes, in any order: all get the same byte.
Stored(d, n) ==
  IF n = 0 THEN {}
  ELSE {d + End(n, j) : j \in 1 .. 2 * ends(n)}
         \cup (IF n <= 16 THEN {}
               ELSE d + Skip(d) .. d + Skip(d) + Word * Words(d, n) - 1)
memset(m, d, c, n) == [a \in Address |-> IF a \in Stored(d, n) THEN c % 256 ELSE m[a]]

(***************************************************************************)
(* memcmp. Words are compared four at a time while four are left, then     *)
(* singly; after a difference the bytes are compared from where the word   *)
(* pointer stands, which only the single loop advances, for n % 8 bytes.   *)
(***************************************************************************)
SameWord(m, p, q, i) == \A b \in 0 .. Word - 1 : m[p + Word * i + b] = m[q + Word * i + b]

\* The first of the words 0 .. count - 1 that differs, count if none does.
FirstDiffering(m, p, q, count) ==
  CHOOSE i \in 0 .. count :
    /\ i = count \/ ~SameWord(m, p, q, i)
    /\ \A j \in 0 .. i - 1 : SameWord(m, p, q, j)

\* Words left when the loop of four ends, and how far the pointer then moves.
WordsLeft(m, p, q, total) ==
  LET fours == 4 * (total \div 4)
      differ == FirstDiffering(m, p, q, fours)
  IN  total - 4 * (differ \div 4)
Advanced(m, p, q, total) ==
  LET left == WordsLeft(m, p, q, total) IN
  IF left < 4 THEN FirstDiffering(m, p, q, left) ELSE 0

CompareBytes(m, p, q, n) ==
  LET differs == {i \in 0 .. n - 1 : m[p + i] # m[q + i]} IN
  IF differs = {} THEN 0
  ELSE LET i == CHOOSE i \in differs : \A j \in differs : i <= j IN m[p + i] - m[q + i]

memcmp(m, p, q, n) ==
  LET at == Word * Advanced(m, p, q, n \div Word) IN
  IF p = q THEN 0 ELSE CompareBytes(m, p + at, q + at, n % Word)

(***************************************************************************)
(* One call from a memory of known contents, and back.                     *)
(***************************************************************************)
Init == mem = Distinct /\ call = None /\ ret = 0

CallMemcpy(k) ==
  /\ mem' = Run(mem, memcpy(k.dest, k.src, k.n))
  /\ call' = [f |-> "memcpy", k |-> k] /\ UNCHANGED ret
CallMemmove(k) ==
  /\ mem' = Run(mem, memmove(k.dest, k.src, k.n))
  /\ call' = [f |-> "memmove", k |-> k] /\ UNCHANGED ret
CallMemset(k) ==
  /\ mem' = memset(mem, k.dest, k.c, k.n)
  /\ call' = [f |-> "memset", k |-> k] /\ UNCHANGED ret

\* The second operand equals the first but at the offsets that differ.
CallMemcmp(k) ==
  /\ mem' = [a \in Address |->
       IF a \in Region(k.p2, k.n)
       THEN mem[a - k.p2 + k.p1] + (IF a - k.p2 \in k.differ THEN k.by ELSE 0)
       ELSE mem[a]]
  /\ ret' = memcmp(mem', k.p1, k.p2, k.n)
  /\ call' = [f |-> "memcmp", k |-> k]

Call ==
  /\ call = None
  /\ \/ \E k \in Copies : CallMemcpy(k)
     \/ \E k \in Moves : CallMemmove(k)
     \/ \E k \in Sets : CallMemset(k)
     \/ \E k \in Comparisons : CallMemcmp(k)

Again == call # None /\ mem' = Distinct /\ call' = None /\ ret' = 0

Next == Call \/ Again
Spec == Init /\ [][Next]_vars

(***************************************************************************)
(* Properties                                                              *)
(***************************************************************************)
Copied(k) == mem = [a \in Address |->
  IF a \in Region(k.dest, k.n) THEN a - k.dest + k.src ELSE a]

\* memcpy copies n bytes between regions that do not overlap, whatever their
\* alignment, and touches nothing else.
MemcpyCopies == call.f = "memcpy" => Copied(call.k)

\* memmove copies n bytes between regions that may overlap, as if through a
\* buffer of its own.
MemmoveMoves == call.f = "memmove" => Copied(call.k)

\* memset stores c, converted to unsigned char, in n bytes and nowhere else.
MemsetFills == call.f = "memset" =>
  mem = [a \in Address |->
    IF a \in Region(call.k.dest, call.k.n) THEN call.k.c % 256 ELSE a]

Sign(i) == IF i < 0 THEN -1 ELSE IF i > 0 THEN 1 ELSE 0

\* memcmp returns the sign of the first difference, as unsigned chars, and 0
\* when there is none.
MemcmpOrders == call.f = "memcmp" =>
  Sign(ret) = IF call.k.differ = {} \/ call.k.p1 = call.k.p2 THEN 0 ELSE -call.k.by

\* The four are what C mandates, for every call their users may make.
MandatedByC == MemcpyCopies /\ MemmoveMoves /\ MemsetFills /\ MemcmpOrders
====
