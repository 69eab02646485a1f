---- MODULE KMemProofs ----
(***************************************************************************)
(* The memory routines do what C mandates, at every address and length, as *)
(* long as memmove's regions do not overlap in part and memcmp finds no    *)
(* difference in eight bytes or more.                                      *)
(***************************************************************************)
EXTENDS KMem, FiniteSets, FiniteSetTheorems, TLAPS

(***************************************************************************)
(* Induction                                                               *)
(***************************************************************************)

\* A set that has 0 and, with a number, the next has them all: were n missing,
\* the numbers up to n that are missing would be moved down by one, without two
\* meeting, to the same numbers but n.
LEMMA Induct ==
  ASSUME NEW S, 0 \in S, \A n \in Nat : n \in S => n + 1 \in S
  PROVE  Nat \subseteq S
<1> SUFFICES ASSUME NEW n \in Nat, n \notin S PROVE FALSE
  OBVIOUS
<1> DEFINE D == {m \in 0 .. n : m \notin S}
           down == [m \in D |-> m - 1]
<1>1. IsFiniteSet(D) /\ n \in D
  <2>1. IsFiniteSet(0 .. n)
    BY FS_Interval
  <2> QED BY <2>1, FS_Subset
<1>2. \A m \in D : m - 1 \in D \ {n}
  <2> SUFFICES ASSUME NEW m \in D PROVE m - 1 \in D \ {n}
    OBVIOUS
  <2>1. m \in Nat /\ m # 0 /\ m <= n
    OBVIOUS
  <2>2. m - 1 \in Nat /\ (m - 1) + 1 = m /\ m - 1 # n /\ m - 1 \in 0 .. n
    BY <2>1
  <2>3. m - 1 \notin S
    BY <2>2
  <2> QED BY <2>2, <2>3
<1>3. /\ IsFiniteSet(D \ {n}) /\ Cardinality(D \ {n}) = Cardinality(D) - 1
      /\ Cardinality(D) \in Nat
  BY <1>1, FS_RemoveElement, FS_CardinalityType
<1>4. down \in [D -> D \ {n}]
  BY <1>2
<1>5. Cardinality(D \ {n}) < Cardinality(D)
  BY <1>3
<1> HIDE DEF D, down
<1>6. PICK i, j \in D : i # j /\ down[i] = down[j]
  BY <1>1, <1>3, <1>4, <1>5, FS_PigeonHole
<1>7. i \in Nat /\ j \in Nat
  BY DEF D
<1>8. down[i] = i - 1 /\ down[j] = j - 1
  BY DEF down
<1>9. i - 1 = j - 1
  BY <1>6, <1>8, Zenon
<1> QED BY <1>6, <1>7, <1>9

LEMMA Least ==
  ASSUME NEW T \in SUBSET Nat, T # {}
  PROVE  \E x \in T : \A y \in T : x <= y
<1> SUFFICES ASSUME \A x \in T : \E y \in T : y < x PROVE FALSE
  OBVIOUS
<1> DEFINE S == {n \in Nat : \A m \in 0 .. n : m \notin T}
<1>1. 0 \in S
  OBVIOUS
<1>2. ASSUME NEW n \in Nat, n \in S PROVE n + 1 \in S
  <2>1. n + 1 \notin T
    <3> SUFFICES ASSUME n + 1 \in T PROVE FALSE
      OBVIOUS
    <3>1. PICK y \in T : y < n + 1
      OBVIOUS
    <3> QED BY <1>2, <3>1
  <2> QED BY <1>2, <2>1
<1> HIDE DEF S
<1>3. Nat \subseteq S
  BY <1>1, <1>2, Induct
<1>4. PICK t \in T : TRUE
  OBVIOUS
<1>5. t \in S /\ t \in 0 .. t
  BY <1>3
<1> QED BY <1>5 DEF S

(***************************************************************************)
(* Runs of moves                                                           *)
(***************************************************************************)

\* The addresses a move writes; of the first k moves.
Target(v) == v.d .. v.d + v.w - 1
Targets(moves, k) == UNION {Target(moves[i]) : i \in 1 .. k}

\* Every byte goes where a copy of n bytes from s to d takes it.
Within(v, d, s, n) ==
  /\ v.d \in Int /\ v.s \in Int /\ v.w \in Int
  /\ v.s = v.d - d + s /\ d <= v.d /\ v.d + v.w <= d + n
AllWithin(moves, d, s, n) == \A i \in 1 .. Len(moves) : Within(moves[i], d, s, n)

Taken(m, d, s, at) == [a \in Address |-> IF a \in at THEN m[a - d + s] ELSE m[a]]

LEMMA SizeNat == Size \in Nat
BY CallsAssumption DEF CallsAssumption

LEMMA TargetWithin ==
  ASSUME NEW d \in Nat, NEW s \in Nat, NEW n \in Nat, d + n <= Size,
         NEW v, Within(v, d, s, n)
  PROVE  Target(v) \subseteq Region(d, n)
BY SizeNat DEF Target, Within, Region, Address

LEMMA AllTargets ==
  ASSUME NEW d \in Nat, NEW s \in Nat, NEW n \in Nat, d + n <= Size,
         NEW moves, Len(moves) \in Nat, AllWithin(moves, d, s, n)
  PROVE  Targets(moves, Len(moves)) \subseteq Region(d, n)
<1> SUFFICES ASSUME NEW i \in 1 .. Len(moves), NEW a \in Target(moves[i]) PROVE a \in Region(d, n)
  BY DEF Targets
<1>1. Within(moves[i], d, s, n)
  BY DEF AllWithin
<1> QED BY <1>1, TargetWithin

LEMMA MovedTakes ==
  ASSUME NEW m, NEW d \in Nat, NEW s \in Nat, NEW n \in Nat,
         d + n <= Size, s + n <= Size, Disjoint(d, s, n),
         NEW at \in SUBSET Region(d, n), NEW v, Within(v, d, s, n)
  PROVE  Moved(Taken(m, d, s, at), v) = Taken(m, d, s, at \cup Target(v))
<1> DEFINE before == Taken(m, d, s, at)
<1>1. ASSUME NEW a \in Address, a \in Target(v)
      PROVE  before[a - v.d + v.s] = m[a - d + s]
  <2>1. a \in Int /\ d <= a /\ a < d + n /\ a - v.d + v.s = a - d + s
    BY <1>1 DEF Target, Within, Address
  <2>2. a - d + s \in Region(s, n)
    BY <2>1, SizeNat DEF Region, Address
  <2>3. a - d + s \notin at /\ a - d + s \in Address
    BY <2>2 DEF Disjoint, Region
  <2> QED BY <2>1, <2>3 DEF Taken
<1>2. ASSUME NEW a \in Address
      PROVE  Moved(before, v)[a] = Taken(m, d, s, at \cup Target(v))[a]
  <2>1. CASE a \in Target(v)
    <3>1. Moved(before, v)[a] = before[a - v.d + v.s]
      BY <2>1 DEF Moved, Target
    <3> QED BY <1>1, <2>1, <3>1 DEF Taken
  <2>2. CASE a \notin Target(v)
    <3>1. Moved(before, v)[a] = before[a]
      BY <2>2 DEF Moved, Target
    <3> QED BY <2>2, <3>1 DEF Taken
  <2> QED BY <2>1, <2>2
<1> HIDE DEF before
<1>3. Moved(before, v) = [a \in Address |-> Moved(before, v)[a]]
  BY DEF Moved
<1>4. Taken(m, d, s, at \cup Target(v)) =
        [a \in Address |-> Taken(m, d, s, at \cup Target(v))[a]]
  BY DEF Taken
<1> QED BY <1>2, <1>3, <1>4, Zenon DEF before

LEMMA RunTakes ==
  ASSUME NEW m, NEW d \in Nat, NEW s \in Nat, NEW n \in Nat,
         d + n <= Size, s + n <= Size, Disjoint(d, s, n),
         NEW moves, Len(moves) \in Nat, AllWithin(moves, d, s, n)
  PROVE  m = [a \in Address |-> m[a]] =>
           Run(m, moves) = Taken(m, d, s, Targets(moves, Len(moves)))
<1> DEFINE last == Len(moves)
           By(k) == Taken(m, d, s, Targets(moves, k))
           Rec(f) == [i \in 0 .. last |-> IF i = 0 THEN m ELSE Moved(f[i - 1], moves[i])]
           after == CHOOSE f : f = Rec(f)
           by == [i \in 0 .. last |-> By(i)]
<1>1. m = [a \in Address |-> m[a]] => By(0) = m
  <2>1. Targets(moves, 0) = {}
    BY DEF Targets
  <2> QED BY <2>1 DEF Taken
<1>2. ASSUME NEW i \in 1 .. last PROVE By(i) = Moved(By(i - 1), moves[i])
  <2>1. Targets(moves, i) = Targets(moves, i - 1) \cup Target(moves[i])
    <3>1. 1 .. i = (1 .. i - 1) \cup {i}
      OBVIOUS
    <3> QED BY <3>1 DEF Targets
  <2>2. Targets(moves, i - 1) \subseteq Region(d, n)
    <3> SUFFICES ASSUME NEW j \in 1 .. i - 1, NEW a \in Target(moves[j]) PROVE a \in Region(d, n)
      BY DEF Targets
    <3>1. Within(moves[j], d, s, n)
      BY DEF AllWithin
    <3> QED BY <3>1, TargetWithin
  <2>3. Within(moves[i], d, s, n)
    BY DEF AllWithin
  <2> QED BY <2>1, <2>2, <2>3, MovedTakes
<1> HIDE DEF By
<1> HAVE m = [a \in Address |-> m[a]]
<1>3. by = Rec(by)
  BY <1>1, <1>2
<1> HIDE DEF by
<1>4. after = Rec(after)
  BY <1>3
<1> DEFINE S == {k \in Nat : k <= last => after[k] = By(k)}
<1> HIDE DEF after
<1>5. 0 \in S
  BY <1>1, <1>4
<1>6. ASSUME NEW k \in Nat, k \in S PROVE k + 1 \in S
  <2> SUFFICES ASSUME k + 1 <= last PROVE after[k + 1] = By(k + 1)
    BY <1>6
  <2>1. k + 1 \in 1 .. last /\ (k + 1) - 1 = k /\ k + 1 # 0 /\ k + 1 \in 0 .. last
    OBVIOUS
  <2>2. after[k + 1] = Moved(after[k], moves[k + 1])
    BY <1>4, <2>1
  <2>3. after[k] = By(k)
    BY <1>6, <2>1
  <2> QED BY <1>2, <2>1, <2>2, <2>3
<1>7. Nat \subseteq S
  <2> HIDE DEF S
  <2> QED BY <1>5, <1>6, Induct
<1>8. after[last] = By(last)
  BY <1>7
<1>9. Run(m, moves) = after[last]
  BY DEF Run, after
<1> QED BY <1>8, <1>9 DEF By

Triples == [d : Int, s : Int, w : Int]

LEMMA IsSequence ==
  ASSUME NEW k \in Nat, NEW f, f = [i \in 1 .. k |-> f[i]], \A i \in 1 .. k : f[i] \in Triples
  PROVE  f \in Seq(Triples) /\ Len(f) = k
<1>1. f \in [1 .. k -> Triples]
  OBVIOUS
<1> QED BY <1>1

LEMMA Joined ==
  ASSUME NEW a \in Seq(Triples), NEW b \in Seq(Triples), NEW d, NEW s, NEW n,
         AllWithin(a, d, s, n), AllWithin(b, d, s, n)
  PROVE  /\ a \o b \in Seq(Triples) /\ AllWithin(a \o b, d, s, n)
         /\ Targets(a \o b, Len(a \o b)) = Targets(a, Len(a)) \cup Targets(b, Len(b))
<1> DEFINE c == a \o b
<1>1. /\ c \in Seq(Triples) /\ Len(c) = Len(a) + Len(b) /\ Len(a) \in Nat /\ Len(b) \in Nat
      /\ \A i \in 1 .. Len(c) : c[i] = IF i <= Len(a) THEN a[i] ELSE b[i - Len(a)]
  OBVIOUS
<1> HIDE DEF c
<1>2. ASSUME NEW i \in 1 .. Len(c)
      PROVE  (i \in 1 .. Len(a) /\ c[i] = a[i]) \/ (i - Len(a) \in 1 .. Len(b) /\ c[i] = b[i - Len(a)])
  BY <1>1
<1>3. \A i \in 1 .. Len(a) : i \in 1 .. Len(c) /\ c[i] = a[i]
  BY <1>1
<1>4. \A j \in 1 .. Len(b) : j + Len(a) \in 1 .. Len(c) /\ c[j + Len(a)] = b[j]
  BY <1>1
<1>5. AllWithin(c, d, s, n)
  BY <1>2 DEF AllWithin
<1>6. Targets(c, Len(c)) \subseteq Targets(a, Len(a)) \cup Targets(b, Len(b))
  <2> SUFFICES ASSUME NEW i \in 1 .. Len(c), NEW x \in Target(c[i])
               PROVE  x \in Targets(a, Len(a)) \cup Targets(b, Len(b))
    BY DEF Targets
  <2> QED BY <1>2 DEF Targets
<1>7. Targets(a, Len(a)) \subseteq Targets(c, Len(c))
  BY <1>3 DEF Targets
<1>8. Targets(b, Len(b)) \subseteq Targets(c, Len(c))
  BY <1>4 DEF Targets
<1> QED BY <1>1, <1>5, <1>6, <1>7, <1>8 DEF c

(***************************************************************************)
(* The bytes of memcpy                                                     *)
(***************************************************************************)
LEMMA EndsCover ==
  ASSUME NEW n \in Nat, n > 0
  PROVE  /\ ends(n) \in Nat /\ ends(n) <= n /\ (n > 16 => ends(n) = 8) /\ (n <= 16 => n <= 2 * ends(n))
         /\ {End(n, j) : j \in 1 .. 2 * ends(n)} = (0 .. ends(n) - 1) \cup (n - ends(n) .. n - 1)
<1>1. ends(n) \in Nat /\ ends(n) <= n /\ (n > 16 => ends(n) = 8) /\ (n <= 16 => n <= 2 * ends(n))
  BY DEF ends
<1> DEFINE e == ends(n)
<1> HIDE DEF e
<1>2. e \in Nat /\ e <= n
  BY <1>1 DEF e
<1>3. ASSUME NEW j \in 1 .. 2 * e PROVE End(n, j) \in (0 .. e - 1) \cup (n - e .. n - 1)
  BY <1>2 DEF End
<1>4. ASSUME NEW x \in 0 .. e - 1 PROVE \E j \in 1 .. 2 * e : End(n, j) = x
  <2>1. 2 * x + 1 \in 1 .. 2 * e /\ End(n, 2 * x + 1) = x
    BY <1>2 DEF End
  <2> QED BY <2>1
<1>5. ASSUME NEW x \in n - e .. n - 1 PROVE \E j \in 1 .. 2 * e : End(n, j) = x
  <2>1. 2 * (n - x) \in 1 .. 2 * e /\ End(n, 2 * (n - x)) = x
    BY <1>2 DEF End
  <2> QED BY <2>1
<1> QED BY <1>1, <1>3, <1>4, <1>5 DEF e

LEMMA EndMovesTake ==
  ASSUME NEW d \in Nat, NEW s \in Nat, NEW n \in Nat, n > 0, d + n <= Size
  PROVE  LET moves == EndMoves(d, s, n) IN
         /\ moves \in Seq(Triples) /\ AllWithin(moves, d, s, n)
         /\ Targets(moves, Len(moves)) =
              {a \in Region(d, n) : a < d + ends(n) \/ a >= d + n - ends(n)}
<1> DEFINE moves == EndMoves(d, s, n)  k == 2 * ends(n)
<1>1. /\ k \in Nat /\ ends(n) \in Nat /\ ends(n) <= n
      /\ {End(n, j) : j \in 1 .. k} = (0 .. ends(n) - 1) \cup (n - ends(n) .. n - 1)
  BY EndsCover
<1>2. ASSUME NEW j \in 1 .. k
      PROVE  /\ End(n, j) \in 0 .. n - 1 /\ moves[j] = Move(d + End(n, j), s + End(n, j), 1)
             /\ moves[j] \in Triples /\ Within(moves[j], d, s, n) /\ Target(moves[j]) = {d + End(n, j)}
  <2>1. End(n, j) \in 0 .. n - 1
    BY <1>1
  <2>2. moves[j] = Move(d + End(n, j), s + End(n, j), 1)
    BY DEF EndMoves
  <2> DEFINE e == End(n, j)
  <2> HIDE DEF e
  <2>3. moves[j] = [d |-> d + e, s |-> s + e, w |-> 1] /\ e \in 0 .. n - 1
    BY <2>1, <2>2 DEF Move, e
  <2> HIDE DEF moves
  <2>4. moves[j] \in Triples /\ Within(moves[j], d, s, n) /\ Target(moves[j]) = {d + e}
    BY <2>3 DEF Triples, Within, Target
  <2> QED BY <2>1, <2>2, <2>4 DEF e
<1>3. moves \in Seq(Triples) /\ Len(moves) = k
  <2>1. moves = [j \in 1 .. k |-> moves[j]]
    BY DEF EndMoves
  <2> HIDE DEF moves, k
  <2> QED BY <1>1, <1>2, <2>1, IsSequence
<1> HIDE DEF moves, k
<1>4. AllWithin(moves, d, s, n)
  BY <1>2, <1>3 DEF AllWithin
<1>5. Targets(moves, k) = {d + x : x \in {End(n, j) : j \in 1 .. k}}
  <2>1. ASSUME NEW a \in Targets(moves, k) PROVE \E j \in 1 .. k : a = d + End(n, j)
    BY <1>2 DEF Targets
  <2>2. ASSUME NEW j \in 1 .. k PROVE d + End(n, j) \in Targets(moves, k)
    BY <1>2 DEF Targets
  <2> QED BY <2>1, <2>2
<1>6. {d + x : x \in (0 .. ends(n) - 1) \cup (n - ends(n) .. n - 1)} =
        {a \in Region(d, n) : a < d + ends(n) \/ a >= d + n - ends(n)}
  <2> DEFINE e == ends(n)
  <2> HIDE DEF e
  <2>0. e \in Nat /\ e <= n
    BY <1>1 DEF e
  <2>1. ASSUME NEW x \in (0 .. e - 1) \cup (n - e .. n - 1)
        PROVE  d + x \in Region(d, n) /\ (d + x < d + e \/ d + x >= d + n - e)
    BY <2>0, SizeNat DEF Region, Address
  <2>2. ASSUME NEW a \in Region(d, n), a < d + e \/ a >= d + n - e
        PROVE  a - d \in (0 .. e - 1) \cup (n - e .. n - 1) /\ d + (a - d) = a
    BY <2>0, <2>2, SizeNat DEF Region, Address
  <2> QED BY <2>1, <2>2 DEF e
<1> QED BY <1>1, <1>3, <1>4, <1>5, <1>6 DEF moves, k

\* After the alignment and the words less than a word is left.
LEMMA SkipFacts ==
  ASSUME NEW d \in Nat, NEW n \in Nat, n > 16
  PROVE  /\ Skip(d) \in 0 .. 7 /\ Words(d, n) \in Nat
         /\ Skip(d) + Word * Words(d, n) <= n /\ n < Skip(d) + Word * Words(d, n) + Word
BY DEF Skip, Words, Word

LEMMA UpwardsTake ==
  ASSUME NEW d \in Nat, NEW s \in Nat, NEW n \in Nat, n > 16, d + n <= Size
  PROVE  LET moves == Upwards(d, s, n) IN
         /\ moves \in Seq(Triples) /\ AllWithin(moves, d, s, n)
         /\ {a \in Region(d, n) : a < d + n - 7} \subseteq Targets(moves, Len(moves))
         /\ Targets(moves, Len(moves)) \subseteq Region(d, n)
<1> DEFINE k == Skip(d)  w == Words(d, n)
           f == [i \in 1 .. k |-> Move(d + i - 1, s + i - 1, 1)]
           g == [i \in 1 .. w |-> LET at == k + Word * (i - 1) IN Move(d + at, s + at, Word)]
<1>1. k \in 0 .. 7 /\ k \in Nat /\ w \in Nat /\ k + 8 * w <= n /\ n < k + 8 * w + 8
  BY SkipFacts DEF Word
<1>2. Upwards(d, s, n) = f \o g
  BY DEF Upwards
<1> HIDE DEF k, w
<1>3. ASSUME NEW i \in 1 .. k
      PROVE  f[i] \in Triples /\ Within(f[i], d, s, n) /\ Target(f[i]) = {d + i - 1}
  <2>1. f[i] = [d |-> d + i - 1, s |-> s + i - 1, w |-> 1]
    BY DEF Move
  <2> HIDE DEF f
  <2> QED BY <1>1, <2>1 DEF Triples, Within, Target
<1>4. ASSUME NEW i \in 1 .. w
      PROVE  /\ g[i] \in Triples /\ Within(g[i], d, s, n)
             /\ Target(g[i]) = d + k + 8 * (i - 1) .. d + k + 8 * (i - 1) + 7
  <2> DEFINE at == k + 8 * (i - 1)
  <2>1. g[i] = [d |-> d + at, s |-> s + at, w |-> 8]
    BY DEF Move, Word
  <2>2. at \in Nat /\ at + 8 <= n
    BY <1>1
  <2> HIDE DEF g, at
  <2>3. g[i] \in Triples /\ Within(g[i], d, s, n) /\ Target(g[i]) = d + at .. d + at + 7
    BY <2>1, <2>2 DEF Triples, Within, Target
  <2>4. d + at = d + k + 8 * (i - 1)
    BY <1>1 DEF at
  <2> QED BY <2>3, <2>4
<1>5. f = [i \in 1 .. k |-> f[i]] /\ g = [i \in 1 .. w |-> g[i]]
  OBVIOUS
<1> HIDE DEF f, g
<1>6. f \in Seq(Triples) /\ Len(f) = k /\ g \in Seq(Triples) /\ Len(g) = w
  BY <1>1, <1>3, <1>4, <1>5, IsSequence
<1>7. AllWithin(f, d, s, n) /\ AllWithin(g, d, s, n)
  BY <1>3, <1>4, <1>6 DEF AllWithin
<1>8. /\ f \o g \in Seq(Triples) /\ AllWithin(f \o g, d, s, n)
      /\ Targets(f \o g, Len(f \o g)) = Targets(f, k) \cup Targets(g, w)
  BY <1>6, <1>7, Joined
<1>9. ASSUME NEW a \in Region(d, n), a < d + n - 7
      PROVE  a \in Targets(f, k) \cup Targets(g, w)
  <2>1. a \in Int /\ d <= a
    BY SizeNat DEF Region, Address
  <2>2. CASE a < d + k
    <3>1. a - d + 1 \in 1 .. k /\ a \in Target(f[a - d + 1])
      BY <1>1, <1>3, <2>1, <2>2
    <3> QED BY <3>1 DEF Targets
  <2>3. CASE a >= d + k
    <3> DEFINE i == (a - d - k) \div 8 + 1
    <3>1. i \in 1 .. w /\ a \in d + k + 8 * (i - 1) .. d + k + 8 * (i - 1) + 7
      BY <1>1, <1>9, <2>1, <2>3
    <3> HIDE DEF i
    <3>2. a \in Target(g[i])
      BY <1>4, <3>1
    <3> QED BY <3>1, <3>2 DEF Targets
  <2> QED BY <1>1, <2>1, <2>2, <2>3
<1>10. Targets(f \o g, Len(f \o g)) \subseteq Region(d, n)
  <2> DEFINE c == f \o g
  <2>1. Len(c) \in Nat /\ AllWithin(c, d, s, n)
    BY <1>8
  <2> HIDE DEF c
  <2>2. Targets(c, Len(c)) \subseteq Region(d, n)
    BY <2>1, AllTargets
  <2> QED BY <2>2 DEF c
<1> QED BY <1>2, <1>8, <1>9, <1>10

LEMMA memcpyTakes ==
  ASSUME NEW d \in Nat, NEW s \in Nat, NEW n \in Nat, d + n <= Size
  PROVE  LET moves == memcpy(d, s, n) IN
         /\ moves \in Seq(Triples) /\ AllWithin(moves, d, s, n)
         /\ Targets(moves, Len(moves)) = Region(d, n)
<1>1. CASE n = 0
  <2>1. memcpy(d, s, n) = <<>> /\ Region(d, n) = {}
    BY <1>1, SizeNat DEF memcpy, Region, Address
  <2> QED BY <2>1 DEF AllWithin, Targets
<1>2. CASE n > 0 /\ n <= 16
  <2> DEFINE moves == EndMoves(d, s, n)
  <2>1. /\ moves \in Seq(Triples) /\ AllWithin(moves, d, s, n)
        /\ Targets(moves, Len(moves)) =
             {a \in Region(d, n) : a < d + ends(n) \/ a >= d + n - ends(n)}
    BY <1>2, EndMovesTake
  <2>3. memcpy(d, s, n) = moves
    BY <1>2, <2>1 DEF memcpy
  <2>2. {a \in Region(d, n) : a < d + ends(n) \/ a >= d + n - ends(n)} = Region(d, n)
    BY <1>2, EndsCover, SizeNat DEF Region, Address
  <2> HIDE DEF moves
  <2> QED BY <2>1, <2>2, <2>3
<1>3. CASE n > 16
  <2> DEFINE front == EndMoves(d, s, n)  up == Upwards(d, s, n)
  <2>1. memcpy(d, s, n) = front \o up
    BY <1>3 DEF memcpy
  <2>2. /\ front \in Seq(Triples) /\ AllWithin(front, d, s, n)
        /\ Targets(front, Len(front)) =
              {a \in Region(d, n) : a < d + ends(n) \/ a >= d + n - ends(n)}
    BY <1>3, EndMovesTake
  <2>3. /\ up \in Seq(Triples) /\ AllWithin(up, d, s, n)
        /\ {a \in Region(d, n) : a < d + n - 7} \subseteq Targets(up, Len(up))
        /\ Targets(up, Len(up)) \subseteq Region(d, n)
    BY <1>3, UpwardsTake
  <2> HIDE DEF front, up
  <2>4. /\ front \o up \in Seq(Triples) /\ AllWithin(front \o up, d, s, n)
        /\ Targets(front \o up, Len(front \o up)) = Targets(front, Len(front)) \cup Targets(up, Len(up))
    BY <2>2, <2>3, Joined
  <2>5. ends(n) = 8
    BY <1>3, EndsCover
  <2>6. \A a \in Region(d, n) : a < d + n - 7 \/ a >= d + n - 8
    BY SizeNat DEF Region, Address
  <2>7. Targets(front, Len(front)) \cup Targets(up, Len(up)) = Region(d, n)
    BY <2>2, <2>3, <2>5, <2>6
  <2> QED BY <2>1, <2>4, <2>7
<1> QED BY <1>1, <1>2, <1>3

LEMMA memcpyCopies ==
  ASSUME NEW d \in Nat, NEW s \in Nat, NEW n \in Nat, d + n <= Size, s + n <= Size,
         Disjoint(d, s, n)
  PROVE  Run(Distinct, memcpy(d, s, n)) =
           [a \in Address |-> IF a \in Region(d, n) THEN a - d + s ELSE a]
<1> DEFINE moves == memcpy(d, s, n)
<1>1. Len(moves) \in Nat /\ AllWithin(moves, d, s, n) /\ Targets(moves, Len(moves)) = Region(d, n)
  <2>1. moves \in Seq(Triples) /\ AllWithin(moves, d, s, n) /\ Targets(moves, Len(moves)) = Region(d, n)
    BY memcpyTakes
  <2> HIDE DEF moves
  <2> QED BY <2>1
<1> HIDE DEF moves
<1>2. Distinct = [a \in Address |-> Distinct[a]] /\ \A a \in Address : Distinct[a] = a
  BY DEF Distinct
<1>3. Run(Distinct, moves) = Taken(Distinct, d, s, Region(d, n))
  BY <1>1, <1>2, RunTakes
<1>4. \A a \in Region(d, n) : a - d + s \in Address
  BY SizeNat DEF Region, Address
<1>5. Taken(Distinct, d, s, Region(d, n)) =
        [a \in Address |-> IF a \in Region(d, n) THEN a - d + s ELSE a]
  BY <1>2, <1>4 DEF Taken
<1> QED BY <1>3, <1>5 DEF moves

(***************************************************************************)
(* memset and memcmp                                                       *)
(***************************************************************************)
LEMMA StoredAll ==
  ASSUME NEW d \in Nat, NEW n \in Nat, d + n <= Size
  PROVE  Stored(d, n) = Region(d, n)
<1>1. CASE n = 0
  BY <1>1, SizeNat DEF Stored, Region, Address
<1>2. CASE n > 0
  <2> DEFINE singles == {d + End(n, j) : j \in 1 .. 2 * ends(n)}
             rest == IF n <= 16 THEN {} ELSE d + Skip(d) .. d + Skip(d) + Word * Words(d, n) - 1
  <2>1. Stored(d, n) = singles \cup rest
    BY <1>2 DEF Stored
  <2>2. /\ ends(n) \in Nat /\ ends(n) <= n /\ (n > 16 => ends(n) = 8) /\ (n <= 16 => n <= 2 * ends(n))
        /\ {End(n, j) : j \in 1 .. 2 * ends(n)} = (0 .. ends(n) - 1) \cup (n - ends(n) .. n - 1)
    BY <1>2, EndsCover
  <2> DEFINE e == ends(n)  k == Skip(d)  w == 8 * Words(d, n)
  <2>3. \A a : a \in singles <=> \E x \in (0 .. e - 1) \cup (n - e .. n - 1) : a = d + x
    BY <2>2
  <2>4. (n <= 16 => rest = {}) /\ (n > 16 => rest = d + k .. d + k + w - 1)
    BY DEF Word
  <2>5. n > 16 => k \in 0 .. 7 /\ w \in Nat /\ k + w <= n /\ n < k + w + 8
    BY SkipFacts DEF Word
  <2> HIDE DEF singles, rest, e, k, w
  <2>6. e \in Nat /\ e <= n /\ (n > 16 => e = 8) /\ (n <= 16 => n <= 2 * e)
    BY <2>2 DEF e
  <2>7. singles \subseteq Region(d, n)
    BY <2>3, <2>6, SizeNat DEF Region, Address
  <2>8. rest \subseteq Region(d, n)
    <3>1. CASE n <= 16
      BY <2>4, <3>1
    <3>2. CASE n > 16
      <4>1. k \in Nat /\ w \in Nat /\ k + w <= n /\ rest = d + k .. d + k + w - 1
        BY <2>4, <2>5, <3>2
      <4> QED BY <4>1, SizeNat DEF Region, Address
    <3> QED BY <3>1, <3>2
  <2>9. ASSUME NEW a \in Region(d, n), a \notin singles PROVE a \in rest
    <3>1. a \in Int /\ a - d \in 0 .. n - 1 /\ a = d + (a - d)
      BY SizeNat DEF Region, Address
    <3>2. a - d \notin 0 .. e - 1 /\ a - d \notin n - e .. n - 1
      BY <2>3, <2>9, <3>1
    <3> DEFINE x == a - d
    <3>3. x \in 0 .. n - 1 /\ x \notin 0 .. e - 1 /\ x \notin n - e .. n - 1 /\ a = d + x
      BY <3>1, <3>2
    <3> HIDE DEF x
    <3>4. n > 16 /\ e = 8 /\ x >= 8 /\ x < n - 8
      BY <2>6, <3>3
    <3>5. k \in 0 .. 7 /\ w \in Nat /\ n < k + w + 8 /\ rest = d + k .. d + k + w - 1
      BY <2>4, <2>5, <3>4
    <3>6. d + x \in d + k .. d + k + w - 1
      BY <3>3, <3>4, <3>5
    <3> QED BY <3>3, <3>5, <3>6
  <2> QED BY <2>1, <2>7, <2>8, <2>9
<1> QED BY <1>1, <1>2

\* Where the operands agree no word differs.
LEMMA NoneDiffers ==
  ASSUME NEW m, NEW p, NEW q, NEW count \in Nat, \A i \in 0 .. count - 1 : SameWord(m, p, q, i)
  PROVE  FirstDiffering(m, p, q, count) = count
<1> DEFINE Is(i) == /\ i = count \/ ~SameWord(m, p, q, i)
                    /\ \A j \in 0 .. i - 1 : SameWord(m, p, q, j)
<1>1. Is(count) /\ count \in 0 .. count /\ \A i \in 0 .. count : Is(i) => i = count
  OBVIOUS
<1>2. FirstDiffering(m, p, q, count) = CHOOSE i \in 0 .. count : Is(i)
  BY DEF FirstDiffering
<1> HIDE DEF Is
<1> QED BY <1>1, <1>2

LEMMA AgreeingCompare ==
  ASSUME NEW m, NEW p \in Nat, NEW q \in Nat, NEW n \in Nat,
         \A i \in 0 .. n - 1 : m[p + i] = m[q + i]
  PROVE  memcmp(m, p, q, n) = 0
<1> DEFINE total == n \div Word
           fours == 4 * (total \div 4)
           left == WordsLeft(m, p, q, total)
           adv == Advanced(m, p, q, total)
<1>0. total \in Nat /\ 8 * total + (n % 8) = n /\ (n % 8) \in 0 .. 7
  <2>1. n \div 8 \in Nat /\ 8 * (n \div 8) + (n % 8) = n /\ (n % 8) \in 0 .. 7
    OBVIOUS
  <2> QED BY <2>1 DEF Word
<1>1. fours \in Nat /\ fours <= total /\ total - fours < 4 /\ 4 * (fours \div 4) = fours
  <2> HIDE DEF total
  <2> QED BY <1>0
<1>2. ASSUME NEW i \in 0 .. total - 1 PROVE SameWord(m, p, q, i)
  <2> SUFFICES ASSUME NEW b \in 0 .. Word - 1
               PROVE  m[p + Word * i + b] = m[q + Word * i + b]
    BY DEF SameWord
  <2> HIDE DEF total
  <2> DEFINE x == 8 * i + b
  <2> DEFINE r == (n % 8)
  <2> HIDE DEF r
  <2>1. total \in Nat /\ r \in Nat /\ 8 * total + r = n
    BY <1>0 DEF r
  <2>2. x \in 0 .. n - 1 /\ p + 8 * i + b = p + x /\ q + 8 * i + b = q + x
    BY <2>1 DEF Word
  <2> HIDE DEF x
  <2> QED BY <2>2 DEF Word
<1> HIDE DEF total, fours
<1>3. FirstDiffering(m, p, q, fours) = fours
  BY <1>0, <1>1, <1>2, NoneDiffers
<1>4. left = total - fours /\ left \in 0 .. 3 /\ left <= total
  BY <1>0, <1>1, <1>3 DEF WordsLeft, fours
<1>5. FirstDiffering(m, p, q, left) = left
  <2> HIDE DEF left
  <2> QED BY <1>0, <1>2, <1>4, NoneDiffers
<1>6. adv = left
  BY <1>4, <1>5 DEF Advanced
<1> HIDE DEF left, adv
<1> DEFINE at == 8 * adv
<1>7. at \in Nat /\ at + (n % 8) <= n
  BY <1>0, <1>4, <1>6
<1>8. \A i \in 0 .. (n % 8) - 1 : m[p + at + i] = m[q + at + i]
  <2> SUFFICES ASSUME NEW i \in 0 .. (n % 8) - 1 PROVE m[p + at + i] = m[q + at + i]
    OBVIOUS
  <2> HIDE DEF at
  <2> DEFINE x == at + i  r == (n % 8)
  <2> HIDE DEF r
  <2>0. at \in Nat /\ at + r <= n /\ r \in Nat /\ i \in 0 .. r - 1
    BY <1>0, <1>7 DEF r
  <2>1. x \in 0 .. n - 1 /\ p + at + i = p + x /\ q + at + i = q + x
    BY <2>0
  <2> HIDE DEF x
  <2> QED BY <2>1
<1>9. CompareBytes(m, p + at, q + at, n % 8) = 0
  <2> HIDE DEF at
  <2> QED BY <1>8 DEF CompareBytes
<1> QED BY <1>9 DEF memcmp, Word, adv, total, at

LEMMA ShortCompare ==
  ASSUME NEW m, NEW p \in Nat, NEW q \in Nat, NEW n \in Nat, n < Word, p # q
  PROVE  memcmp(m, p, q, n) = CompareBytes(m, p, q, n)
<1>1. n \div Word = 0 /\ n % Word = n
  BY DEF Word
<1>2. FirstDiffering(m, p, q, 0) = 0
  BY NoneDiffers
<1>3. WordsLeft(m, p, q, 0) = 0
  <2>1. 4 * (0 \div 4) = 0
    OBVIOUS
  <2> QED BY <1>2, <2>1 DEF WordsLeft
<1>4. Advanced(m, p, q, 0) = 0
  BY <1>2, <1>3 DEF Advanced
<1>5. p + Word * 0 = p /\ q + Word * 0 = q
  BY DEF Word
<1> QED BY <1>1, <1>4, <1>5 DEF memcmp

\* The n bytes at q are those at p, but for by at the offsets that differ.
Differing(m, p, q, n, differ, by) ==
  \A i \in 0 .. n - 1 :
    m[p + i] \in Int /\ m[q + i] = m[p + i] + (IF i \in differ THEN by ELSE 0)

\* The first difference decides.
LEMMA FirstDecides ==
  ASSUME NEW m, NEW p \in Nat, NEW q \in Nat, NEW n \in Nat,
         NEW differ, differ # {}, differ \subseteq 0 .. n - 1, NEW by \in Int, by # 0,
         Differing(m, p, q, n, differ, by)
  PROVE  CompareBytes(m, p, q, n) = -by
<1> DEFINE differs == {i \in 0 .. n - 1 : m[p + i] # m[q + i]}
           first == CHOOSE i \in differs : \A j \in differs : i <= j
<1>1. differs = differ
  <2>1. ASSUME NEW i \in 0 .. n - 1 PROVE m[p + i] # m[q + i] <=> i \in differ
    BY DEF Differing
  <2> QED BY <2>1
<1>2. first \in differs
  <2>1. differs \in SUBSET Nat /\ differs # {}
    BY <1>1
  <2> HIDE DEF differs
  <2>2. \E x \in differs : \A y \in differs : x <= y
    BY <2>1, Least
  <2> QED BY <2>2
<1>3. CompareBytes(m, p, q, n) = m[p + first] - m[q + first]
  BY <1>2 DEF CompareBytes
<1>4. first \in differ /\ first \in 0 .. n - 1
  BY <1>1, <1>2
<1> HIDE DEF first
<1>5. m[p + first] \in Int /\ m[q + first] = m[p + first] + by
  BY <1>4 DEF Differing
<1>6. \A x \in Int : x - (x + by) = -by
  OBVIOUS
<1> QED BY <1>3, <1>5, <1>6

LEMMA memcmpOrders ==
  ASSUME NEW k \in Comparisons, k.n < Word \/ k.differ = {} \/ k.p1 = k.p2,
         mem = Distinct, CallMemcmp(k)
  PROVE  MemcmpOrders'
<1> DEFINE p == k.p1  q == k.p2  n == k.n  differ == k.differ  by == k.by
<1>1. /\ p \in Nat /\ q \in Nat /\ n \in Nat /\ differ \subseteq 0 .. n - 1 /\ by \in {-1, 1}
      /\ p + n <= Size /\ q + n <= Size /\ (p = q \/ Disjoint(p, q, n))
  BY CallsAssumption DEF CallsAssumption
<1>2. ret' = memcmp(mem', p, q, n) /\ call' = [f |-> "memcmp", k |-> k]
  BY DEF CallMemcmp
<1>3. MemcmpOrders' <=> Sign(ret') = IF differ = {} \/ p = q THEN 0 ELSE -by
  BY <1>2 DEF MemcmpOrders
<1>4. CASE p = q
  <2>1. ret' = 0
    BY <1>2, <1>4 DEF memcmp
  <2> QED BY <1>3, <1>4, <2>1 DEF Sign
<1>5. CASE p # q
  <2>1. ASSUME NEW i \in 0 .. n - 1
        PROVE  /\ mem'[p + i] = p + i
               /\ mem'[q + i] = p + i + (IF i \in differ THEN by ELSE 0)
    <3> HIDE DEF p, q, n, differ, by
    <3>1. /\ p + i \in Region(p, n) /\ q + i \in Region(q, n) /\ p + i \in Address /\ q + i \in Address
          /\ (q + i) - q + p = p + i /\ (q + i) - q = i
      BY <1>1, SizeNat DEF Region, Address
    <3>2. p + i \notin Region(q, n)
      BY <1>1, <1>5, <3>1 DEF Disjoint
    <3>3. mem' = [a \in Address |->
            IF a \in Region(q, n)
            THEN mem[a - q + p] + (IF a - q \in differ THEN by ELSE 0)
            ELSE mem[a]]
      BY DEF CallMemcmp, p, q, n, differ, by
    <3>4. mem[p + i] = p + i
      BY <3>1 DEF Distinct
    <3>5. mem'[p + i] = p + i
      BY <3>1, <3>2, <3>3, <3>4
    <3>6. mem'[q + i] = mem[(q + i) - q + p] + (IF (q + i) - q \in differ THEN by ELSE 0)
      BY <3>1, <3>3
    <3> QED BY <3>1, <3>4, <3>5, <3>6
  <2>2. CASE differ = {}
    <3> HIDE DEF p, q, n, differ, by
    <3>1. \A i \in 0 .. n - 1 : mem'[p + i] = mem'[q + i]
      BY <1>1, <2>1, <2>2
    <3>2. ret' = 0
      BY <1>1, <1>2, <3>1, AgreeingCompare
    <3> QED BY <1>3, <2>2, <3>2 DEF Sign
  <2>3. CASE differ # {}
    <3> HIDE DEF p, q, n, differ, by
    <3>0. n < Word
      BY <1>5, <2>3 DEF p, q, n, differ
    <3>1. ret' = CompareBytes(mem', p, q, n)
      BY <1>1, <1>2, <1>5, <3>0, ShortCompare
    <3>2. \A i \in 0 .. n - 1 :
            mem'[p + i] \in Int /\ mem'[q + i] = mem'[p + i] + (IF i \in differ THEN by ELSE 0)
      BY <1>1, <2>1
    <3>3. ret' = -by
      <4> DEFINE m == mem'
      <4>1. /\ ret' = CompareBytes(m, p, q, n) /\ by \in Int /\ by # 0
            /\ Differing(m, p, q, n, differ, by)
        BY <1>1, <3>1, <3>2 DEF Differing
      <4> HIDE DEF m
      <4>2. p \in Nat /\ q \in Nat /\ n \in Nat /\ differ # {} /\ differ \subseteq 0 .. n - 1
        BY <1>1, <2>3
      <4> QED BY <4>1, <4>2, FirstDecides
    <3>4. Sign(-by) = -by
      BY <1>1 DEF Sign
    <3> QED BY <1>3, <1>5, <2>3, <3>3, <3>4
  <2> QED BY <2>2, <2>3
<1> QED BY <1>4, <1>5

(***************************************************************************)
(* The theorem                                                             *)
(***************************************************************************)

\* memmove's regions are the same or apart, and memcmp finds no difference in
\* eight bytes or more: TLC's counterexamples of run kmem_c are the others.
Fenced ==
  /\ \A k \in Moves : k.dest = k.src \/ Disjoint(k.dest, k.src, k.n)
  /\ \A k \in Comparisons : k.n < Word \/ k.differ = {} \/ k.p1 = k.p2

Inv == (call = None => mem = Distinct) /\ MandatedByC

LEMMA CopiedAfter ==
  ASSUME NEW k \in Copies \cup Moves, Disjoint(k.dest, k.src, k.n),
         mem = Distinct, mem' = Run(mem, memcpy(k.dest, k.src, k.n))
  PROVE  Copied(k)'
<1>1. k.dest \in Nat /\ k.src \in Nat /\ k.n \in Nat /\ k.dest + k.n <= Size /\ k.src + k.n <= Size
  BY CallsAssumption DEF CallsAssumption
<1> QED BY <1>1, memcpyCopies DEF Copied

LEMMA SelfMove ==
  ASSUME NEW k \in Moves, k.n = 0 \/ k.dest = k.src, mem = Distinct, mem' = Run(mem, <<>>)
  PROVE  Copied(k)'
<1>1. k.dest \in Nat /\ k.src \in Nat /\ k.n \in Nat
  BY CallsAssumption DEF CallsAssumption
<1>2. mem' = Distinct
  <2> DEFINE Rec(f) == [i \in 0 .. 0 |-> IF i = 0 THEN mem ELSE Moved(f[i - 1], <<>>[i])]
             after == CHOOSE f : f = Rec(f)
             one == [i \in 0 .. 0 |-> mem]
  <2>1. one = Rec(one)
    OBVIOUS
  <2> HIDE DEF one
  <2>2. after = Rec(after)
    BY <2>1
  <2> HIDE DEF after
  <2>3. after[0] = mem
    BY <2>2
  <2>4. Run(mem, <<>>) = after[0]
    BY DEF Run, after
  <2> QED BY <2>3, <2>4
<1>3. ASSUME NEW a \in Address, a \in Region(k.dest, k.n) PROVE a - k.dest + k.src = a
  BY <1>1, <1>3, SizeNat DEF Region, Address
<1> QED BY <1>2, <1>3 DEF Copied, Distinct

\* Each routine does what C mandates, for every call the fence admits: every
\* length, every alignment of the destination, at every distance.
THEOREM KMemMandatedByC == Fenced /\ Spec => []MandatedByC
<1> SUFFICES ASSUME Fenced PROVE Spec => []MandatedByC
  OBVIOUS
<1>1. Init => Inv
  BY DEF Init, Inv, MandatedByC, MemcpyCopies, MemmoveMoves, MemsetFills, MemcmpOrders, None
<1>2. ASSUME Inv, [Next]_vars PROVE Inv'
  <2>1. ASSUME NEW k \in Copies, call = None, CallMemcpy(k) PROVE Inv'
    <3>1. call' = [f |-> "memcpy", k |-> k] /\ call' # None
      BY <2>1 DEF CallMemcpy, None
    <3>2. Copied(k)'
      BY <1>2, <2>1, CopiedAfter, CallsAssumption DEF Inv, CallMemcpy, CallsAssumption
    <3> QED BY <3>1, <3>2 DEF Inv, MandatedByC, MemcpyCopies, MemmoveMoves, MemsetFills, MemcmpOrders
  <2>2. ASSUME NEW k \in Moves, call = None, CallMemmove(k) PROVE Inv'
    <3>1. call' = [f |-> "memmove", k |-> k] /\ call' # None
      BY <2>2 DEF CallMemmove, None
    <3>2. mem = Distinct /\ mem' = Run(mem, memmove(k.dest, k.src, k.n))
      BY <1>2, <2>2 DEF Inv, CallMemmove
    <3>3. CASE k.n = 0 \/ k.dest = k.src
      <4>1. memmove(k.dest, k.src, k.n) = <<>>
        BY <3>3 DEF memmove
      <4>2. Copied(k)'
        BY <3>2, <3>3, <4>1, SelfMove
      <4> QED BY <3>1, <4>2 DEF Inv, MandatedByC, MemcpyCopies, MemmoveMoves, MemsetFills, MemcmpOrders
    <3>4. CASE k.n # 0 /\ k.dest # k.src
      <4>1. Disjoint(k.dest, k.src, k.n)
        BY <3>4 DEF Fenced
      <4>2. /\ k.dest \in Nat /\ k.src \in Nat /\ k.n \in Nat
            /\ k.dest + k.n <= Size /\ k.src + k.n <= Size
        BY CallsAssumption DEF CallsAssumption
      <4>3. k.dest < k.src \/ k.dest >= k.src + k.n
        <5> SUFFICES ASSUME k.dest >= k.src, k.dest < k.src + k.n PROVE FALSE
          BY <4>2
        <5>1. k.dest \in Region(k.dest, k.n) \cap Region(k.src, k.n)
          BY <3>4, <4>2, SizeNat DEF Region, Address
        <5> QED BY <4>1, <5>1 DEF Disjoint
      <4>4. memmove(k.dest, k.src, k.n) = memcpy(k.dest, k.src, k.n)
        BY <3>4, <4>3 DEF memmove
      <4>5. Copied(k)'
        BY <3>2, <4>1, <4>4, CopiedAfter
      <4> QED BY <3>1, <4>5 DEF Inv, MandatedByC, MemcpyCopies, MemmoveMoves, MemsetFills, MemcmpOrders
    <3> QED BY <3>3, <3>4
  <2>3. ASSUME NEW k \in Sets, call = None, CallMemset(k) PROVE Inv'
    <3>1. call' = [f |-> "memset", k |-> k] /\ call' # None
      BY <2>3 DEF CallMemset, None
    <3>2. k.dest \in Nat /\ k.n \in Nat /\ k.dest + k.n <= Size
      BY CallsAssumption DEF CallsAssumption
    <3>3. mem' = [a \in Address |-> IF a \in Region(k.dest, k.n) THEN k.c % 256 ELSE a]
      BY <1>2, <2>3, <3>2, StoredAll DEF Inv, CallMemset, memset, Distinct
    <3> QED BY <3>1, <3>3 DEF Inv, MandatedByC, MemcpyCopies, MemmoveMoves, MemsetFills, MemcmpOrders
  <2>4. ASSUME NEW k \in Comparisons, call = None, CallMemcmp(k) PROVE Inv'
    <3>1. call' = [f |-> "memcmp", k |-> k] /\ call' # None
      BY <2>4 DEF CallMemcmp, None
    <3>2. MemcmpOrders'
      BY <1>2, <2>4, memcmpOrders DEF Inv, Fenced
    <3> QED BY <3>1, <3>2 DEF Inv, MandatedByC, MemcpyCopies, MemmoveMoves, MemsetFills
  <2>5. ASSUME Again PROVE Inv'
    BY <2>5 DEF Again, Inv, MandatedByC, MemcpyCopies, MemmoveMoves, MemsetFills, MemcmpOrders, None
  <2>6. ASSUME UNCHANGED vars PROVE Inv'
    BY <1>2, <2>6 DEF vars, Inv, MandatedByC, MemcpyCopies, MemmoveMoves, MemsetFills, MemcmpOrders,
       Copied
  <2> QED BY <1>2, <2>1, <2>2, <2>3, <2>4, <2>5, <2>6 DEF Next, Call
<1>3. Inv => MandatedByC
  BY DEF Inv
<1> QED BY <1>1, <1>2, <1>3, PTL DEF Spec
====
