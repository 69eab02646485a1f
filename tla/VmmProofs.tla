---- MODULE VmmProofs ----
(***************************************************************************)
(* Proofs about Vmm for every machine the bootloader may report, tables of *)
(* any size and any number of free frames: the tables are a tree, and what *)
(* the processor makes of them is what was asked for, page by page.        *)
(***************************************************************************)
EXTENDS Vmm, FiniteSetTheorems, TLAPS

(***************************************************************************)
(* Virtual addresses. A table one level above the pages covers E of them,  *)
(* and so on: Prefix(k, v) numbers the entry of level k that page v is     *)
(* found through, over all tables of that level.                           *)
(***************************************************************************)
Slot(x, i) == x * E + i
Prefix(k, v) ==
  IF k = 1 THEN v ELSE IF k = 2 THEN v \div E
  ELSE IF k = 3 THEN v \div (E * E) ELSE v \div (E * E * E)
IndexOf(k, v) == Prefix(k, v) % E

LEMMA SlotFacts ==
  ASSUME NEW x \in Nat, NEW i \in Index
  PROVE  /\ Slot(x, i) \in Nat /\ Slot(x, i) \div E = x /\ Slot(x, i) % E = i
         /\ \A y \in Nat, j \in Index : Slot(x, i) = Slot(y, j) => x = y /\ i = j
<1>1. E \in Nat /\ E > 0 /\ i \in Nat /\ i < E
  BY VmmAssumption DEF Index
<1>2. \A y \in Nat, j \in Index : (y * E + j) \div E = y /\ (y * E + j) % E = j
  <2> SUFFICES ASSUME NEW y \in Nat, NEW j \in Index
               PROVE  (y * E + j) \div E = y /\ (y * E + j) % E = j
    OBVIOUS
  <2>1. j \in Nat /\ j < E
    BY <1>1 DEF Index
  <2>2. y * E \in Nat
    BY <1>1
  <2> QED BY <1>1, <2>1, <2>2
<1>3. x * E \in Nat
  BY <1>1
<1> QED BY <1>1, <1>2, <1>3 DEF Slot

LEMMA DivTwice ==
  ASSUME NEW a \in Nat, NEW d \in Nat \ {0}
  PROVE  /\ a \div d \in Nat
         /\ a \div (d * E) = (a \div d) \div E
<1>1. E \in Nat \ {0}
  BY VmmAssumption
<1> DEFINE q == a \div d  r == a % d  p == q \div E  s == q % E
<1>2. q \in Nat /\ r \in 0 .. d - 1 /\ a = d * q + r
  OBVIOUS
<1> HIDE DEF q, r
<1>3. p \in Nat /\ s \in 0 .. E - 1 /\ q = E * p + s
  BY <1>1, <1>2
<1> HIDE DEF p, s
<1>4. d * E \in Nat \ {0}
  BY <1>1
<1>5. d * q = (d * E) * p + d * s
  BY <1>1, <1>3
<1>6. d * s + r \in 0 .. (d * E) - 1
  <2>1. d * s <= d * (E - 1)
    BY <1>1, <1>3
  <2>2. d * (E - 1) = d * E - d
    BY <1>1
  <2>3. d * s \in Nat
    BY <1>3
  <2> QED BY <1>2, <1>4, <2>1, <2>2, <2>3
<1>7. a = (d * E) * p + (d * s + r)
  BY <1>1, <1>2, <1>3, <1>4, <1>5, <1>6
<1>8. a \div (d * E) = p
  <2> DEFINE D == d * E  t == d * s + r
  <2>1. D \in Nat \ {0} /\ t \in 0 .. D - 1 /\ a = D * p + t
    BY <1>4, <1>6, <1>7
  <2> HIDE DEF D, t
  <2>2. a \div D = p
    BY <1>3, <2>1
  <2> QED BY <2>2 DEF D
<1> QED BY <1>2, <1>8 DEF q, p

LEMMA PrefixFacts ==
  ASSUME NEW v \in Pages
  PROVE  /\ \A k \in 1 .. 4 : Prefix(k, v) \in Nat /\ IndexOf(k, v) \in Index
         /\ \A k \in 1 .. 3 : /\ Prefix(k + 1, v) = Prefix(k, v) \div E
                              /\ Slot(Prefix(k + 1, v), IndexOf(k, v)) = Prefix(k, v)
         /\ Slot(0, IndexOf(4, v)) = Prefix(4, v)
<1>1. E \in Nat \ {0} /\ E * E \in Nat \ {0} /\ E * E * E \in Nat \ {0}
  <2>1. \A x, y \in Nat \ {0} : x * y \in Nat \ {0}
    OBVIOUS
  <2>2. E \in Nat \ {0}
    BY VmmAssumption
  <2> QED BY <2>1, <2>2
<1>2. v \in Nat /\ v < E * E * E * E
  BY <1>1 DEF Pages
<1>3. /\ v \div E \in Nat /\ v \div (E * E) \in Nat /\ v \div (E * E * E) \in Nat
      /\ v \div (E * E) = (v \div E) \div E
      /\ v \div (E * E * E) = (v \div (E * E)) \div E
  BY <1>1, <1>2, DivTwice
<1>4. v \div (E * E * E) < E
  <2> DEFINE D == E * E * E
  <2>1. D \in Nat \ {0} /\ v < D * E
    BY <1>1, <1>2
  <2> HIDE DEF D
  <2>2. v \div D < E
    BY <1>1, <1>2, <2>1
  <2> QED BY <2>2 DEF D
<1>5. \A n \in Nat : n % E \in Index /\ Slot(n \div E, n % E) = n
  BY <1>1 DEF Index, Slot
<1>6. \A k \in 1 .. 4 : Prefix(k, v) \in Nat /\ IndexOf(k, v) \in Index
  BY <1>2, <1>3, <1>5 DEF Prefix, IndexOf
<1>7. \A k \in 1 .. 3 : Prefix(k + 1, v) = Prefix(k, v) \div E
  BY <1>3 DEF Prefix
<1>8. \A k \in 1 .. 3 : Slot(Prefix(k + 1, v), IndexOf(k, v)) = Prefix(k, v)
  BY <1>5, <1>6, <1>7 DEF IndexOf
<1>9. Slot(0, IndexOf(4, v)) = Prefix(4, v)
  <2>1. Prefix(4, v) \in Nat /\ Prefix(4, v) < E
    BY <1>3, <1>4 DEF Prefix
  <2> QED BY <1>1, <2>1 DEF Slot, IndexOf
<1> QED BY <1>6, <1>7, <1>8, <1>9

\* The indices vmm_map_page computes.
LEMMA IndexFacts ==
  ASSUME NEW v
  PROVE  /\ PT_INDEX(v) = IndexOf(1, v) /\ PD_INDEX(v) = IndexOf(2, v)
         /\ PDPT_INDEX(v) = IndexOf(3, v) /\ PML4_INDEX(v) = IndexOf(4, v)
BY DEF PT_INDEX, PD_INDEX, PDPT_INDEX, PML4_INDEX, IndexOf, Prefix

\* Two pages found through the same entry are found through the same table.
LEMMA SamePath ==
  ASSUME NEW v \in Pages, NEW u \in Pages, NEW k \in 1 .. 3, Prefix(k, v) = Prefix(k, u)
  PROVE  Prefix(k + 1, v) = Prefix(k + 1, u)
BY PrefixFacts

\* pmm_alloc_page finds a page when there is one.
LEMMA LowestFree ==
  ASSUME NEW S \in SUBSET Frames, S # {}
  PROVE  (CHOOSE f \in S : \A g \in S : f <= g) \in S
<1>1. S \in SUBSET Nat
  BY VmmAssumption
<1>2. PICK f \in S : \A g \in S : <<g, f>> \notin OpToRel(<, Nat)
  BY <1>1, NatLessThanWellFounded, WFMin
<1>3. \A g \in S : ~(g < f)
  BY <1>1, <1>2 DEF OpToRel
<1>4. \A g \in S : f <= g
  BY <1>1, <1>3
<1> QED BY <1>4

(***************************************************************************)
(* The tree                                                                *)
(***************************************************************************)
Zero == [j \in Index |-> Empty]
Memories ==
  [Frames -> [Index ->
     [frame : Frames, flags : SUBSET {"P", "W", "U", "NX", "CD", "PS"}] \cup {Junk}]]
Walks == [mem : Memories, free : SUBSET Frames, tables : SUBSET Frames, at : Frames \cup {NULL}]

TableFlags == {{"P", "W"}, {"P", "W", "U"}}
IsLeaf(e, level) == Present(e) /\ (level = 1 \/ "PS" \in e.flags)

\* What an entry that is no table's name says of page v.
Says(e, level, v) ==
  [frame |-> IF level = 1 THEN e.frame ELSE e.frame + IndexOf(1, v),
   flags |-> e.flags \ {"P", "PS"}]

\* An entry e of a table of this level, where y is its number among those of the
\* level, big the large pages there may be, and a what was asked of each page.
EntryGood(e, level, y, T, lvl, key, a, big) ==
  /\ EntryOK(e)
  /\ ~Present(e) => \A v \in Pages : Prefix(level, v) = y => a[v] = NULL
  /\ NamesTable(e) /\ level # 1 =>
       /\ e.frame \in T /\ lvl[e.frame] = level - 1 /\ key[e.frame] = y
       /\ e.flags \in TableFlags
       /\ level = 2 => y \notin big
  /\ Present(e) /\ "PS" \in e.flags => level = 2 /\ y \in big /\ e.frame % E = 0
  /\ IsLeaf(e, level) =>
       /\ "U" \notin e.flags
       /\ \A v \in Pages : Prefix(level, v) = y => a[v] = Says(e, level, v)

\* The frames T are a tree of tables with root r: the level of each and its
\* number among those of its level.
Named(m, T, lvl, t) ==
  \E p \in T, i \in Index : lvl[p] # 1 /\ NamesTable(m[p][i]) /\ m[p][i].frame = t
Tree(m, T, lvl, key, a, r, big) ==
  /\ m \in Memories /\ T \in SUBSET Frames /\ r \in T
  /\ lvl \in [T -> 1 .. 4] /\ key \in [T -> Nat] /\ lvl[r] = 4 /\ key[r] = 0
  /\ \A s, t \in T : lvl[s] = lvl[t] /\ key[s] = key[t] => s = t
  /\ \A t \in T, i \in Index :
       EntryGood(m[t][i], lvl[t], Slot(key[t], i), T, lvl, key, a, big)
  /\ \A t \in T \ {r} : Named(m, T, lvl, t)
Good(m, T, a, r, big) ==
  \E lvl \in [T -> 1 .. 4], key \in [T -> Nat] : Tree(m, T, lvl, key, a, r, big)

\* Table t is the one of level k with number x.
TableAt(m, T, a, r, big, t, k, x) ==
  \E lvl \in [T -> 1 .. 4], key \in [T -> Nat] :
    Tree(m, T, lvl, key, a, r, big) /\ lvl[t] = k /\ key[t] = x

\* A walk that has got to that table, or nowhere, where the tables lost are no
\* longer in the tree.
Reached(w, k, x, a, r, big, lost) ==
  /\ w \in Walks /\ w.free \cap w.tables = {} /\ lost \subseteq w.tables
  /\ w.at \in w.tables \ lost
  /\ TableAt(w.mem, w.tables \ lost, a, r, big, w.at, k, x)
Stopped(w, a, r, big, lost) ==
  /\ w \in Walks /\ w.free \cap w.tables = {} /\ lost \subseteq w.tables
  /\ w.at = NULL /\ Good(w.mem, w.tables \ lost, a, r, big)
\* Tables come from the free frames, and no other frame is written.
Takes(w, d) ==
  /\ d.free \subseteq w.free /\ w.tables \subseteq d.tables
  /\ d.tables \subseteq w.tables \cup w.free
  /\ \A f \in Frames \ d.tables, i \in Index : d.mem[f][i] = w.mem[f][i]

LEMMA EmptyFacts ==
  /\ EntryOK(Empty) /\ ~Present(Empty)
  /\ Zero \in [Index -> [frame : Frames, flags : SUBSET {"P", "W", "U", "NX", "CD", "PS"}]]
  /\ \A j \in Index : Zero[j] = Empty
  /\ \A f \in Frames, flags \in SUBSET {"P", "W", "U", "NX", "CD", "PS"} :
       /\ Entry(f, flags) \in [frame : Frames, flags : SUBSET {"P", "W", "U", "NX", "CD", "PS"}]
       /\ Entry(f, flags).frame = f /\ Entry(f, flags).flags = flags
       /\ EntryOK(Entry(f, flags))
BY VmmAssumption DEF EntryOK, Empty, Entry, Present, Zero

\* An entry written, and a frame cleared.
Put(m, t, i, e) == [m EXCEPT ![t][i] = e]
Wipe(m, f) == [m EXCEPT ![f] = Zero]

LEMMA Written ==
  ASSUME NEW m \in Memories, NEW t \in Frames, NEW i \in Index,
         NEW e \in [frame : Frames, flags : SUBSET {"P", "W", "U", "NX", "CD", "PS"}]
  PROVE  /\ Put(m, t, i, e) \in Memories /\ Put(m, t, i, e)[t][i] = e
         /\ \A f \in Frames, j \in Index : f # t \/ j # i => Put(m, t, i, e)[f][j] = m[f][j]
BY DEF Memories, Put

LEMMA Cleared ==
  ASSUME NEW m \in Memories, NEW t \in Frames, NEW i \in Index, NEW f \in Frames, f # t,
         NEW e \in [frame : Frames, flags : SUBSET {"P", "W", "U", "NX", "CD", "PS"}]
  PROVE  LET n == Put(Wipe(m, f), t, i, e) IN
         /\ n \in Memories /\ n[t][i] = e /\ \A j \in Index : n[f][j] = Empty
         /\ \A g \in Frames \ {f}, j \in Index : g # t \/ j # i => n[g][j] = m[g][j]
<1> DEFINE c == Wipe(m, f)  n == Put(c, t, i, e)
<1>1. c \in Memories /\ c[f] = Zero /\ \A g \in Frames \ {f} : c[g] = m[g]
  BY EmptyFacts DEF Memories, Wipe
<1> HIDE DEF c
<1>2. /\ n \in Memories /\ n[t][i] = e
      /\ \A g \in Frames, j \in Index : g # t \/ j # i => n[g][j] = c[g][j]
  BY <1>1, Written
<1> HIDE DEF n
<1>3. \A j \in Index : n[f][j] = Empty
  BY <1>1, <1>2, EmptyFacts
<1>4. ASSUME NEW g \in Frames \ {f}, NEW j \in Index, g # t \/ j # i PROVE n[g][j] = m[g][j]
  BY <1>1, <1>2, <1>4
<1> QED BY <1>2, <1>3, <1>4 DEF c, n

\* Who else could be the table of the entry a new one is made for.
LEMMA NoSuchTable ==
  ASSUME NEW m, NEW T, NEW lvl, NEW key, NEW a, NEW r, NEW big,
         Tree(m, T, lvl, key, a, r, big),
         NEW t \in T, NEW i \in Index, ~Present(m[t][i]),
         NEW s \in T, lvl[s] = lvl[t] - 1, key[s] = Slot(key[t], i)
  PROVE  FALSE
<1>1. s # r
  BY DEF Tree
<1>2. PICK p \in T, j \in Index : lvl[p] # 1 /\ NamesTable(m[p][j]) /\ m[p][j].frame = s
  BY <1>1 DEF Tree, Named
<1>3. lvl[s] = lvl[p] - 1 /\ key[s] = Slot(key[p], j)
  BY <1>2 DEF Tree, EntryGood
<1>4. lvl[p] = lvl[t] /\ Slot(key[p], j) = Slot(key[t], i)
  BY <1>3 DEF Tree
<1>5. key[p] = key[t] /\ j = i
  BY <1>4, SlotFacts DEF Tree
<1>6. p = t
  BY <1>4, <1>5 DEF Tree
<1> QED BY <1>2, <1>5, <1>6 DEF NamesTable

\* Memory n is m with the empty table f named by entry i of t.
Linked(m, n, t, i, f, flags) ==
  /\ n[t][i] = Entry(f, flags) /\ \A j \in Index : n[f][j] = Empty
  /\ \A g \in Frames \ {f}, j \in Index : g # t \/ j # i => n[g][j] = m[g][j]

\* A table made for an entry that named none changes nothing that is asked.
LEMMA TableAdded ==
  ASSUME NEW m, NEW T, NEW a, NEW r, NEW big, NEW t \in T, NEW k \in 2 .. 4, NEW num \in Nat,
         TableAt(m, T, a, r, big, t, k, num),
         NEW i \in Index, ~Present(m[t][i]), k = 2 => Slot(num, i) \notin big,
         NEW f \in Frames \ T, NEW flags \in TableFlags, NEW n \in Memories,
         Linked(m, n, t, i, f, flags)
  PROVE  TableAt(n, T \cup {f}, a, r, big, f, k - 1, Slot(num, i))
<1>named. PICK lvl \in [T -> 1 .. 4], key \in [T -> Nat] :
        Tree(m, T, lvl, key, a, r, big) /\ lvl[t] = k /\ key[t] = num
  BY DEF TableAt
<1>linked. /\ n[t][i] = Entry(f, flags) /\ \A j \in Index : n[f][j] = Empty
       /\ \A g \in Frames \ {f}, j \in Index : g # t \/ j # i => n[g][j] = m[g][j]
  BY DEF Linked
<1> DEFINE U == T \cup {f}  y == Slot(key[t], i)
           lvl2 == [x \in U |-> IF x = f THEN lvl[t] - 1 ELSE lvl[x]]
           key2 == [x \in U |-> IF x = f THEN y ELSE key[x]]
<1>1. /\ T \in SUBSET Frames /\ r \in T /\ lvl \in [T -> 1 .. 4] /\ key \in [T -> Nat]
      /\ lvl[r] = 4 /\ key[r] = 0 /\ f \notin T /\ t \in Frames
  BY <1>named DEF Tree
<1>level. lvl[t] # 1 /\ (lvl[t] = 2 => Slot(key[t], i) \notin big)
  BY <1>named
<1>2. y \in Nat
  BY <1>1, SlotFacts
<1> HIDE DEF y
<1>3. lvl2[f] = lvl[t] - 1 /\ key2[f] = y /\ \A x \in T : lvl2[x] = lvl[x] /\ key2[x] = key[x]
  BY <1>1
<1>4. lvl2 \in [U -> 1 .. 4] /\ key2 \in [U -> Nat] /\ U \in SUBSET Frames
  BY <1>level, <1>1, <1>2
<1> HIDE DEF lvl2, key2
<1>5. ASSUME NEW x \in U, NEW s \in U, lvl2[s] = lvl2[x] /\ key2[s] = key2[x] PROVE s = x
  <2>1. \A z \in T : ~(lvl[z] = lvl[t] - 1 /\ key[z] = y)
    BY <1>named, NoSuchTable DEF y
  <2>2. CASE x = f
    BY <1>3, <1>5, <2>1, <2>2
  <2>3. CASE s = f
    BY <1>3, <1>5, <2>1, <2>3
  <2>4. CASE x \in T /\ s \in T
    <3>1. lvl[s] = lvl[x] /\ key[s] = key[x]
      BY <1>3, <1>5, <2>4
    <3> QED BY <1>named, <2>4, <3>1 DEF Tree
  <2> QED BY <2>2, <2>3, <2>4
<1>6. ASSUME NEW x \in U, NEW j \in Index
      PROVE  EntryGood(n[x][j], lvl2[x], Slot(key2[x], j), U, lvl2, key2, a, big)
  <2>1. CASE x = f
    <3>1. n[x][j] = Empty /\ EntryOK(Empty) /\ ~Present(Empty)
      BY <1>linked, <2>1, EmptyFacts
    <3>2. ASSUME NEW v \in Pages, Prefix(lvl2[x], v) = Slot(key2[x], j) PROVE a[v] = NULL
      <4>1. lvl[t] \in 2 .. 4 /\ lvl[t] - 1 \in 1 .. 3
        BY <1>level, <1>1
      <4>2. Prefix(lvl[t], v) = Prefix(lvl[t] - 1, v) \div E
        BY <4>1, PrefixFacts
      <4>3. Prefix(lvl[t] - 1, v) = Slot(y, j)
        BY <1>3, <2>1, <3>2
      <4>4. Prefix(lvl[t], v) = y
        BY <1>2, <4>2, <4>3, SlotFacts
      <4> QED BY <1>named, <4>4 DEF Tree, EntryGood, y
    <3> QED BY <3>1, <3>2 DEF EntryGood, NamesTable, IsLeaf
  <2>2. CASE x = t /\ j = i
    <3>1. n[x][j].frame = f /\ n[x][j].flags = flags /\ EntryOK(n[x][j])
      BY <1>linked, <2>2, EmptyFacts DEF TableFlags
    <3>2. Present(n[x][j]) /\ "PS" \notin n[x][j].flags
      BY <3>1 DEF TableFlags, Present
    <3>3. lvl2[x] = lvl[t] /\ key2[x] = key[t] /\ f \in U
      BY <1>3, <2>2
    <3> QED BY <1>level, <1>3, <2>2, <3>1, <3>2, <3>3 DEF EntryGood, IsLeaf, y
  <2>3. CASE x \in T /\ (x # t \/ j # i)
    <3>1. n[x][j] = m[x][j] /\ lvl2[x] = lvl[x] /\ key2[x] = key[x]
      BY <1>linked, <1>1, <1>3, <2>3
    <3>2. EntryGood(m[x][j], lvl[x], Slot(key[x], j), T, lvl, key, a, big)
      BY <1>named, <2>3 DEF Tree
    <3> QED BY <1>3, <3>1, <3>2 DEF EntryGood
  <2> QED BY <2>1, <2>2, <2>3
<1>7. ASSUME NEW x \in U \ {r} PROVE Named(n, U, lvl2, x)
  <2>1. CASE x = f
    <3>1. n[t][i].frame = f /\ n[t][i].flags = flags
      BY <1>linked, EmptyFacts DEF TableFlags
    <3>2. NamesTable(n[t][i]) /\ lvl2[t] # 1
      BY <1>level, <1>3, <3>1 DEF TableFlags, Present, NamesTable
    <3> QED BY <2>1, <3>1, <3>2 DEF Named
  <2>2. CASE x \in T
    <3>1. PICK p \in T, j \in Index : lvl[p] # 1 /\ NamesTable(m[p][j]) /\ m[p][j].frame = x
      BY <1>named, <2>2 DEF Tree, Named
    <3>2. n[p][j] = m[p][j] /\ p \in U
      BY <1>linked, <1>1, <3>1 DEF NamesTable
    <3> QED BY <1>3, <3>1, <3>2 DEF Named
  <2> QED BY <2>1, <2>2
<1>9. lvl2[r] = 4 /\ key2[r] = 0 /\ r \in U
  BY <1>1, <1>3
<1> HIDE DEF U
<1>10. Tree(n, U, lvl2, key2, a, r, big)
  <2>1. \A s, x \in U : lvl2[s] = lvl2[x] /\ key2[s] = key2[x] => s = x
    BY <1>5
  <2>2. \A x \in U, j \in Index :
          EntryGood(n[x][j], lvl2[x], Slot(key2[x], j), U, lvl2, key2, a, big)
    BY <1>6
  <2>3. \A x \in U \ {r} : Named(n, U, lvl2, x)
    BY <1>7
  <2> QED BY <1>4, <1>9, <2>1, <2>2, <2>3 DEF Tree
<1>11. lvl2[f] = k - 1 /\ key2[f] = Slot(num, i)
  BY <1>named, <1>3 DEF y
<1> QED BY <1>4, <1>10, <1>11 DEF U, TableAt


LEMMA NewTableIs ==
  ASSUME NEW w \in Walks, w.at \in Frames \ w.free, NEW i \in Index, NEW flags \in TableFlags
  PROVE  IF w.free = {} THEN NewTable(w, i, flags) = [w EXCEPT !.at = NULL]
         ELSE \E f \in w.free : \E m \in Memories :
           /\ NewTable(w, i, flags) =
                [mem |-> m, free |-> w.free \ {f}, tables |-> w.tables \cup {f}, at |-> f]
           /\ Linked(w.mem, m, w.at, i, f, flags)
<1>1. CASE w.free = {}
  BY <1>1 DEF NewTable
<1>2. CASE w.free # {}
  <2> DEFINE f == CHOOSE f \in w.free : \A g \in w.free : f <= g
             t == w.at
             h == w.mem
             e == Entry(f, flags)
             m == Put(Wipe(h, f), t, i, e)
  <2>1. w.free \in SUBSET Frames /\ h \in Memories
    BY DEF Walks
  <2>2. f \in w.free /\ f \in Frames /\ t \in Frames /\ f # t
    BY <1>2, <2>1, LowestFree
  <2>3. NewTable(w, i, flags) =
          [w EXCEPT !.free = @ \ {f}, !.tables = @ \cup {f}, !.at = f, !.mem[f] = Zero,
                    !.mem[t][i] = e]
    BY <1>2 DEF NewTable, Zero
  <2>4. flags \in SUBSET {"P", "W", "U", "NX", "CD", "PS"}
    BY DEF TableFlags
  <2>5. e \in [frame : Frames, flags : SUBSET {"P", "W", "U", "NX", "CD", "PS"}]
    BY <2>2, <2>4, EmptyFacts
  <2> HIDE DEF f, e
  <2>6. NewTable(w, i, flags) =
          [mem |-> m, free |-> w.free \ {f}, tables |-> w.tables \cup {f}, at |-> f]
    BY <2>3 DEF Walks, Put, Wipe
  <2> HIDE DEF t, h
  <2>7. /\ m \in Memories /\ m[t][i] = e /\ \A j \in Index : m[f][j] = Empty
        /\ \A g \in Frames \ {f}, j \in Index : g # t \/ j # i => m[g][j] = h[g][j]
    BY <2>1, <2>2, <2>5, Cleared
  <2> HIDE DEF m
  <2> QED BY <1>2, <2>2, <2>6, <2>7 DEF t, h, e, Linked
<1> QED BY <1>1, <1>2

\* One level down, a walk is in the table the page is found through, old or new,
\* unless there was no frame for it.
LEMMA DownKeeps ==
  ASSUME NEW w, NEW k \in 2 .. 4, NEW x \in Nat, NEW a, NEW r, NEW big, NEW lost,
         Reached(w, k, x, a, r, big, lost), NEW i \in Index, NEW flags \in TableFlags,
         k = 2 => Slot(x, i) \notin big
  PROVE  /\ \/ Stopped(Down(w, i, flags), a, r, big, lost)
            \/ Reached(Down(w, i, flags), k - 1, Slot(x, i), a, r, big, lost)
         /\ Takes(w, Down(w, i, flags))
<1> DEFINE e == w.mem[w.at][i]  y == Slot(x, i)
<1> DEFINE T == w.tables \ lost
<1>1. PICK lvl \in [T -> 1 .. 4], key \in [T -> Nat] :
        /\ Tree(w.mem, T, lvl, key, a, r, big) /\ lvl[w.at] = k /\ key[w.at] = x
  BY DEF Reached, TableAt
<1>2. /\ w \in Walks /\ w.free \cap w.tables = {} /\ w.at \in T /\ lost \subseteq w.tables
      /\ w.mem \in Memories /\ w.free \in SUBSET Frames /\ w.tables \in SUBSET Frames
      /\ w.at \in Frames /\ w.at # NULL
  BY VmmAssumption DEF Reached, Walks
<1>3. EntryGood(e, k, y, T, lvl, key, a, big)
  BY <1>1, <1>2 DEF Tree
<1> HIDE DEF T
<1>t. T \subseteq w.tables /\ T \in SUBSET Frames
  BY <1>2 DEF T
<1>4. CASE Present(e)
  <2>1. NamesTable(e)
    BY <1>3, <1>4 DEF EntryGood, NamesTable
  <2>2. e.frame \in T /\ lvl[e.frame] = k - 1 /\ key[e.frame] = y
    BY <1>3, <2>1 DEF EntryGood
  <2>3. Down(w, i, flags) = [w EXCEPT !.at = e.frame]
    BY <1>2, <1>4 DEF Down
  <2> DEFINE d == [w EXCEPT !.at = e.frame]
  <2>4. /\ d \in Walks /\ d.mem = w.mem /\ d.free = w.free /\ d.tables = w.tables
        /\ d.at = e.frame
    BY <1>2, <1>t, <2>2 DEF Walks
  <2> HIDE DEF d, e, y
  <2>5. Reached(d, k - 1, y, a, r, big, lost)
    BY <1>1, <1>2, <2>2, <2>4 DEF Reached, TableAt, T
  <2>6. Takes(w, d)
    BY <2>4 DEF Takes
  <2> QED BY <2>3, <2>5, <2>6 DEF d, y
<1>5. CASE ~Present(e) /\ w.free = {}
  <2> DEFINE d == [w EXCEPT !.at = NULL]
  <2>1. Down(w, i, flags) = d
    BY <1>2, <1>5, NewTableIs DEF Down
  <2>2. /\ d \in Walks /\ d.mem = w.mem /\ d.free = w.free /\ d.tables = w.tables
        /\ d.at = NULL
    BY <1>2 DEF Walks
  <2> HIDE DEF d, e, y
  <2>3. Stopped(d, a, r, big, lost)
    BY <1>1, <1>2, <2>2 DEF Stopped, Good, T
  <2>4. Takes(w, d)
    BY <2>2 DEF Takes
  <2> QED BY <2>1, <2>3, <2>4
<1>6. CASE ~Present(e) /\ w.free # {}
  <2>1. PICK f \in w.free, m \in Memories :
          /\ NewTable(w, i, flags) =
               [mem |-> m, free |-> w.free \ {f}, tables |-> w.tables \cup {f}, at |-> f]
          /\ Linked(w.mem, m, w.at, i, f, flags)
    BY <1>2, <1>6, <1>t, NewTableIs
  <2> DEFINE d == [mem |-> m, free |-> w.free \ {f}, tables |-> w.tables \cup {f}, at |-> f]
  <2>2. Down(w, i, flags) = d
    BY <1>2, <1>6, <2>1 DEF Down
  <2>3. /\ d \in Walks /\ d.mem = m /\ d.free = w.free \ {f} /\ d.tables = w.tables \cup {f}
        /\ d.at = f
    BY <1>2 DEF Walks
  <2>4. f \in Frames \ T /\ f # w.at /\ f \notin w.tables
    BY <1>2, <1>t
  <2>5. TableAt(m, T \cup {f}, a, r, big, f, k - 1, y)
    <3> DEFINE t == w.at  h == w.mem
    <3>1. k \in 2 .. 4 /\ x \in Nat /\ i \in Index /\ flags \in TableFlags
          /\ (k = 2 => y \notin big) /\ y = Slot(x, i)
      OBVIOUS
    <3>2. TableAt(h, T, a, r, big, t, k, x) /\ t \in T /\ ~Present(h[t][i])
      BY <1>2, <1>6 DEF Reached, T
    <3>3. f \in Frames \ T /\ m \in Memories /\ Linked(h, m, t, i, f, flags)
      BY <1>2, <2>1, <2>4
    <3> HIDE DEF d, e, y, t, h
    <3>4. TableAt(m, T \cup {f}, a, r, big, f, k - 1, y)
      BY ONLY <3>1, <3>2, <3>3, TableAdded
    <3> QED BY <3>4
  <2>6. Reached(d, k - 1, y, a, r, big, lost)
    <3>1. d.tables \ lost = T \cup {f} /\ lost \subseteq d.tables
      BY <1>2, <2>3, <2>4 DEF T
    <3> QED BY <1>2, <2>3, <2>5, <3>1 DEF Reached
  <2>7. Takes(w, d)
    <3>1. \A g \in Frames \ d.tables, j \in Index : d.mem[g][j] = w.mem[g][j]
      BY <1>2, <1>t, <2>1, <2>3 DEF Linked
    <3> QED BY <1>2, <2>3, <3>1 DEF Takes
  <2> QED BY <2>2, <2>6, <2>7
<1> QED BY <1>4, <1>5, <1>6

\* A walk that has stopped goes nowhere and writes nothing.
LEMMA StaysStopped ==
  ASSUME NEW w, NEW a, NEW r, NEW big, NEW lost, Stopped(w, a, r, big, lost), NEW i, NEW flags, NEW e
  PROVE  Down(w, i, flags) = w /\ Write(w, i, e) = w
BY DEF Stopped, Down, Write

(***************************************************************************)
(* Paths. Page v is found through the table of level k with number         *)
(* Top(k, v), by its entry IndexOf(k, v).                                  *)
(***************************************************************************)
Top(k, v) == IF k = 4 THEN 0 ELSE Prefix(k + 1, v)

LEMMA TopFacts ==
  ASSUME NEW v \in Pages, NEW k \in 1 .. 4
  PROVE  /\ Top(k, v) \in Nat /\ IndexOf(k, v) \in Index
         /\ Slot(Top(k, v), IndexOf(k, v)) = Prefix(k, v)
         /\ \A x \in Nat, i \in Index :
              Slot(x, i) = Prefix(k, v) => x = Top(k, v) /\ i = IndexOf(k, v)
<1>1. Top(k, v) \in Nat /\ IndexOf(k, v) \in Index
  BY PrefixFacts DEF Top
<1>2. Slot(Top(k, v), IndexOf(k, v)) = Prefix(k, v)
  BY PrefixFacts DEF Top
<1>3. ASSUME NEW x \in Nat, NEW i \in Index, Slot(x, i) = Prefix(k, v)
      PROVE  x = Top(k, v) /\ i = IndexOf(k, v)
  BY <1>1, <1>2, <1>3, SlotFacts
<1> QED BY <1>1, <1>2, <1>3

\* What names a table is one level above it, and on every path the table is on.
LEMMA Parent ==
  ASSUME NEW m, NEW T, NEW lvl, NEW key, NEW a, NEW r, NEW big,
         Tree(m, T, lvl, key, a, r, big),
         NEW v \in Pages, NEW t \in T, lvl[t] # 4, key[t] = Top(lvl[t], v)
  PROVE  \E p \in T : /\ lvl[p] = lvl[t] + 1 /\ key[p] = Top(lvl[p], v)
                      /\ NamesTable(m[p][IndexOf(lvl[p], v)])
<1>1. lvl \in [T -> 1 .. 4] /\ key \in [T -> Nat] /\ t # r
  BY DEF Tree
<1>2. PICK p \in T, j \in Index : lvl[p] # 1 /\ NamesTable(m[p][j]) /\ m[p][j].frame = t
  BY <1>1 DEF Tree, Named
<1>3. lvl[t] = lvl[p] - 1 /\ key[t] = Slot(key[p], j)
  BY <1>2 DEF Tree, EntryGood
<1>4. lvl[p] \in 1 .. 4 /\ lvl[p] = lvl[t] + 1 /\ key[p] \in Nat
  BY <1>1, <1>3
<1>5. key[t] = Prefix(lvl[p], v)
  BY <1>1, <1>4 DEF Top
<1>6. key[p] = Top(lvl[p], v) /\ j = IndexOf(lvl[p], v)
  BY <1>3, <1>4, <1>5, TopFacts
<1> QED BY <1>2, <1>4, <1>6

\* The tables above one on the path of a page name the next on that path.
LEMMA Above ==
  ASSUME NEW m, NEW T, NEW lvl, NEW key, NEW a, NEW r, NEW big,
         Tree(m, T, lvl, key, a, r, big),
         NEW v \in Pages, NEW t \in T, key[t] = Top(lvl[t], v),
         NEW s \in T, key[s] = Top(lvl[s], v), lvl[s] > lvl[t]
  PROVE  NamesTable(m[s][IndexOf(lvl[s], v)])
<1> DEFINE OnPath(p) == key[p] = Top(lvl[p], v)
           Names(p) == NamesTable(m[p][IndexOf(lvl[p], v)])
<1>1. /\ lvl \in [T -> 1 .. 4]
      /\ \A p, q \in T : lvl[p] = lvl[q] /\ key[p] = key[q] => p = q
  BY DEF Tree
<1>2. \A q \in T : lvl[q] # 4 /\ OnPath(q) =>
        \E p \in T : lvl[p] = lvl[q] + 1 /\ OnPath(p) /\ Names(p)
  BY Parent
<1>3. OnPath(t) /\ OnPath(s) /\ \A p \in T : OnPath(p) /\ lvl[p] = lvl[s] => p = s
  BY <1>1
<1> HIDE DEF OnPath, Names
<1>4. lvl[t] \in 1 .. 3 /\ lvl[s] \in 2 .. 4
  BY <1>1
<1>5. PICK p1 \in T : lvl[p1] = lvl[t] + 1 /\ OnPath(p1) /\ Names(p1)
  BY <1>2, <1>3, <1>4
<1>6. CASE lvl[s] = lvl[t] + 1
  BY <1>3, <1>5, <1>6 DEF Names
<1>7. CASE lvl[s] > lvl[t] + 1
  <2>1. PICK p2 \in T : lvl[p2] = lvl[t] + 2 /\ OnPath(p2) /\ Names(p2)
    BY <1>2, <1>4, <1>5, <1>7
  <2>2. CASE lvl[s] = lvl[t] + 2
    BY <1>3, <2>1, <2>2 DEF Names
  <2>3. CASE lvl[s] > lvl[t] + 2
    <3>1. PICK p3 \in T : lvl[p3] = lvl[t] + 3 /\ OnPath(p3) /\ Names(p3)
      BY <1>2, <1>4, <2>1, <2>3
    <3>2. lvl[s] = lvl[t] + 3
      BY <1>4, <2>3
    <3> QED BY <1>3, <3>1, <3>2 DEF Names
  <2> QED BY <1>4, <1>7, <2>2, <2>3
<1> QED BY <1>4, <1>6, <1>7

\* Only one entry that names no table is about a page.
Ends(e, level) == ~(NamesTable(e) /\ level # 1)
LEMMA OnlyOne ==
  ASSUME NEW m, NEW T, NEW lvl, NEW key, NEW a, NEW r, NEW big,
         Tree(m, T, lvl, key, a, r, big), NEW v \in Pages,
         NEW t \in T, NEW i \in Index, Ends(m[t][i], lvl[t]), Slot(key[t], i) = Prefix(lvl[t], v),
         NEW s \in T, NEW j \in Index, Ends(m[s][j], lvl[s]), Slot(key[s], j) = Prefix(lvl[s], v)
  PROVE  s = t /\ j = i
<1>1. /\ lvl \in [T -> 1 .. 4] /\ key \in [T -> Nat]
      /\ \A p, q \in T : lvl[p] = lvl[q] /\ key[p] = key[q] => p = q
  BY DEF Tree
<1>2. lvl[t] \in 1 .. 4 /\ key[t] \in Nat /\ lvl[s] \in 1 .. 4 /\ key[s] \in Nat
  BY <1>1
<1>3. /\ key[t] = Top(lvl[t], v) /\ i = IndexOf(lvl[t], v)
      /\ key[s] = Top(lvl[s], v) /\ j = IndexOf(lvl[s], v)
  BY <1>2, TopFacts
<1>4. CASE lvl[s] = lvl[t]
  BY <1>1, <1>3, <1>4
<1>5. CASE lvl[s] > lvl[t]
  <2>1. NamesTable(m[s][IndexOf(lvl[s], v)])
    BY <1>3, <1>5, Above
  <2> QED BY <1>2, <1>3, <1>5, <2>1 DEF Ends
<1>6. CASE lvl[t] > lvl[s]
  <2>1. NamesTable(m[t][IndexOf(lvl[t], v)])
    BY <1>3, <1>6, Above
  <2> QED BY <1>2, <1>3, <1>6, <2>1 DEF Ends
<1> QED BY <1>2, <1>4, <1>5, <1>6

(***************************************************************************)
(* Writes                                                                  *)
(***************************************************************************)
\* Entry e, which names no table, may be number y of the level when b is what is
\* then asked.
LeafGood(e, level, y, b, big) ==
  /\ Ends(e, level) /\ (level = 2 => y \in big)
  /\ ~Present(e) => \A v \in Pages : Prefix(level, v) = y => b[v] = NULL
  /\ Present(e) /\ "PS" \in e.flags => level = 2 /\ e.frame % E = 0
  /\ IsLeaf(e, level) =>
       /\ "U" \notin e.flags
       /\ \A v \in Pages : Prefix(level, v) = y => b[v] = Says(e, level, v)
\* Only the pages found through number y of the level are asked anything new.
OnlyAt(level, y, a, b) == \A v \in Pages : Prefix(level, v) # y => b[v] = a[v]

LEMMA LeafWritten ==
  ASSUME NEW m \in Memories, NEW T, NEW a, NEW b, NEW r, NEW big,
         NEW t \in T, NEW k \in 1 .. 2, NEW num \in Nat, TableAt(m, T, a, r, big, t, k, num),
         NEW i \in Index,
         NEW e \in [frame : Frames, flags : SUBSET {"P", "W", "U", "NX", "CD", "PS"}],
         LeafGood(e, k, Slot(num, i), b, big), OnlyAt(k, Slot(num, i), a, b)
  PROVE  TableAt(Put(m, t, i, e), T, b, r, big, t, k, num)
<1> DEFINE n == Put(m, t, i, e)  y == Slot(num, i)
<1>1. PICK lvl \in [T -> 1 .. 4], key \in [T -> Nat] :
        Tree(m, T, lvl, key, a, r, big) /\ lvl[t] = k /\ key[t] = num
  BY DEF TableAt
<1>2. T \in SUBSET Frames /\ r \in T /\ t \in Frames
  BY <1>1 DEF Tree
<1>3. /\ n \in Memories /\ n[t][i] = e
      /\ \A f \in Frames, j \in Index : f # t \/ j # i => n[f][j] = m[f][j]
  BY <1>2, Written
<1> HIDE DEF n, y
<1>4. Ends(m[t][i], k)
  BY <1>1 DEF Tree, EntryGood, Ends, LeafGood
<1>5. ASSUME NEW s \in T, NEW j \in Index
      PROVE  EntryGood(n[s][j], lvl[s], Slot(key[s], j), T, lvl, key, b, big)
  <2>1. CASE s = t /\ j = i
    <3>1. n[s][j] = e /\ lvl[s] = k /\ Slot(key[s], j) = y
      BY <1>1, <1>3, <2>1 DEF y
    <3>2. EntryOK(e)
      BY DEF EntryOK
    <3>3. EntryGood(e, k, y, T, lvl, key, b, big)
      BY <3>2 DEF EntryGood, LeafGood, Ends, y
    <3> QED BY <3>1, <3>3
  <2>2. CASE (s # t \/ j # i) /\ Ends(m[s][j], lvl[s])
    <3>1. n[s][j] = m[s][j]
      BY <1>2, <1>3, <2>2
    <3>2. ASSUME NEW v \in Pages, Prefix(lvl[s], v) = Slot(key[s], j) PROVE b[v] = a[v]
      <4>1. Prefix(k, v) # y
        BY <1>1, <1>4, <2>2, <3>2, OnlyOne DEF y
      <4> QED BY <4>1 DEF OnlyAt, y
    <3>3. EntryGood(m[s][j], lvl[s], Slot(key[s], j), T, lvl, key, a, big)
      BY <1>1 DEF Tree
    <3> QED BY <3>1, <3>2, <3>3 DEF EntryGood
  <2>3. CASE ~Ends(m[s][j], lvl[s])
    <3>1. n[s][j] = m[s][j]
      BY <1>1, <1>2, <1>3, <1>4, <2>3
    <3>2. EntryGood(m[s][j], lvl[s], Slot(key[s], j), T, lvl, key, a, big)
      BY <1>1 DEF Tree
    <3> QED BY <2>3, <3>1, <3>2 DEF EntryGood, Ends, NamesTable, IsLeaf
  <2> QED BY <2>1, <2>2, <2>3
<1>6. ASSUME NEW s \in T \ {r} PROVE Named(n, T, lvl, s)
  <2>1. PICK p \in T, j \in Index : lvl[p] # 1 /\ NamesTable(m[p][j]) /\ m[p][j].frame = s
    BY <1>1 DEF Tree, Named
  <2>2. n[p][j] = m[p][j]
    BY <1>1, <1>2, <1>3, <1>4, <2>1 DEF Ends
  <2> QED BY <2>1, <2>2 DEF Named
<1>8. Tree(n, T, lvl, key, b, r, big)
  <2>1. \A s \in T, j \in Index :
          EntryGood(n[s][j], lvl[s], Slot(key[s], j), T, lvl, key, b, big)
    BY <1>5
  <2>2. \A s \in T \ {r} : Named(n, T, lvl, s)
    BY <1>6
  <2>3. /\ lvl[r] = 4 /\ key[r] = 0
        /\ \A s, u \in T : lvl[s] = lvl[u] /\ key[s] = key[u] => s = u
    BY <1>1 DEF Tree
  <2> QED BY <1>2, <1>3, <2>1, <2>2, <2>3 DEF Tree
<1> QED BY <1>1, <1>8 DEF TableAt, n

\* A page directory's entry that names no table may become a large page's.
LEMMA MayBeLarge ==
  ASSUME NEW m, NEW T, NEW a, NEW r, NEW big, NEW t \in T, NEW num \in Nat,
         TableAt(m, T, a, r, big, t, 2, num), NEW i \in Index, Ends(m[t][i], 2)
  PROVE  TableAt(m, T, a, r, big \cup {Slot(num, i)}, t, 2, num)
<1> DEFINE y == Slot(num, i)  B == big \cup {y}
<1>1. PICK lvl \in [T -> 1 .. 4], key \in [T -> Nat] :
        Tree(m, T, lvl, key, a, r, big) /\ lvl[t] = 2 /\ key[t] = num
  BY DEF TableAt
<1>2. ASSUME NEW s \in T, NEW j \in Index
      PROVE  EntryGood(m[s][j], lvl[s], Slot(key[s], j), T, lvl, key, a, B)
  <2>1. EntryGood(m[s][j], lvl[s], Slot(key[s], j), T, lvl, key, a, big)
    BY <1>1 DEF Tree
  <2>2. ASSUME NamesTable(m[s][j]), lvl[s] = 2 PROVE Slot(key[s], j) # y
    <3>1. ASSUME Slot(key[s], j) = y PROVE FALSE
      <4>1. key[s] = num /\ j = i
        BY <3>1, SlotFacts
      <4>2. s = t
        BY <1>1, <2>2, <4>1 DEF Tree
      <4> QED BY <2>2, <4>1, <4>2 DEF Ends
    <3> QED BY <3>1
  <2> HIDE DEF y
  <2> QED BY <2>1, <2>2 DEF EntryGood
<1> HIDE DEF B
<1>3. Tree(m, T, lvl, key, a, r, B)
  BY <1>1, <1>2 DEF Tree
<1> QED BY <1>1, <1>3 DEF TableAt, B

\* With the entry that names it a table leaves the tree, and with it what its
\* pages were asked for.
LEMMA Pruned ==
  ASSUME NEW m \in Memories, NEW T, NEW a, NEW r, NEW big, NEW t \in T, NEW num \in Nat,
         TableAt(m, T, a, r, big, t, 2, num), NEW i \in Index, NamesTable(m[t][i]),
         NEW c, \A v \in Pages : c[v] = IF Prefix(2, v) = Slot(num, i) THEN NULL ELSE a[v]
  PROVE  /\ m[t][i].frame # t
         /\ TableAt(Put(m, t, i, Empty), T \ {m[t][i].frame}, c, r, big, t, 2, num)
<1> DEFINE n == Put(m, t, i, Empty)  y == Slot(num, i)  f == m[t][i].frame  U == T \ {f}
<1>1. PICK lvl \in [T -> 1 .. 4], key \in [T -> Nat] :
        Tree(m, T, lvl, key, a, r, big) /\ lvl[t] = 2 /\ key[t] = num
  BY DEF TableAt
<1>2. T \in SUBSET Frames /\ r \in T /\ t \in Frames /\ lvl[r] = 4 /\ key[r] = 0
  BY <1>1 DEF Tree
<1>3. /\ n \in Memories /\ n[t][i] = Empty
      /\ \A g \in Frames, j \in Index : g # t \/ j # i => n[g][j] = m[g][j]
  BY <1>2, Written, VmmAssumption DEF Empty, Entry
<1>4. f \in T /\ lvl[f] = 1 /\ key[f] = y
  BY <1>1 DEF Tree, EntryGood
<1>5. y \in Nat
  BY SlotFacts
<1>6. ASSUME NEW s \in T, NEW j \in Index, lvl[s] # 1, NamesTable(m[s][j]),
             s # t \/ j # i
      PROVE  m[s][j].frame \in U /\ (lvl[s] = 2 => Slot(key[s], j) # y)
  <2>1. /\ m[s][j].frame \in T /\ lvl[m[s][j].frame] = lvl[s] - 1
        /\ key[m[s][j].frame] = Slot(key[s], j)
    BY <1>1, <1>6 DEF Tree, EntryGood
  <2>2. ASSUME lvl[s] = 2, Slot(key[s], j) = y PROVE FALSE
    <3>1. key[s] = num /\ j = i
      BY <2>2, SlotFacts
    <3>2. s = t
      BY <1>1, <2>2, <3>1 DEF Tree
    <3> QED BY <1>6, <3>1, <3>2
  <2>3. m[s][j].frame # f
    BY <1>4, <2>1, <2>2
  <2> QED BY <2>1, <2>2, <2>3
<1> HIDE DEF n, y, f
<1> DEFINE lvl2 == [x \in U |-> lvl[x]]  key2 == [x \in U |-> key[x]]
<1>7. /\ lvl2 \in [U -> 1 .. 4] /\ key2 \in [U -> Nat]
      /\ \A x \in U : lvl2[x] = lvl[x] /\ key2[x] = key[x]
  OBVIOUS
<1> HIDE DEF lvl2, key2
<1>8. r \in U /\ t \in U /\ U \in SUBSET Frames /\ \A x \in U : x \in T /\ x # f
  BY <1>1, <1>2, <1>4
<1> HIDE DEF U
<1>9. ASSUME NEW s \in U, NEW j \in Index
      PROVE  EntryGood(n[s][j], lvl2[s], Slot(key2[s], j), U, lvl2, key2, c, big)
  <2>1. lvl2[s] = lvl[s] /\ key2[s] = key[s] /\ s \in T /\ s \in Frames
    BY <1>2, <1>7, <1>8
  <2>2. EntryGood(m[s][j], lvl[s], Slot(key[s], j), T, lvl, key, a, big)
    BY <1>1, <2>1 DEF Tree
  <2>3. CASE s = t /\ j = i
    <3>1. n[s][j] = Empty
      BY <1>3, <2>3
    <3>2. \A v \in Pages : Prefix(lvl[s], v) = Slot(key[s], j) => c[v] = NULL
      BY <1>1, <2>3
    <3> QED BY <2>1, <3>1, <3>2, EmptyFacts DEF EntryGood, NamesTable, IsLeaf
  <2>4. CASE s # t \/ j # i
    <3>1. n[s][j] = m[s][j]
      BY <1>3, <2>1, <2>4
    <3>2. ASSUME NamesTable(m[s][j]), lvl[s] # 1
          PROVE  /\ m[s][j].frame \in U /\ lvl2[m[s][j].frame] = lvl[s] - 1
                 /\ key2[m[s][j].frame] = Slot(key[s], j)
      <4>1. m[s][j].frame \in U
        BY <1>6, <2>1, <2>4, <3>2 DEF U
      <4> QED BY <1>7, <2>2, <3>2, <4>1 DEF EntryGood
    <3>3. ASSUME NEW v \in Pages, Prefix(lvl[s], v) = Slot(key[s], j),
                 IsLeaf(m[s][j], lvl[s])
          PROVE  c[v] = a[v]
      <4>1. lvl[s] \in {1, 2} /\ key[s] \in Nat
        BY <1>1, <2>1, <2>2, <3>3 DEF EntryGood, IsLeaf
      <4>2. CASE lvl[s] = 1
        <5>1. key[s] = Top(1, v) /\ Top(1, v) = Prefix(2, v)
          BY <3>3, <4>1, <4>2, TopFacts DEF Top
        <5>2. key[s] # y
          BY <1>1, <1>4, <1>8, <2>1, <4>2 DEF Tree
        <5> QED BY <5>1, <5>2 DEF y
      <4>3. CASE lvl[s] = 2
        <5>1. Slot(key[s], j) # y
          <6>1. ASSUME Slot(key[s], j) = y PROVE FALSE
            <7>1. key[s] = num /\ j = i
              BY <4>1, <6>1, SlotFacts DEF y
            <7>2. s = t
              BY <1>1, <2>1, <4>3, <7>1 DEF Tree
            <7> QED BY <2>4, <7>1, <7>2
          <6> QED BY <6>1
        <5> QED BY <3>3, <4>3, <5>1 DEF y
      <4> QED BY <4>1, <4>2, <4>3
    <3>4. ASSUME NEW v \in Pages, a[v] = NULL PROVE c[v] = NULL
      BY <3>4
    <3> QED BY <2>1, <2>2, <3>1, <3>2, <3>3, <3>4 DEF EntryGood
  <2> QED BY <2>3, <2>4
<1>10. ASSUME NEW s \in U \ {r} PROVE Named(n, U, lvl2, s)
  <2>1. PICK p \in T, j \in Index : lvl[p] # 1 /\ NamesTable(m[p][j]) /\ m[p][j].frame = s
    BY <1>1, <1>8 DEF Tree, Named
  <2>2. p # t \/ j # i
    BY <1>8, <2>1 DEF f
  <2>3. p \in U /\ n[p][j] = m[p][j]
    BY <1>2, <1>3, <1>4, <2>1, <2>2 DEF U
  <2> QED BY <1>7, <2>1, <2>3 DEF Named
<1>11. \A s, x \in U : lvl2[s] = lvl2[x] /\ key2[s] = key2[x] => s = x
  <2> SUFFICES ASSUME NEW s \in U, NEW x \in U, lvl2[s] = lvl2[x], key2[s] = key2[x]
               PROVE  s = x
    OBVIOUS
  <2>1. lvl[s] = lvl[x] /\ key[s] = key[x] /\ s \in T /\ x \in T
    BY <1>7, <1>8
  <2> QED BY <1>1, <2>1 DEF Tree
<1>12. Tree(n, U, lvl2, key2, c, r, big)
  <2>1. \A s \in U, j \in Index :
          EntryGood(n[s][j], lvl2[s], Slot(key2[s], j), U, lvl2, key2, c, big)
    BY <1>9
  <2>2. \A s \in U \ {r} : Named(n, U, lvl2, s)
    BY <1>10
  <2>3. lvl2[r] = 4 /\ key2[r] = 0
    BY <1>2, <1>7, <1>8
  <2> QED BY <1>3, <1>7, <1>8, <1>11, <2>1, <2>2, <2>3 DEF Tree
<1>13. lvl2[t] = 2 /\ key2[t] = num /\ f # t
  BY <1>1, <1>4, <1>7, <1>8
<1> QED BY <1>7, <1>12, <1>13 DEF TableAt, n, U, f

\* Memory n has the large page y, and its tree perhaps a table less for it.
Enlarged(n, T, b, r, big, t, num, y) ==
  \E U \in SUBSET T : /\ t \in U /\ TableAt(n, U, b, r, big \cup {y}, t, 2, num)
                      /\ y \in big => U = T

\* A large page takes its pages' entries, and loses the table that held them if
\* there was one.
LEMMA LargeWritten ==
  ASSUME NEW m \in Memories, NEW T, NEW a, NEW b, NEW r, NEW big,
         NEW t \in T, NEW num \in Nat, TableAt(m, T, a, r, big, t, 2, num),
         NEW i \in Index,
         NEW e \in [frame : Frames, flags : SUBSET {"P", "W", "U", "NX", "CD", "PS"}],
         LeafGood(e, 2, Slot(num, i), b, big \cup {Slot(num, i)}),
         OnlyAt(2, Slot(num, i), a, b)
  PROVE  Enlarged(Put(m, t, i, e), T, b, r, big, t, num, Slot(num, i))
<1> DEFINE y == Slot(num, i)  B == big \cup {y}
<1>1. CASE Ends(m[t][i], 2)
  <2>1. TableAt(m, T, a, r, B, t, 2, num)
    BY <1>1, MayBeLarge
  <2>2. 2 \in 1 .. 2
    OBVIOUS
  <2> HIDE DEF B
  <2>3. LeafGood(e, 2, Slot(num, i), b, B)
    BY DEF B
  <2>4. TableAt(Put(m, t, i, e), T, b, r, B, t, 2, num)
    BY <2>1, <2>2, <2>3, LeafWritten
  <2>5. T \in SUBSET T /\ t \in T
    OBVIOUS
  <2> QED BY <2>4, <2>5 DEF B, Enlarged
<1>2. CASE ~Ends(m[t][i], 2)
  <2> DEFINE f == m[t][i].frame  n == Put(m, t, i, Empty)  U == T \ {f}
             c == [v \in Pages |-> IF Prefix(2, v) = y THEN NULL ELSE a[v]]
  <2>1. NamesTable(m[t][i])
    BY <1>2 DEF Ends
  <2>2. y \notin big /\ T \in SUBSET Frames
    <3>1. PICK lvl \in [T -> 1 .. 4], key \in [T -> Nat] :
            Tree(m, T, lvl, key, a, r, big) /\ lvl[t] = 2 /\ key[t] = num
      BY DEF TableAt
    <3>2. EntryGood(m[t][i], 2, y, T, lvl, key, a, big)
      BY <3>1 DEF Tree
    <3> QED BY <2>1, <3>1, <3>2 DEF EntryGood, Tree
  <2>3. f # t /\ TableAt(n, U, c, r, big, t, 2, num)
    <3>1. \A v \in Pages : c[v] = IF Prefix(2, v) = y THEN NULL ELSE a[v]
      OBVIOUS
    <3> HIDE DEF c
    <3> QED BY <2>1, <3>1, Pruned
  <2>4. n \in Memories /\ n[t][i] = Empty
    BY <2>2, Written, VmmAssumption DEF Empty, Entry
  <2>5. Ends(n[t][i], 2) /\ t \in U
    BY <2>3, <2>4, EmptyFacts DEF Ends, NamesTable
  <2>6. OnlyAt(2, y, c, b)
    BY DEF OnlyAt
  <2>7. Put(n, t, i, e) = Put(m, t, i, e)
    BY <2>2 DEF Put, Memories
  <2> HIDE DEF c, n, U, f
  <2>8. TableAt(n, U, c, r, B, t, 2, num)
    BY <2>3, <2>5, MayBeLarge
  <2>9. 2 \in 1 .. 2
    OBVIOUS
  <2> HIDE DEF B
  <2>10. LeafGood(e, 2, Slot(num, i), b, B) /\ OnlyAt(2, Slot(num, i), c, b)
    BY <2>6 DEF B
  <2>11. TableAt(Put(n, t, i, e), U, b, r, B, t, 2, num)
    BY <2>4, <2>5, <2>8, <2>9, <2>10, LeafWritten
  <2>12. U \in SUBSET T
    BY DEF U
  <2> QED BY <2>2, <2>5, <2>7, <2>11, <2>12 DEF B, Enlarged
<1> QED BY <1>1, <1>2

(***************************************************************************)
(* vmm_map_page and vmm_map_range                                          *)
(***************************************************************************)
\* A walk for page v that has got to level k, if it got anywhere.
Arrived(w, k, v, a, r, big, lost) ==
  Stopped(w, a, r, big, lost) \/ Reached(w, k, Top(k, v), a, r, big, lost)

LEMMA TakesFacts ==
  /\ \A w : Takes(w, w)
  /\ \A w, d, c : Takes(w, d) /\ Takes(d, c) => Takes(w, c)
<1>1. \A w : Takes(w, w)
  BY DEF Takes
<1>2. ASSUME NEW w, NEW d, NEW c, Takes(w, d), Takes(d, c) PROVE Takes(w, c)
  <2>1. c.free \subseteq w.free /\ w.tables \subseteq c.tables /\ d.tables \subseteq c.tables
    BY <1>2 DEF Takes
  <2>2. c.tables \subseteq w.tables \cup w.free
    BY <1>2 DEF Takes
  <2>3. ASSUME NEW f \in Frames \ c.tables, NEW i \in Index PROVE c.mem[f][i] = w.mem[f][i]
    BY <1>2, <2>1 DEF Takes
  <2> QED BY <2>1, <2>2, <2>3 DEF Takes
<1> QED BY <1>1, <1>2

LEMMA StepDown ==
  ASSUME NEW w, NEW k \in 2 .. 4, NEW v \in Pages, NEW a, NEW r, NEW big, NEW lost,
         Arrived(w, k, v, a, r, big, lost), NEW flags \in TableFlags, k = 2 => Prefix(2, v) \notin big
  PROVE  /\ Arrived(Down(w, IndexOf(k, v), flags), k - 1, v, a, r, big, lost)
         /\ Takes(w, Down(w, IndexOf(k, v), flags))
<1> DEFINE i == IndexOf(k, v)  d == Down(w, i, flags)
<1>1. i \in Index /\ Top(k, v) \in Nat /\ Slot(Top(k, v), i) = Prefix(k, v)
  BY TopFacts
<1>2. Top(k - 1, v) = Prefix(k, v)
  BY DEF Top
<1>3. CASE Stopped(w, a, r, big, lost)
  <2>1. d = w
    BY <1>3, StaysStopped
  <2> QED BY <1>3, <2>1, TakesFacts DEF Arrived
<1>4. CASE Reached(w, k, Top(k, v), a, r, big, lost)
  <2> HIDE DEF i
  <2>1. k = 2 => Slot(Top(k, v), i) \notin big
    BY <1>1
  <2>2. /\ \/ Stopped(d, a, r, big, lost) \/ Reached(d, k - 1, Slot(Top(k, v), i), a, r, big, lost)
        /\ Takes(w, d)
    BY <1>1, <1>4, <2>1, DownKeeps
  <2> QED BY <1>1, <1>2, <2>2 DEF Arrived, i
<1> QED BY <1>3, <1>4 DEF Arrived

\* The entry written at the end of a walk.
LEMMA WriteKeeps ==
  ASSUME NEW w, NEW k \in 1 .. 2, NEW v \in Pages, NEW a, NEW b, NEW r, NEW big, NEW lost,
         Reached(w, k, Top(k, v), a, r, big, lost),
         NEW e \in [frame : Frames, flags : SUBSET {"P", "W", "U", "NX", "CD", "PS"}],
         LeafGood(e, k, Prefix(k, v), b, big), OnlyAt(k, Prefix(k, v), a, b)
  PROVE  /\ Reached(Write(w, IndexOf(k, v), e), k, Top(k, v), b, r, big, lost)
         /\ Takes(w, Write(w, IndexOf(k, v), e))
<1> DEFINE i == IndexOf(k, v)  h == w.mem  t == w.at  n == Put(h, t, i, e)
           T == w.tables \ lost
           d == [mem |-> n, free |-> w.free, tables |-> w.tables, at |-> t]
<1>1. i \in Index /\ Top(k, v) \in Nat /\ Slot(Top(k, v), i) = Prefix(k, v)
  BY TopFacts
<1>2. /\ w \in Walks /\ h \in Memories /\ t \in T /\ t \in w.tables /\ t \in Frames /\ t # NULL
      /\ w.free \cap w.tables = {} /\ lost \subseteq w.tables
      /\ TableAt(h, T, a, r, big, t, k, Top(k, v))
  BY VmmAssumption DEF Reached, Walks
<1>3. Write(w, i, e) = [w EXCEPT !.mem[t][i] = e]
  BY <1>2 DEF Write
<1>4. Write(w, i, e) = d
  BY <1>2, <1>3 DEF Walks, Put
<1> HIDE DEF i, h, t, n, T
<1>5. n \in Memories /\ \A f \in Frames \ w.tables, j \in Index : n[f][j] = h[f][j]
  BY <1>1, <1>2, Written DEF n
<1>6. TableAt(n, T, b, r, big, t, k, Top(k, v))
  BY <1>1, <1>2, LeafWritten DEF n
<1>7. d \in Walks /\ d.mem = n /\ d.free = w.free /\ d.tables = w.tables /\ d.at = t
  BY <1>2, <1>5 DEF Walks
<1> HIDE DEF d
<1>8. Reached(d, k, Top(k, v), b, r, big, lost)
  BY <1>2, <1>6, <1>7 DEF Reached, T
<1>9. Takes(w, d)
  BY <1>5, <1>7 DEF Takes, h
<1> QED BY <1>4, <1>8, <1>9 DEF i

\* What a caller may ask for: no page of it is for user mode or named large.
AskedFlags == SUBSET {"P", "W", "NX", "CD"}

LEMMA LeafFits ==
  ASSUME NEW f \in Frames, NEW flags \in AskedFlags, NEW v \in Pages, NEW b, NEW big
  PROVE  /\ b[v] = Asked(f, flags) => LeafGood(Entry(f, flags \cup {"P"}), 1, v, b, big)
         /\ /\ f % E = 0 /\ Prefix(2, v) \in big
            /\ \A u \in Pages : Prefix(2, u) = Prefix(2, v) => b[u] = Asked(f + IndexOf(1, u), flags)
            => LeafGood(Entry(f, flags \cup {"P", "PS"}), 2, Prefix(2, v), b, big)
<1> DEFINE e1 == Entry(f, flags \cup {"P"})  e2 == Entry(f, flags \cup {"P", "PS"})
<1>1. /\ e1.frame = f /\ e1.flags = flags \cup {"P"}
      /\ e2.frame = f /\ e2.flags = flags \cup {"P", "PS"}
  BY DEF Entry
<1> HIDE DEF e1, e2
<1>2. /\ Present(e1) /\ "PS" \notin e1.flags /\ "U" \notin e1.flags
      /\ Present(e2) /\ "PS" \in e2.flags /\ "U" \notin e2.flags
      /\ e1.flags \ {"P", "PS"} = flags \ {"P"} /\ e2.flags \ {"P", "PS"} = flags \ {"P"}
  BY <1>1 DEF AskedFlags, Present
<1>3. ASSUME b[v] = Asked(f, flags) PROVE LeafGood(e1, 1, v, b, big)
  <2>1. Asked(f, flags) = Says(e1, 1, v)
    BY <1>1, <1>2 DEF Asked, Says
  <2>2. \A u \in Pages : Prefix(1, u) = v => u = v
    BY DEF Prefix
  <2> QED BY <1>2, <1>3, <2>1, <2>2 DEF LeafGood, Ends
<1>4. ASSUME f % E = 0, Prefix(2, v) \in big,
             \A u \in Pages : Prefix(2, u) = Prefix(2, v) => b[u] = Asked(f + IndexOf(1, u), flags)
      PROVE  LeafGood(e2, 2, Prefix(2, v), b, big)
  <2>1. ASSUME NEW u \in Pages, Prefix(2, u) = Prefix(2, v) PROVE b[u] = Says(e2, 2, u)
    BY <1>1, <1>2, <1>4, <2>1 DEF Asked, Says
  <2> QED BY <1>1, <1>2, <1>4, <2>1 DEF LeafGood, Ends, NamesTable
<1> QED BY <1>3, <1>4 DEF e1, e2

LEMMA TopOfPrefix ==
  ASSUME NEW v \in Pages
  PROVE  /\ Top(4, v) = 0 /\ Top(3, v) = Prefix(4, v) /\ Top(2, v) = Prefix(3, v)
         /\ Top(1, v) = Prefix(2, v) /\ Prefix(1, v) = v
BY DEF Top, Prefix

LEMMA MapPageKeeps ==
  ASSUME NEW w, NEW a, NEW b, NEW r, NEW big, NEW lost, Reached(w, 4, 0, a, r, big, lost),
         NEW v \in Pages, Prefix(2, v) \notin big, NEW f \in Frames, NEW flags \in AskedFlags,
         b[v] = Asked(f, flags), \A u \in Pages \ {v} : b[u] = a[u]
  PROVE  LET d == MapPage(w, v, f, flags) IN
         /\ Takes(w, d)
         /\ Stopped(d, a, r, big, lost) \/ Reached(d, 1, Prefix(2, v), b, r, big, lost)
<1> DEFINE tf == {"P", "W", "U"}
           pdpt == Down(w, IndexOf(4, v), tf)
           pd == Down(pdpt, IndexOf(3, v), tf)
           pt == Down(pd, IndexOf(2, v), tf)
           e == Entry(f, flags \cup {"P"})
           d == Write(pt, IndexOf(1, v), e)
<1>1. MapPage(w, v, f, flags) = d
  BY IndexFacts DEF MapPage
<1>2. tf \in TableFlags /\ e \in [frame : Frames, flags : SUBSET {"P", "W", "U", "NX", "CD", "PS"}]
  BY DEF TableFlags, AskedFlags, Entry
<1>3. LeafGood(e, 1, v, b, big)
  BY LeafFits
<1> HIDE DEF tf, e
<1>4. Arrived(w, 4, v, a, r, big, lost)
  BY TopOfPrefix DEF Arrived
<1>5. Arrived(pdpt, 3, v, a, r, big, lost) /\ Takes(w, pdpt)
  BY <1>2, <1>4, StepDown
<1> HIDE DEF pdpt
<1>6. Arrived(pd, 2, v, a, r, big, lost) /\ Takes(pdpt, pd)
  BY <1>2, <1>5, StepDown
<1> HIDE DEF pd
<1>7. Arrived(pt, 1, v, a, r, big, lost) /\ Takes(pd, pt)
  BY <1>2, <1>6, StepDown
<1> HIDE DEF pt
<1>8. Takes(w, pt)
  BY <1>5, <1>6, <1>7, TakesFacts
<1>9. CASE Stopped(pt, a, r, big, lost)
  <2>1. d = pt
    BY <1>9, StaysStopped
  <2> QED BY <1>1, <1>8, <1>9, <2>1
<1>10. CASE Reached(pt, 1, Top(1, v), a, r, big, lost)
  <2>1. LeafGood(e, 1, Prefix(1, v), b, big) /\ OnlyAt(1, Prefix(1, v), a, b)
    BY <1>3 DEF OnlyAt, Prefix
  <2>2. Reached(d, 1, Top(1, v), b, r, big, lost) /\ Takes(pt, d)
    BY <1>2, <1>10, <2>1, WriteKeeps
  <2> HIDE DEF d
  <2> QED BY <1>1, <1>8, <2>2, TakesFacts, TopOfPrefix
<1> QED BY <1>7, <1>9, <1>10 DEF Arrived

\* The same for the large page of v: one more of them, and perhaps a table less.
ReachedLarge(w, v, b, r, big, lost) ==
  \E gone : /\ Reached(w, 2, Top(2, v), b, r, big \cup {Prefix(2, v)}, gone)
            /\ Prefix(2, v) \in big => gone = lost
LEMMA WriteLarge ==
  ASSUME NEW w, NEW v \in Pages, NEW a, NEW b, NEW r, NEW big, NEW lost,
         Reached(w, 2, Top(2, v), a, r, big, lost),
         NEW e \in [frame : Frames, flags : SUBSET {"P", "W", "U", "NX", "CD", "PS"}],
         LeafGood(e, 2, Prefix(2, v), b, big \cup {Prefix(2, v)}), OnlyAt(2, Prefix(2, v), a, b)
  PROVE  /\ Takes(w, Write(w, IndexOf(2, v), e))
         /\ ReachedLarge(Write(w, IndexOf(2, v), e), v, b, r, big, lost)
<1> DEFINE i == IndexOf(2, v)  h == w.mem  t == w.at  n == Put(h, t, i, e)
           T == w.tables \ lost  y == Prefix(2, v)  B == big \cup {y}
           d == [mem |-> n, free |-> w.free, tables |-> w.tables, at |-> t]
<1>1. i \in Index /\ Top(2, v) \in Nat /\ Slot(Top(2, v), i) = y
  <2>1. 2 \in 1 .. 4
    OBVIOUS
  <2> QED BY <2>1, TopFacts
<1>2. /\ w \in Walks /\ h \in Memories /\ t \in T /\ t \in w.tables /\ t \in Frames /\ t # NULL
      /\ w.free \cap w.tables = {} /\ lost \subseteq w.tables
      /\ TableAt(h, T, a, r, big, t, 2, Top(2, v))
  BY VmmAssumption DEF Reached, Walks
<1>3. Write(w, i, e) = [w EXCEPT !.mem[t][i] = e]
  BY <1>2 DEF Write
<1>4. Write(w, i, e) = d
  BY <1>2, <1>3 DEF Walks, Put
<1>5. LeafGood(e, 2, y, b, B) /\ OnlyAt(2, y, a, b)
  OBVIOUS
<1> HIDE DEF i, h, t, n, T, y, B
<1>6. n \in Memories /\ \A f \in Frames \ w.tables, j \in Index : n[f][j] = h[f][j]
  BY <1>1, <1>2, Written DEF n
<1>7. PICK U \in SUBSET T :
        t \in U /\ TableAt(n, U, b, r, B, t, 2, Top(2, v)) /\ (y \in big => U = T)
  <2> DEFINE x == Top(2, v)
  <2>1. /\ LeafGood(e, 2, Slot(x, i), b, big \cup {Slot(x, i)}) /\ OnlyAt(2, Slot(x, i), a, b)
        /\ TableAt(h, T, a, r, big, t, 2, x) /\ x \in Nat /\ i \in Index
        /\ h \in Memories /\ t \in T
    BY <1>1, <1>2, <1>5 DEF B, Walks
  <2> HIDE DEF x
  <2>2. Enlarged(Put(h, t, i, e), T, b, r, big, t, x, Slot(x, i))
    BY <2>1, LargeWritten
  <2> QED BY <1>1, <2>2 DEF n, B, x, Enlarged
<1>8. d \in Walks /\ d.mem = n /\ d.free = w.free /\ d.tables = w.tables /\ d.at = t
  BY <1>2, <1>6 DEF Walks
<1> DEFINE gone == w.tables \ U
<1>9. w.tables \ gone = U /\ gone \subseteq w.tables /\ (U = T => gone = lost)
  BY <1>2 DEF T
<1> HIDE DEF gone
<1>10. Reached(d, 2, Top(2, v), b, r, B, gone)
  BY <1>2, <1>7, <1>8, <1>9 DEF Reached
<1>11. Takes(w, d)
  BY <1>6, <1>8 DEF Takes, h
<1>12. ReachedLarge(d, v, b, r, big, lost)
  BY <1>7, <1>9, <1>10 DEF y, B, ReachedLarge
<1> QED BY <1>4, <1>11, <1>12 DEF i

LEMMA MapLargePageKeeps ==
  ASSUME NEW w, NEW a, NEW b, NEW r, NEW big, NEW lost, Reached(w, 4, 0, a, r, big, lost),
         NEW v \in Pages, NEW f \in Frames, f % E = 0, NEW flags \in AskedFlags,
         \A u \in Pages : IF Prefix(2, u) = Prefix(2, v)
                          THEN b[u] = Asked(f + IndexOf(1, u), flags) ELSE b[u] = a[u]
  PROVE  LET d == MapLargePage(w, v, f, flags) IN
         /\ Takes(w, d)
         /\ Stopped(d, a, r, big, lost) \/ ReachedLarge(d, v, b, r, big, lost)
<1> DEFINE tf == {"P", "W"} \cup (flags \cap {"U"})
           pdpt == Down(w, IndexOf(4, v), tf)
           pd == Down(pdpt, IndexOf(3, v), tf)
           e == Entry(f, flags \cup {"P", "PS"})
           d == Write(pd, IndexOf(2, v), e)
           B == big \cup {Prefix(2, v)}
<1>1. MapLargePage(w, v, f, flags) = d
  BY IndexFacts DEF MapLargePage
<1>2. tf \in TableFlags
  <2>1. tf = {"P", "W"}
    BY DEF AskedFlags
  <2> QED BY <2>1 DEF TableFlags
<1>3. e \in [frame : Frames, flags : SUBSET {"P", "W", "U", "NX", "CD", "PS"}]
  BY DEF AskedFlags, Entry
<1>4. LeafGood(e, 2, Prefix(2, v), b, B)
  BY LeafFits
<1>5. Arrived(w, 4, v, a, r, big, lost)
  BY TopOfPrefix DEF Arrived
<1> HIDE DEF tf, e, B
<1>6. Arrived(pdpt, 3, v, a, r, big, lost) /\ Takes(w, pdpt)
  <2>1. 4 \in 2 .. 4 /\ 4 # 2 /\ 4 - 1 = 3
    OBVIOUS
  <2> QED BY ONLY <1>2, <1>5, <2>1, v \in Pages, StepDown
<1> HIDE DEF pdpt
<1>7. Arrived(pd, 2, v, a, r, big, lost) /\ Takes(pdpt, pd)
  <2>1. 3 \in 2 .. 4 /\ 3 # 2 /\ 3 - 1 = 2
    OBVIOUS
  <2> QED BY ONLY <1>2, <1>6, <2>1, v \in Pages, StepDown
<1> HIDE DEF pd
<1>8. Takes(w, pd)
  BY <1>6, <1>7, TakesFacts
<1>9. CASE Stopped(pd, a, r, big, lost)
  <2>1. d = pd
    BY <1>9, StaysStopped
  <2> QED BY <1>1, <1>8, <1>9, <2>1
<1>10. CASE Reached(pd, 2, Top(2, v), a, r, big, lost)
  <2>1. OnlyAt(2, Prefix(2, v), a, b)
    BY DEF OnlyAt
  <2>2. LeafGood(e, 2, Prefix(2, v), b, big \cup {Prefix(2, v)})
    BY <1>4 DEF B
  <2>3. Takes(pd, d) /\ ReachedLarge(d, v, b, r, big, lost)
    BY <1>3, <1>10, <2>1, <2>2, WriteLarge
  <2> HIDE DEF d
  <2>4. Takes(w, d)
    BY <1>8, <2>3, TakesFacts
  <2> QED BY <1>1, <2>3, <2>4
<1> QED BY <1>7, <1>9, <1>10 DEF Arrived

(***************************************************************************)
(* What a tree of tables means to the processor, and its shape             *)
(***************************************************************************)
\* What the entry on the path of page v leads to.
LEMMA Descend ==
  ASSUME NEW m, NEW T, NEW lvl, NEW key, NEW a, NEW r, NEW big,
         Tree(m, T, lvl, key, a, r, big), NEW v \in Pages,
         NEW t \in T, key[t] = Top(lvl[t], v)
  PROVE  LET e == m[t][IndexOf(lvl[t], v)] IN
         /\ EntryGood(e, lvl[t], Prefix(lvl[t], v), T, lvl, key, a, big)
         /\ ~Present(e) => a[v] = NULL
         /\ NamesTable(e) /\ lvl[t] # 1 =>
              /\ e.frame \in T /\ lvl[e.frame] = lvl[t] - 1
              /\ key[e.frame] = Top(lvl[e.frame], v) /\ e.flags \in TableFlags
         /\ lvl[t] \in {3, 4} /\ Present(e) => NamesTable(e)
<1> DEFINE k == lvl[t]  i == IndexOf(k, v)  e == m[t][i]
<1>1. lvl \in [T -> 1 .. 4] /\ key \in [T -> Nat] /\ k \in 1 .. 4
  BY DEF Tree
<1>2. i \in Index /\ Slot(key[t], i) = Prefix(k, v)
  BY <1>1, TopFacts
<1>3. EntryGood(e, k, Prefix(k, v), T, lvl, key, a, big)
  BY <1>2 DEF Tree
<1> HIDE DEF k, i, e
<1>4. ~Present(e) => a[v] = NULL
  BY <1>3 DEF EntryGood
<1>5. k \in {3, 4} /\ Present(e) => NamesTable(e)
  BY <1>3 DEF EntryGood, NamesTable
<1>6. ASSUME NamesTable(e), k # 1
      PROVE  /\ e.frame \in T /\ lvl[e.frame] = k - 1
             /\ key[e.frame] = Top(lvl[e.frame], v) /\ e.flags \in TableFlags
  <2>1. /\ e.frame \in T /\ lvl[e.frame] = k - 1 /\ key[e.frame] = Prefix(k, v)
        /\ e.flags \in TableFlags
    BY <1>3, <1>6 DEF EntryGood
  <2>2. Top(k - 1, v) = Prefix(k, v)
    BY <1>1 DEF Top
  <2> QED BY <2>1, <2>2
<1> QED BY <1>3, <1>4, <1>5, <1>6 DEF k, i, e

\* Frames that are no table may be written: the tables mean what they meant.
LEMMA SameTables ==
  ASSUME NEW m, NEW n \in Memories, NEW T, NEW a, NEW r, NEW big, Good(m, T, a, r, big),
         \A t \in T, i \in Index : n[t][i] = m[t][i]
  PROVE  Good(n, T, a, r, big)
<1>1. PICK lvl \in [T -> 1 .. 4], key \in [T -> Nat] : Tree(m, T, lvl, key, a, r, big)
  BY DEF Good
<1>2. ASSUME NEW t \in T, NEW i \in Index
      PROVE  EntryGood(n[t][i], lvl[t], Slot(key[t], i), T, lvl, key, a, big)
  <2>1. EntryGood(m[t][i], lvl[t], Slot(key[t], i), T, lvl, key, a, big)
    BY <1>1 DEF Tree
  <2> QED BY <2>1
<1>3. ASSUME NEW t \in T \ {r} PROVE Named(n, T, lvl, t)
  <2>1. PICK p \in T, i \in Index : lvl[p] # 1 /\ NamesTable(m[p][i]) /\ m[p][i].frame = t
    BY <1>1 DEF Tree, Named
  <2>2. n[p][i] = m[p][i]
    OBVIOUS
  <2> QED BY <2>1, <2>2 DEF Named
<1>4. Tree(n, T, lvl, key, a, r, big)
  <2>1. /\ T \in SUBSET Frames /\ r \in T /\ lvl[r] = 4 /\ key[r] = 0
        /\ \A s, t \in T : lvl[s] = lvl[t] /\ key[s] = key[t] => s = t
    BY <1>1 DEF Tree
  <2>2. \A t \in T, i \in Index :
          EntryGood(n[t][i], lvl[t], Slot(key[t], i), T, lvl, key, a, big)
    BY <1>2
  <2>3. \A t \in T \ {r} : Named(n, T, lvl, t)
    BY <1>3
  <2> QED BY <2>1, <2>2, <2>3 DEF Tree
<1> QED BY <1>4 DEF Good

\* A walk for a page of a large page takes the large page for a table, and what
\* it writes lands in the first of its frames.
Overwrites(w, d, s) ==
  /\ d.free = w.free /\ d.tables = w.tables /\ d.at = s /\ d.mem \in Memories
  /\ \A f \in Frames \ {s}, i \in Index : d.mem[f][i] = w.mem[f][i]
StartsAt(a, v, s) == s \in Frames /\ a[v].frame = s + IndexOf(1, v)

LEMMA MapPageOver ==
  ASSUME NEW w, NEW a, NEW r, NEW big, NEW lost, Reached(w, 4, 0, a, r, big, lost),
         NEW v \in Pages, Prefix(2, v) \in big, a[v] # NULL,
         NEW f \in Frames, NEW flags \in AskedFlags
  PROVE  \E s : StartsAt(a, v, s) /\ Overwrites(w, MapPage(w, v, f, flags), s)
<1> DEFINE T == w.tables \ lost  h == w.mem  tf == {"P", "W", "U"}
           e4 == h[w.at][IndexOf(4, v)]
           e3 == h[e4.frame][IndexOf(3, v)]
           e2 == h[e3.frame][IndexOf(2, v)]
           e == Entry(f, flags \cup {"P"})
           pdpt == Down(w, IndexOf(4, v), tf)
           pd == Down(pdpt, IndexOf(3, v), tf)
           pt == Down(pd, IndexOf(2, v), tf)
           s == e2.frame
           n == Put(h, s, IndexOf(1, v), e)
           d == [mem |-> n, free |-> w.free, tables |-> w.tables, at |-> s]
<1>1. PICK lvl \in [T -> 1 .. 4], key \in [T -> Nat] :
        Tree(h, T, lvl, key, a, r, big) /\ lvl[w.at] = 4 /\ key[w.at] = 0
  BY DEF Reached, TableAt
<1>2. /\ w \in Walks /\ w.at \in T /\ h \in Memories /\ T \in SUBSET Frames /\ w.at # NULL
      /\ NULL \notin Frames
  BY VmmAssumption DEF Reached, Walks
<1>3. w = [mem |-> h, free |-> w.free, tables |-> w.tables, at |-> w.at]
  BY <1>2 DEF Walks
<1>4. MapPage(w, v, f, flags) = Write(pt, IndexOf(1, v), e)
  BY IndexFacts DEF MapPage
<1> HIDE DEF T, h, e4, e3, e2, tf, e
<1>5. Present(e4) /\ e4.frame \in T /\ lvl[e4.frame] = 3 /\ key[e4.frame] = Top(3, v)
  <2>1. key[w.at] = Top(lvl[w.at], v) /\ e4 = h[w.at][IndexOf(lvl[w.at], v)]
    BY <1>1 DEF Top, e4
  <2>2. /\ ~Present(e4) => a[v] = NULL
        /\ NamesTable(e4) => /\ e4.frame \in T /\ lvl[e4.frame] = 4 - 1
                             /\ key[e4.frame] = Top(lvl[e4.frame], v)
        /\ Present(e4) => NamesTable(e4)
    BY ONLY <1>1, <1>2, <2>1, v \in Pages, Descend
  <2> QED BY <2>2
<1>6. Present(e3) /\ e3.frame \in T /\ lvl[e3.frame] = 2 /\ key[e3.frame] = Top(2, v)
  <2>1. key[e4.frame] = Top(lvl[e4.frame], v) /\ e3 = h[e4.frame][IndexOf(lvl[e4.frame], v)]
    BY <1>5 DEF e3
  <2>2. /\ ~Present(e3) => a[v] = NULL
        /\ NamesTable(e3) => /\ e3.frame \in T /\ lvl[e3.frame] = 3 - 1
                             /\ key[e3.frame] = Top(lvl[e3.frame], v)
        /\ Present(e3) => NamesTable(e3)
    BY ONLY <1>1, <1>5, <2>1, v \in Pages, Descend
  <2> QED BY <2>2
<1>7. EntryGood(e2, 2, Prefix(2, v), T, lvl, key, a, big) /\ Present(e2)
  <2>1. key[e3.frame] = Top(lvl[e3.frame], v) /\ e2 = h[e3.frame][IndexOf(lvl[e3.frame], v)]
    BY <1>6 DEF e2
  <2>2. /\ EntryGood(e2, lvl[e3.frame], Prefix(lvl[e3.frame], v), T, lvl, key, a, big)
        /\ ~Present(e2) => a[v] = NULL
    BY ONLY <1>1, <1>6, <2>1, v \in Pages, Descend
  <2> QED BY <1>6, <2>2
<1>8. s \in Frames /\ a[v].frame = s + IndexOf(1, v)
  <2>1. "PS" \in e2.flags
    BY <1>7 DEF EntryGood, NamesTable
  <2>2. a[v] = Says(e2, 2, v) /\ EntryOK(e2)
    BY <1>7, <2>1 DEF EntryGood, IsLeaf
  <2> QED BY <2>2 DEF Says, EntryOK
<1>9. pdpt = [w EXCEPT !.at = e4.frame]
  BY <1>2, <1>5 DEF Down, e4, h
<1> HIDE DEF pdpt
<1>10. pdpt = [mem |-> h, free |-> w.free, tables |-> w.tables, at |-> e4.frame]
  BY <1>3, <1>9
<1>11. pd = [pdpt EXCEPT !.at = e3.frame]
  <2>1. pdpt.mem = h /\ pdpt.at = e4.frame /\ e4.frame # NULL
    BY <1>2, <1>5, <1>10
  <2> QED BY <1>6, <2>1 DEF Down, e3
<1> HIDE DEF pd
<1>12. pd = [mem |-> h, free |-> w.free, tables |-> w.tables, at |-> e3.frame]
  BY <1>10, <1>11
<1>13. pt = [pd EXCEPT !.at = s]
  <2>1. pd.mem = h /\ pd.at = e3.frame /\ e3.frame # NULL
    BY <1>2, <1>6, <1>12
  <2> QED BY <1>7, <2>1 DEF Down, e2
<1> HIDE DEF pt
<1>14. pt = [mem |-> h, free |-> w.free, tables |-> w.tables, at |-> s]
  BY <1>12, <1>13
<1>15. Write(pt, IndexOf(1, v), e) = d
  <2>1. Write(pt, IndexOf(1, v), e) = [pt EXCEPT !.mem[s][IndexOf(1, v)] = e]
    BY <1>2, <1>8, <1>14 DEF Write
  <2> QED BY <1>14, <2>1 DEF Put
<1>16. e \in [frame : Frames, flags : SUBSET {"P", "W", "U", "NX", "CD", "PS"}]
  BY DEF AskedFlags, Entry, e
<1> HIDE DEF s, n
<1>17. n \in Memories /\ \A g \in Frames \ {s}, j \in Index : n[g][j] = h[g][j]
  BY <1>2, <1>8, <1>16, PrefixFacts, Written DEF n
<1>18. Overwrites(w, d, s)
  BY <1>17 DEF Overwrites, h
<1> QED BY <1>4, <1>8, <1>15, <1>18 DEF StartsAt, s

\* An entry of a page, with the tables on its path, gives what was asked.
LEMMA PathFlags ==
  ASSUME NEW e, e.flags \in SUBSET {"P", "W", "U", "NX", "CD", "PS"}, "U" \notin e.flags,
         Present(e), NEW path, \A t \in path : t.flags \in TableFlags
  PROVE  /\ \A t \in path \cup {e} : Present(t)
         /\ {x \in {"W", "U"} : \A t \in path \cup {e} : x \in t.flags}
              \cup {x \in {"NX"} : \E t \in path \cup {e} : x \in t.flags}
              \cup {x \in {"CD"} : \E t \in path \cup {e} : x \in t.flags}
            = e.flags \ {"P", "PS"}
<1> DEFINE A == {x \in {"W", "U"} : \A t \in path \cup {e} : x \in t.flags}
           B == {x \in {"NX"} : \E t \in path \cup {e} : x \in t.flags}
           C == {x \in {"CD"} : \E t \in path \cup {e} : x \in t.flags}
<1>1. \A t \in path : /\ "P" \in t.flags /\ "W" \in t.flags
                      /\ "NX" \notin t.flags /\ "CD" \notin t.flags
  BY DEF TableFlags
<1>2. \A t \in path \cup {e} : Present(t)
  BY <1>1 DEF Present
<1>3. A = e.flags \cap {"W"}
  BY <1>1
<1>4. B = e.flags \cap {"NX"} /\ C = e.flags \cap {"CD"}
  BY <1>1
<1> HIDE DEF A, B, C
<1>5. A \cup B \cup C = e.flags \ {"P", "PS"}
  BY <1>3, <1>4
<1> QED BY <1>2, <1>5 DEF A, B, C

LEMMA RoundDown ==
  ASSUME NEW f \in Nat, f % E = 0, NEW i
  PROVE  (f \div E) * E + i = f + i
<1>1. E \in Nat \ {0}
  BY VmmAssumption
<1>2. f = (f \div E) * E
  BY <1>1
<1> QED BY <1>2

LEMMA Walk ==
  ASSUME NEW T, NEW a, NEW big, Good(mem, T, a, pml4, big), nxe = TRUE, NEW v \in Pages
  PROVE  Translate(v) = a[v]
<1>1. PICK lvl \in [T -> 1 .. 4], key \in [T -> Nat] :
        Tree(mem, T, lvl, key, a, pml4, big)
  BY DEF Good
<1> DEFINE e4 == mem[pml4][IndexOf(4, v)]
           e3 == mem[e4.frame][IndexOf(3, v)]
           e2 == mem[e3.frame][IndexOf(2, v)]
           e1 == mem[e2.frame][IndexOf(1, v)]
           Through(path, f) ==
             IF \/ \E e \in path : ~Present(e)
                \/ ~nxe /\ \E e \in path : "NX" \in e.flags
             THEN NULL
             ELSE [frame |-> f,
                   flags |-> {x \in {"W", "U"} : \A e \in path : x \in e.flags}
                     \cup {x \in {"NX"} : \E e \in path : x \in e.flags}
                     \cup {x \in {"CD"} : \E e \in path : x \in e.flags}]
<1>2. Translate(v) =
        CASE ~Present(e4) -> NULL
          [] Present(e4) /\ ~Present(e3) -> NULL
          [] Present(e4) /\ Present(e3) /\ "PS" \in e2.flags ->
               Through({e4, e3, e2}, (e2.frame \div E) * E + IndexOf(1, v))
          [] OTHER -> IF Present(e2) THEN Through({e4, e3, e2, e1}, e1.frame) ELSE NULL
  BY IndexFacts DEF Translate
<1>3. /\ pml4 \in T /\ lvl[pml4] = 4 /\ key[pml4] = Top(lvl[pml4], v)
  BY <1>1 DEF Tree, Top
<1> HIDE DEF e4, e3, e2, e1, Through
<1>4. ~Present(e4) => a[v] = NULL
  BY <1>1, <1>3, Descend DEF e4
<1>5. Present(e4) =>
        /\ e4.frame \in T /\ lvl[e4.frame] = 3 /\ key[e4.frame] = Top(lvl[e4.frame], v)
        /\ e4.flags \in TableFlags
  BY <1>1, <1>3, Descend DEF e4
<1>6. Present(e4) /\ ~Present(e3) => a[v] = NULL
  BY <1>1, <1>5, Descend DEF e3
<1>7. Present(e4) /\ Present(e3) =>
        /\ e3.frame \in T /\ lvl[e3.frame] = 2 /\ key[e3.frame] = Top(lvl[e3.frame], v)
        /\ e3.flags \in TableFlags
  BY <1>1, <1>5, Descend DEF e3
<1>8. CASE ~Present(e4) \/ ~Present(e3)
  BY <1>2, <1>4, <1>6, <1>8
<1>9. CASE Present(e4) /\ Present(e3)
  <2>1. /\ EntryGood(e2, 2, Prefix(2, v), T, lvl, key, a, big)
        /\ ~Present(e2) => a[v] = NULL
    BY <1>1, <1>7, <1>9, Descend DEF e2
  <2>2. EntryOK(e2) /\ e2.frame \in Nat
    BY <2>1, VmmAssumption DEF EntryGood, EntryOK
  <2>3. CASE "PS" \in e2.flags
    <3>1. Translate(v) = Through({e4, e3, e2}, (e2.frame \div E) * E + IndexOf(1, v))
      BY <1>2, <1>9, <2>3
    <3>2. CASE ~Present(e2)
      BY <2>1, <3>1, <3>2 DEF Through
    <3>3. CASE Present(e2)
      <4>1. /\ e2.frame % E = 0 /\ "U" \notin e2.flags /\ a[v] = Says(e2, 2, v)
        BY <2>1, <2>3, <3>3 DEF EntryGood, IsLeaf
      <4>2. /\ e2.flags \in SUBSET {"P", "W", "U", "NX", "CD", "PS"}
            /\ \A t \in {e4, e3} : t.flags \in TableFlags
            /\ {e4, e3} \cup {e2} = {e4, e3, e2}
        BY <1>5, <1>7, <1>9, <2>2 DEF EntryOK
      <4>3. /\ \A t \in {e4, e3, e2} : Present(t)
            /\ {x \in {"W", "U"} : \A t \in {e4, e3, e2} : x \in t.flags}
                  \cup {x \in {"NX"} : \E t \in {e4, e3, e2} : x \in t.flags}
                  \cup {x \in {"CD"} : \E t \in {e4, e3, e2} : x \in t.flags}
                = e2.flags \ {"P", "PS"}
        <5> DEFINE path == {e4, e3}
        <5>1. \A t \in path : t.flags \in TableFlags
          BY <4>2
        <5> HIDE DEF path
        <5>2. /\ \A t \in path \cup {e2} : Present(t)
              /\ {x \in {"W", "U"} : \A t \in path \cup {e2} : x \in t.flags}
                    \cup {x \in {"NX"} : \E t \in path \cup {e2} : x \in t.flags}
                    \cup {x \in {"CD"} : \E t \in path \cup {e2} : x \in t.flags}
                  = e2.flags \ {"P", "PS"}
          BY <3>3, <4>1, <4>2, <5>1, PathFlags
        <5>3. path \cup {e2} = {e4, e3, e2}
          BY DEF path
        <5> QED BY <5>2, <5>3
      <4>4. Through({e4, e3, e2}, (e2.frame \div E) * E + IndexOf(1, v)) =
              [frame |-> (e2.frame \div E) * E + IndexOf(1, v), flags |-> e2.flags \ {"P", "PS"}]
        BY <4>3 DEF Through
      <4>5. (e2.frame \div E) * E + IndexOf(1, v) = e2.frame + IndexOf(1, v)
        BY <2>2, <4>1, RoundDown
      <4>6. Says(e2, 2, v) =
              [frame |-> e2.frame + IndexOf(1, v), flags |-> e2.flags \ {"P", "PS"}]
        BY DEF Says
      <4> QED BY ONLY <3>1, <4>1, <4>4, <4>5, <4>6
    <3> QED BY <3>2, <3>3
  <2>4. CASE "PS" \notin e2.flags /\ ~Present(e2)
    BY <1>2, <1>9, <2>1, <2>4
  <2>5. CASE "PS" \notin e2.flags /\ Present(e2)
    <3>1. /\ e2.frame \in T /\ lvl[e2.frame] = 1 /\ key[e2.frame] = Top(lvl[e2.frame], v)
          /\ e2.flags \in TableFlags
      BY <1>1, <1>7, <1>9, <2>5, Descend DEF e2, NamesTable
    <3>2. /\ EntryGood(e1, 1, Prefix(1, v), T, lvl, key, a, big)
          /\ ~Present(e1) => a[v] = NULL
      BY <1>1, <3>1, Descend DEF e1
    <3>3. Translate(v) = Through({e4, e3, e2, e1}, e1.frame)
      BY <1>2, <1>9, <2>5
    <3>4. CASE ~Present(e1)
      BY <3>2, <3>3, <3>4 DEF Through
    <3>5. CASE Present(e1)
      <4>1. /\ e1.flags \in SUBSET {"P", "W", "U", "NX", "CD", "PS"}
            /\ "U" \notin e1.flags /\ a[v] = Says(e1, 1, v)
        BY <3>2, <3>5 DEF EntryGood, IsLeaf, EntryOK
      <4>2. /\ \A t \in {e4, e3, e2, e1} : Present(t)
            /\ {x \in {"W", "U"} : \A t \in {e4, e3, e2, e1} : x \in t.flags}
                  \cup {x \in {"NX"} : \E t \in {e4, e3, e2, e1} : x \in t.flags}
                  \cup {x \in {"CD"} : \E t \in {e4, e3, e2, e1} : x \in t.flags}
                = e1.flags \ {"P", "PS"}
        <5> DEFINE path == {e4, e3, e2}
        <5>1. \A t \in path : t.flags \in TableFlags
          BY <1>5, <1>7, <1>9, <3>1
        <5> HIDE DEF path
        <5>2. /\ \A t \in path \cup {e1} : Present(t)
              /\ {x \in {"W", "U"} : \A t \in path \cup {e1} : x \in t.flags}
                    \cup {x \in {"NX"} : \E t \in path \cup {e1} : x \in t.flags}
                    \cup {x \in {"CD"} : \E t \in path \cup {e1} : x \in t.flags}
                  = e1.flags \ {"P", "PS"}
          BY <3>5, <4>1, <5>1, PathFlags
        <5>3. path \cup {e1} = {e4, e3, e2, e1}
          BY DEF path
        <5> QED BY <5>2, <5>3
      <4>3. Through({e4, e3, e2, e1}, e1.frame) =
              [frame |-> e1.frame, flags |-> e1.flags \ {"P", "PS"}]
        BY <4>2 DEF Through
      <4> QED BY <3>3, <4>1, <4>3 DEF Says
    <3> QED BY <3>4, <3>5
  <2> QED BY <2>3, <2>4, <2>5
<1> QED BY <1>8, <1>9

\* The tables of each level are those the level above names.
LEMMA Levels ==
  ASSUME NEW T, NEW lvl, NEW key, NEW a, NEW r, NEW big, Tree(mem, T, lvl, key, a, r, big)
  PROVE  LET At(k) == {t \in T : lvl[t] = k} IN
         /\ At(4) = {r} /\ \A k \in 2 .. 4 : Below(At(k)) = At(k - 1)
         /\ T = (At(4) \cup At(3) \cup At(2)) \cup At(1)
<1> DEFINE At(k) == {t \in T : lvl[t] = k}
<1>1. lvl \in [T -> 1 .. 4] /\ r \in T /\ lvl[r] = 4
  BY DEF Tree
<1>2. ASSUME NEW t \in T \ {r}
      PROVE  \E p \in T, i \in Index :
               /\ lvl[p] # 1 /\ NamesTable(mem[p][i]) /\ mem[p][i].frame = t
               /\ lvl[t] = lvl[p] - 1
  <2>1. PICK p \in T, i \in Index :
          lvl[p] # 1 /\ NamesTable(mem[p][i]) /\ mem[p][i].frame = t
    BY DEF Tree, Named
  <2>2. lvl[t] = lvl[p] - 1
    BY <2>1 DEF Tree, EntryGood
  <2> QED BY <2>1, <2>2
<1>3. At(4) = {r}
  <2>1. ASSUME NEW t \in T, lvl[t] = 4, t # r PROVE FALSE
    <3>1. PICK p \in T : lvl[t] = lvl[p] - 1
      BY <1>2, <2>1
    <3> QED BY <1>1, <2>1, <3>1
  <2> QED BY <1>1, <2>1
<1>4. ASSUME NEW k \in 2 .. 4 PROVE Below(At(k)) = At(k - 1)
  <2>1. ASSUME NEW t \in At(k), NEW i \in Index, NamesTable(mem[t][i])
        PROVE  mem[t][i].frame \in At(k - 1)
    <3>1. EntryGood(mem[t][i], lvl[t], Slot(key[t], i), T, lvl, key, a, big)
      BY DEF Tree
    <3> QED BY <2>1, <3>1 DEF EntryGood
  <2>2. ASSUME NEW t \in At(k - 1)
        PROVE  \E p \in At(k), i \in Index : NamesTable(mem[p][i]) /\ mem[p][i].frame = t
    <3>1. t \in T \ {r} /\ lvl[t] = k - 1
      BY <1>1
    <3>2. PICK p \in T, i \in Index :
            /\ lvl[p] # 1 /\ NamesTable(mem[p][i]) /\ mem[p][i].frame = t
            /\ lvl[t] = lvl[p] - 1
      BY <1>2, <3>1
    <3>3. lvl[p] = k
      BY <1>1, <3>1, <3>2
    <3> QED BY <3>2, <3>3
  <2> HIDE DEF At
  <2>3. ASSUME NEW x \in Below(At(k)) PROVE x \in At(k - 1)
    <3>1. PICK t \in At(k) : x \in Children(t)
      BY DEF Below
    <3>2. PICK i \in Index : NamesTable(mem[t][i]) /\ mem[t][i].frame = x
      BY <3>1 DEF Children
    <3> QED BY <2>1, <3>2
  <2>4. ASSUME NEW x \in At(k - 1) PROVE x \in Below(At(k))
    <3>1. PICK p \in At(k), i \in Index : NamesTable(mem[p][i]) /\ mem[p][i].frame = x
      BY <2>2
    <3>2. x \in Children(p)
      BY <3>1 DEF Children
    <3> QED BY <3>2 DEF Below
  <2> QED BY <2>3, <2>4
<1>5. T = (At(4) \cup At(3) \cup At(2)) \cup At(1)
  BY <1>1
<1> QED BY <1>3, <1>4, <1>5

\* Each table but the top one is named once.
LEMMA NamedOnce ==
  ASSUME NEW T, NEW lvl, NEW key, NEW a, NEW r, NEW big, Tree(mem, T, lvl, key, a, r, big),
         NEW S, S = {t \in T : lvl[t] # 1}
  PROVE  Cardinality(References(S)) = Cardinality(T) - 1
<1> DEFINE R == References(S)
           h == [x \in R |-> mem[x[1]][x[2]].frame]
           D == T \ {r}
<1>1. /\ lvl \in [T -> 1 .. 4] /\ key \in [T -> Nat]
      /\ r \in T /\ lvl[r] = 4
      /\ \A p, q \in T : lvl[p] = lvl[q] /\ key[p] = key[q] => p = q
  BY DEF Tree
<1>2. IsFiniteSet(T) /\ IsFiniteSet(D) /\ Cardinality(D) = Cardinality(T) - 1
  <2>1. T \in SUBSET Frames
    BY DEF Tree
  <2>2. IsFiniteSet(T)
    BY <2>1, FS_Subset, VmmAssumption
  <2> QED BY <1>1, <2>2, FS_RemoveElement
<1>3. ASSUME NEW x \in R
      PROVE  /\ x[1] \in T /\ x[2] \in Index /\ lvl[x[1]] # 1 /\ x = <<x[1], x[2]>>
             /\ NamesTable(mem[x[1]][x[2]])
  BY DEF References
<1>4. ASSUME NEW p \in T, NEW i \in Index, lvl[p] # 1, NamesTable(mem[p][i])
      PROVE  <<p, i>> \in R
  BY <1>4 DEF References
<1> HIDE DEF R
<1>5. ASSUME NEW x \in R
      PROVE  /\ h[x] \in D /\ lvl[h[x]] = lvl[x[1]] - 1 /\ key[h[x]] = Slot(key[x[1]], x[2])
  <2>1. EntryGood(mem[x[1]][x[2]], lvl[x[1]], Slot(key[x[1]], x[2]), T, lvl, key, a, big)
    BY <1>3 DEF Tree
  <2>2. /\ h[x] \in T /\ lvl[h[x]] = lvl[x[1]] - 1 /\ key[h[x]] = Slot(key[x[1]], x[2])
    BY <1>3, <2>1 DEF EntryGood
  <2>3. h[x] # r
    BY <1>1, <1>3, <2>2
  <2> QED BY <2>2, <2>3
<1>6. ASSUME NEW x \in R, NEW z \in R, h[x] = h[z] PROVE x = z
  <2>1. lvl[x[1]] = lvl[z[1]] /\ Slot(key[x[1]], x[2]) = Slot(key[z[1]], z[2])
    <3>1. lvl[x[1]] - 1 = lvl[z[1]] - 1 /\ Slot(key[x[1]], x[2]) = Slot(key[z[1]], z[2])
      BY <1>5, <1>6
    <3> QED BY <1>1, <1>3, <3>1
  <2>2. key[x[1]] = key[z[1]] /\ x[2] = z[2]
    BY <1>1, <1>3, <2>1, SlotFacts
  <2>3. x[1] = z[1]
    BY <1>1, <1>3, <2>1, <2>2
  <2> QED BY <1>3, <2>2, <2>3
<1>7. ASSUME NEW t \in D PROVE \E x \in R : h[x] = t
  <2>1. PICK p \in T, i \in Index : lvl[p] # 1 /\ NamesTable(mem[p][i]) /\ mem[p][i].frame = t
    BY DEF Tree, Named
  <2>2. <<p, i>> \in R
    BY <1>4, <2>1
  <2> QED BY <2>1, <2>2
<1>8. h \in Injection(R, D) /\ h \in Surjection(R, D)
  <2>1. h \in [R -> D]
    BY <1>5
  <2> HIDE DEF h, D
  <2>2. \A x, z \in R : h[x] = h[z] => x = z
    BY <1>6
  <2>3. \A t \in D : \E x \in R : h[x] = t
    BY <1>7
  <2>4. h \in Injection(R, D)
    BY ONLY <2>1, <2>2 DEF Injection, IsInjective
  <2>5. h \in Surjection(R, D)
    BY ONLY <2>1, <2>3 DEF Surjection
  <2> QED BY <2>4, <2>5
<1>9. Cardinality(R) = Cardinality(D)
  <2> HIDE DEF h, D
  <2> QED BY <1>2, <1>8, FS_Injection
<1> QED BY <1>2, <1>9 DEF R

\* The frames S are a tree of tables with root pml4, each but it named once.
IsTree(S) ==
  LET PDPTs == Below({pml4})  PDs == Below(PDPTs)  PTs == Below(PDs)
      above == {pml4} \cup PDPTs \cup PDs
  IN  above \cup PTs = S /\ Cardinality(References(above)) = Cardinality(S) - 1

LEMMA TreeIsExact ==
  ASSUME NEW T, NEW a, NEW big, Good(mem, T, a, pml4, big)
  PROVE  IsTree(T)
<1>1. PICK lvl \in [T -> 1 .. 4], key \in [T -> Nat] :
        Tree(mem, T, lvl, key, a, pml4, big)
  BY DEF Good
<1> DEFINE At(k) == {t \in T : lvl[t] = k}
           above == At(4) \cup At(3) \cup At(2)
<1>2. /\ At(4) = {pml4} /\ Below(At(4)) = At(3) /\ Below(At(3)) = At(2) /\ Below(At(2)) = At(1)
      /\ T = above \cup At(1)
  <2>1. \A k \in 2 .. 4 : Below(At(k)) = At(k - 1)
    BY <1>1, Levels
  <2>2. At(4) = {pml4} /\ T = above \cup At(1)
    BY <1>1, Levels
  <2>3. Below(At(4)) = At(4 - 1) /\ Below(At(3)) = At(3 - 1) /\ Below(At(2)) = At(2 - 1)
    BY ONLY <2>1
  <2> QED BY <2>2, <2>3
<1>3. above = {t \in T : lvl[t] # 1}
  BY <1>1 DEF Tree
<1>4. Cardinality(References(above)) = Cardinality(T) - 1
  <2> HIDE DEF At, above
  <2> QED BY <1>1, <1>3, NamedOnce
<1> HIDE DEF At
<1> QED BY <1>2, <1>4 DEF IsTree

(***************************************************************************)
(* The invariant                                                           *)
(***************************************************************************)
\* The large pages there may be: those a part of the space can hold whole, in
\* aligned frames.
LargeIn(p, b) == p.first <= b * E /\ b * E + E <= p.end /\ (b * E + p.shift) % E = 0
Large(m) == {b \in Nat : \E p \in Parts(m) : LargeIn(p, b)}

\* Range r is what remains of part p: no large page of p is begun and not done.
Rest(r, p) ==
  /\ r.virt \in Int /\ r.length \in Int /\ r.flags = p.flags \cup {"P"}
  /\ r.phys = r.virt + p.shift /\ p.first <= r.virt /\ r.virt + r.length = p.end
  /\ r.virt % E = 0 \/ ~LargeIn(p, r.virt \div E)

Extents == [virt : Int, phys : Int, length : Int, flags : SUBSET {"P", "W", "NX"}]

\* What a part asks of its page v, and what a device's page is asked in its place.
PartSays(p, v) == [frame |-> v + p.shift, flags |-> p.flags]
Uncached(p, v) == [frame |-> v + p.shift, flags |-> p.flags \cup {"CD"}]
Settled(p, v) ==
  \/ asked[v] = PartSays(p, v)
  \/ v \in DevicePages(machine) /\ cr3 # NULL /\ asked[v] = Uncached(p, v)

\* What the tables say when b is what was asked for: Granted, of any b.
Plain(x) == [frame |-> x.frame, flags |-> x.flags \ {"CD"}]
Told(m, b) == [v \in Pages |->
  IF b[v] # NULL /\ Prefix(2, v) \in Large(m) THEN Plain(b[v]) ELSE b[v]]

\* Large page x is still to come: a range holds it whole, in aligned frames.
Pending(td, x) == \E i \in DOMAIN td :
  /\ td[i].virt <= x * E /\ x * E + E <= td[i].virt + td[i].length
  /\ (x * E + (td[i].phys - td[i].virt)) % E = 0

\* The frames S of memory h hold a tree that says what b asks, where big are the
\* blocks that are large pages, and the tables lost were in their place.
Fits(m, h, S, b, r, big) ==
  \E lost \in SUBSET S : /\ Good(h, S \ lost, Told(m, b), r, big)
                         /\ Apart(m) => lost = {}
\* Which blocks those are. Where no parts overlap nothing but a large page is ever
\* asked of a block that can be one.
Done(m, b, big, td) ==
  /\ big \subseteq Large(m) /\ (Apart(m) => big = Large(m))
  /\ Apart(m) \/ \A v \in Pages : Prefix(2, v) \in big => b[v] # NULL
  /\ \A x \in Large(m) : x \in big \/ Pending(td, x)
Stands(m, h, S, b, r, td) == \E big : Fits(m, h, S, b, r, big) /\ Done(m, b, big, td)
InTodo(v) == \E i \in DOMAIN todo : v \in todo[i].virt .. todo[i].virt + todo[i].length - 1

Typing ==
  /\ machine \in Machines /\ mem \in Memories
  /\ asked \in [Pages -> [frame : Frames, flags : AskedFlags] \cup {NULL}]
  /\ pml4 \in Frames \cup {NULL} /\ cr3 \in {NULL, pml4} /\ nxe \in BOOLEAN
  /\ pml4 # NULL => nxe = TRUE
  /\ devices \in Seq({machine.lapic, machine.ioapic}) /\ panic \in BOOLEAN
  /\ todo \in Seq(Extents)
\* Nobody has the frame of another.
Owned ==
  /\ free \subseteq machine.free /\ tables \subseteq machine.free /\ held \subseteq machine.free
  /\ free \cap tables = {} /\ free \cap held = {} /\ tables \cap held = {}
Untouched ==
  \A f \in Frames \ (tables \cup Overlaid(machine)), i \in Index : mem[f][i] = Junk
Blank == pml4 = NULL =>
  /\ tables = {} /\ held = {} /\ todo = <<>>
  /\ \A f \in Frames : \A i \in Index : mem[f][i] = Junk
  /\ \A v \in Pages : asked[v] = NULL
Built == pml4 # NULL => Stands(machine, mem, tables, asked, pml4, todo)
Todo ==
  /\ \A i \in DOMAIN todo : \E p \in Parts(machine) : Rest(todo[i], p)
  /\ cr3 # NULL => todo = <<>>
Covered == pml4 # NULL =>
  \A p \in Parts(machine) : \A v \in PagesIn(p) :
    Settled(p, v) \/ (asked[v] = NULL /\ InTodo(v))
Cached ==
  /\ DOMAIN tlb \subseteq HeapPages /\ \A v \in DOMAIN tlb : tlb[v] = asked[v]
  /\ cr3 = NULL => DOMAIN tlb = {}

Space == Built /\ Owned /\ Untouched
Inv == Typing /\ Blank /\ Space /\ Todo /\ Covered /\ Cached

LEMMA PageFacts ==
  ASSUME NEW a \in Nat
  PROVE  PageDown(a) \in Nat /\ PageUp(a) \in Nat /\ PageDown(a) <= PageUp(a)
<1>1. PageBytes \in Nat \ {0}
  BY VmmAssumption
<1> QED BY <1>1 DEF PageDown, PageUp

LEMMA MachineFacts ==
  ASSUME NEW m \in Machines
  PROVE  /\ m.memmap \in Seq([base : Nat, length : Nat, usable : BOOLEAN])
         /\ m.sections \in Seq([start : Nat, end : Nat, flags : SUBSET {"W", "NX"}])
         /\ m.physical_base \in Nat /\ m.virtual_base \in Nat
         /\ m.fb.address \in Nat /\ m.fb.size \in Nat
         /\ m.lapic \in Frames /\ m.ioapic \in Frames /\ m.free \subseteq Frames
         /\ \A f \in m.free : \E p \in UsableParts(m) : \E v \in PagesIn(p) : f = V2P(v)
<1>1. MachineOK(m)
  BY VmmAssumption
<1>2. m \in Reports
  BY <1>1 DEF MachineOK
<1>3. m.fb \in [address : Nat, size : Nat]
  BY <1>2 DEF Reports
<1>4. \A f \in m.free : \E p \in UsableParts(m) : \E v \in PagesIn(p) : f = V2P(v)
  BY <1>1 DEF MachineOK
<1> QED BY <1>2, <1>3, <1>4 DEF Reports

\* What the bootloader reports is in the sets the parts are made from.
LEMMA ReportFacts ==
  ASSUME NEW m \in Machines
  PROVE  /\ \A e \in Range(m.memmap) : e \in [base : Nat, length : Nat, usable : BOOLEAN]
         /\ \A s \in Range(m.sections) :
              s \in [start : Nat, end : Nat, flags : SUBSET {"W", "NX"}]
<1> DEFINE s == m.memmap  t == m.sections
           A == [base : Nat, length : Nat, usable : BOOLEAN]
           B == [start : Nat, end : Nat, flags : SUBSET {"W", "NX"}]
<1>1. s \in Seq(A) /\ t \in Seq(B)
  BY MachineFacts
<1> HIDE DEF s, t, A, B
<1>2. (\A i \in DOMAIN s : s[i] \in A) /\ \A i \in DOMAIN t : t[i] \in B
  BY <1>1
<1>3. (\A e \in Range(s) : e \in A) /\ \A e \in Range(t) : e \in B
  BY <1>2 DEF Range
<1> QED BY <1>3 DEF s, t, A, B

\* The bounds of a part.
PartOK(p) ==
  /\ p.first \in Nat /\ p.end \in Nat /\ p.shift \in Int /\ p.flags \in SUBSET {"W", "NX"}
InDirectMap(p) == p.shift = -Hhdm /\ p.flags = {"W"}

LEMMA PartBounds ==
  ASSUME NEW m \in Machines
  PROVE  /\ \A e \in [base : Nat, length : Nat, usable : BOOLEAN] :
              PartOK(MemoryPart(e)) /\ InDirectMap(MemoryPart(e))
         /\ \A s \in [start : Nat, end : Nat, flags : SUBSET {"W", "NX"}] :
              PartOK(SectionPart(m, s))
         /\ PartOK(FramebufferPart(m)) /\ InDirectMap(FramebufferPart(m))
<1>1. Hhdm \in Nat /\ -Hhdm \in Int
  BY VmmAssumption
<1>2. ASSUME NEW e \in [base : Nat, length : Nat, usable : BOOLEAN]
      PROVE  PartOK(MemoryPart(e)) /\ InDirectMap(MemoryPart(e))
  <2>1. e.base \in Nat /\ e.base + e.length \in Nat
    OBVIOUS
  <2>2. PageDown(e.base) \in Nat /\ PageUp(e.base + e.length) \in Nat
    BY <2>1, PageFacts
  <2> QED BY <1>1, <2>2 DEF MemoryPart, Part, P2V, PartOK, InDirectMap
<1>3. ASSUME NEW s \in [start : Nat, end : Nat, flags : SUBSET {"W", "NX"}]
      PROVE  PartOK(SectionPart(m, s))
  <2>1. PageDown(s.start) \in Nat /\ PageUp(s.end) \in Nat
    BY PageFacts
  <2>2. m.physical_base - m.virtual_base \in Int
    BY MachineFacts
  <2> QED BY <2>1, <2>2 DEF SectionPart, Part, PartOK
<1>4. PartOK(FramebufferPart(m)) /\ InDirectMap(FramebufferPart(m))
  <2>1. m.fb.address \in Nat /\ m.fb.address + m.fb.size \in Nat
    BY MachineFacts
  <2> QED BY <1>1, <2>1, PageFacts DEF FramebufferPart, Part, PartOK, InDirectMap
<1> QED BY <1>2, <1>3, <1>4

\* A part has its bounds. Only parts of the direct map share pages, and they agree
\* on those they share; the devices' are no part's or theirs.
LEMMA PartFacts ==
  ASSUME NEW m \in Machines
  PROVE  /\ \A p \in Parts(m) :
              /\ p.first \in Nat /\ p.end \in Nat /\ p.shift \in Int
              /\ p.flags \in SUBSET {"W", "NX"}
              /\ \A v \in PagesIn(p) : v \in Pages /\ v + p.shift \in Frames /\ v \notin HeapPages
              /\ p \in Exclusive(m) \/ InDirectMap(p)
         /\ Exclusive(m) \subseteq Parts(m)
         /\ \A p \in Exclusive(m), q \in Parts(m) : \A v \in PagesIn(p) : v \in PagesIn(q) => q = p
         /\ \A p, q \in Parts(m) : \A v \in PagesIn(p) :
              v \in PagesIn(q) => p.shift = q.shift /\ p.flags = q.flags
         /\ \A v \in DevicePages(m) : v \in Pages /\ \A p \in Exclusive(m) : v \notin PagesIn(p)
<1>1. MachineOK(m)
  BY VmmAssumption
<1>2. /\ \A p \in Parts(m) : \A v \in PagesIn(p) :
           v \in Pages /\ v + p.shift \in Frames /\ v \notin HeapPages
      /\ \A p \in Exclusive(m) : \A q \in Parts(m) \ {p} : PagesIn(p) \cap PagesIn(q) = {}
      /\ \A v \in DevicePages(m) : v \in Pages /\ \A p \in Exclusive(m) : v \notin PagesIn(p)
  BY <1>1 DEF MachineOK
<1>3. Exclusive(m) \subseteq Parts(m)
  BY DEF Exclusive, UsableParts, SectionParts, Parts
<1>4. ASSUME NEW p \in Parts(m) PROVE PartOK(p) /\ (p \in Exclusive(m) \/ InDirectMap(p))
  <2>1. \/ \E e \in Range(m.memmap) : p = MemoryPart(e)
        \/ \E s \in Range(m.sections) : p = SectionPart(m, s)
        \/ p = FramebufferPart(m)
    BY DEF Parts
  <2>2. ASSUME NEW s \in Range(m.sections), p = SectionPart(m, s) PROVE p \in Exclusive(m)
    BY <2>2 DEF Exclusive, SectionParts
  <2> QED BY <2>1, <2>2, PartBounds, ReportFacts
<1>5. \A p \in Exclusive(m), q \in Parts(m) : \A v \in PagesIn(p) : v \in PagesIn(q) => q = p
  BY <1>2
<1>6. ASSUME NEW p \in Parts(m), NEW q \in Parts(m), NEW v \in PagesIn(p), v \in PagesIn(q)
      PROVE  p.shift = q.shift /\ p.flags = q.flags
  BY <1>4, <1>5, <1>6 DEF InDirectMap
<1> QED BY <1>2, <1>3, <1>4, <1>5, <1>6 DEF PartOK

LEMMA Division ==
  ASSUME NEW v \in Nat
  PROVE  /\ v \div E \in Nat /\ (v \div E) * E <= v /\ v < (v \div E) * E + E
         /\ v % E = 0 => (v \div E) * E = v
         /\ v % E # 0 => (v + 1) \div E = v \div E \/ (v + 1) % E = 0
         /\ v % E = 0 => (v + E) % E = 0
         /\ v % E \in Index /\ v = (v \div E) * E + (v % E)
<1>1. E \in Nat \ {0}
  BY VmmAssumption
<1> DEFINE q == v \div E  r == v % E
<1>2. q \in Nat /\ r \in 0 .. E - 1 /\ v = E * q + r
  BY <1>1
<1>3. v % E # 0 => (v + 1) \div E = v \div E \/ (v + 1) % E = 0
  BY <1>1
<1>4. v % E = 0 => (v + E) % E = 0
  <2>1. r = 0 => v + E = E * (q + 1)
    BY <1>1, <1>2
  <2> HIDE DEF q, r
  <2>2. E * (q + 1) \in Nat /\ (E * (q + 1)) % E = 0
    BY <1>1, <1>2
  <2> QED BY <2>1, <2>2 DEF r
<1>5. q * E = E * q
  BY <1>1, <1>2
<1> QED BY <1>1, <1>2, <1>3, <1>4, <1>5 DEF Index

\* The pages of a large page are those of one table, all of one part.
LEMMA LargeFacts ==
  ASSUME NEW m \in Machines, NEW v \in Pages
  PROVE  /\ Prefix(2, v) = v \div E
         /\ \A p \in Parts(m) : LargeIn(p, v \div E) => v \in PagesIn(p)
         /\ Prefix(2, v) \in Large(m) => \E p \in Parts(m) : LargeIn(p, v \div E)
<1>1. v \in Nat
  BY VmmAssumption DEF Pages
<1>2. E \in Nat \ {0}
  BY VmmAssumption
<1>3. ASSUME NEW p \in Parts(m), LargeIn(p, v \div E) PROVE v \in PagesIn(p)
  <2>1. v \div E \in Nat /\ (v \div E) * E <= v /\ v < (v \div E) * E + E
    BY <1>1, Division
  <2>2. p.first \in Nat /\ p.end \in Nat
    BY PartFacts
  <2>3. p.first <= (v \div E) * E /\ (v \div E) * E + E <= p.end
    BY <1>3 DEF LargeIn
  <2>4. \A n \in Nat : p.first <= n /\ n <= v /\ v < n + E /\ n + E <= p.end => v \in PagesIn(p)
    BY <1>1, <1>2, <2>2 DEF PagesIn
  <2>5. (v \div E) * E \in Nat
    BY <1>2, <2>1
  <2> QED BY <2>1, <2>3, <2>4, <2>5
<1>4. Prefix(2, v) = v \div E
  BY DEF Prefix
<1> QED BY <1>3, <1>4 DEF Large

\* A page of no part is in no large page.
LEMMA NotLarge ==
  ASSUME NEW m \in Machines, NEW v \in Pages, \A p \in Parts(m) : v \notin PagesIn(p)
  PROVE  Prefix(2, v) \notin Large(m)
BY LargeFacts

\* The large page a page is in, as Vmm has it and as it is found here.
LEMMA BlockFacts ==
  ASSUME NEW m \in Machines, NEW v \in Pages
  PROVE  /\ LargePage(v) = (v \div E) * E /\ LargePage(v) \in Nat
         /\ v = LargePage(v) + IndexOf(1, v)
         /\ \A p \in Parts(m) : InLargePageOf(p, v) <=> LargeIn(p, v \div E)
         /\ Prefix(2, v) \in Large(m) <=>
              \E p \in Parts(m) : v \in PagesIn(p) /\ InLargePageOf(p, v)
<1>1. v \in Nat
  BY VmmAssumption DEF Pages
<1> DEFINE q == (v \div E) * E
<1>2. v \div E \in Nat /\ q \in Nat /\ v % E \in Nat /\ v = q + (v % E)
  BY <1>1, Division, VmmAssumption DEF Index
<1> HIDE DEF q
<1>3. LargePage(v) = q
  BY <1>1, <1>2 DEF LargePage
<1>4. \A p \in Parts(m) : InLargePageOf(p, v) <=> LargeIn(p, v \div E)
  BY <1>3 DEF InLargePageOf, LargeIn, q
<1>5. Prefix(2, v) \in Large(m) <=>
        \E p \in Parts(m) : v \in PagesIn(p) /\ InLargePageOf(p, v)
  BY <1>2, <1>4, LargeFacts DEF Large
<1>6. IndexOf(1, v) = v % E
  BY DEF IndexOf, Prefix
<1> QED BY <1>2, <1>3, <1>4, <1>5, <1>6 DEF q

\* The first frame of a large page that shares the page v is overlaid.
LEMMA OverlaidHas ==
  ASSUME NEW m \in Machines, NEW v \in Pages, NEW p \in Parts(m), LargeIn(p, v \div E),
         v \in DevicePages(m) \/ \E q \in Parts(m) \ {p} : v \in PagesIn(q)
  PROVE  LargePage(v) + p.shift \in Overlaid(m)
<1>1. v \in PagesIn(p) /\ InLargePageOf(p, v)
  BY LargeFacts, BlockFacts
<1> QED BY <1>1 DEF Overlaid

\* What is overlaid is reserved memory: pmm_alloc_page never gives it.
LEMMA OverlaidReserved ==
  ASSUME NEW m \in Machines
  PROVE  Overlaid(m) \cap m.free = {}
<1> SUFFICES ASSUME NEW p \in Parts(m), NEW v \in PagesIn(p), InLargePageOf(p, v),
                    v \in DevicePages(m) \/ \E q \in Parts(m) \ {p} : v \in PagesIn(q),
                    LargePage(v) + p.shift \in m.free
             PROVE  FALSE
  BY DEF Overlaid
<1>1. p \notin Exclusive(m) /\ v \in Pages
  BY PartFacts
<1>2. p.shift = -Hhdm /\ Hhdm \in Nat /\ p.first \in Nat /\ p.end \in Nat
  BY <1>1, PartFacts, VmmAssumption DEF InDirectMap
<1> DEFINE x == LargePage(v)
<1>3. x \in Nat /\ p.first <= x /\ x + E <= p.end /\ E \in Nat \ {0}
  BY <1>1, BlockFacts, VmmAssumption DEF InLargePageOf
<1>4. PICK q \in UsableParts(m) : \E u \in PagesIn(q) : x + p.shift = V2P(u)
  BY MachineFacts
<1>5. PICK u \in PagesIn(q) : x + p.shift = V2P(u)
  BY <1>4
<1>6. q \in Exclusive(m) /\ q \in Parts(m) /\ u \in Nat
  BY PartFacts, VmmAssumption DEF Exclusive, Pages
<1> HIDE DEF x
<1>7. u = x
  BY <1>2, <1>3, <1>5, <1>6 DEF V2P
<1>8. u \in PagesIn(p)
  BY <1>2, <1>3, <1>7 DEF PagesIn
<1> QED BY <1>1, <1>6, <1>8, PartFacts

\* What is asked of a page is a record, and no NULL.
Asks == [frame : Frames, flags : AskedFlags]
LEMMA AsksFacts ==
  /\ NULL \notin Asks
  /\ \A x \in Asks : Plain(x) \in Asks /\ ("CD" \notin x.flags => Plain(x) = x)
  /\ \A f \in Frames, flags \in AskedFlags : Asked(f, flags) \in Asks
  /\ \A m \in Machines : \A p \in Parts(m) : \A v \in PagesIn(p) :
       PartSays(p, v) \in Asks /\ Uncached(p, v) \in Asks /\ Plain(Uncached(p, v)) = PartSays(p, v)
         /\ Plain(PartSays(p, v)) = PartSays(p, v)
<1>1. Asks \subseteq Entries
  BY DEF Asks, Entries, AskedFlags
<1>2. NULL \notin Asks
  BY <1>1, VmmAssumption
<1>3. ASSUME NEW x \in Asks PROVE Plain(x) \in Asks /\ ("CD" \notin x.flags => Plain(x) = x)
  <2>1. "CD" \notin x.flags => x.flags \ {"CD"} = x.flags
    OBVIOUS
  <2>2. x = [frame |-> x.frame, flags |-> x.flags]
    BY DEF Asks
  <2>3. x.frame \in Frames /\ x.flags \ {"CD"} \in AskedFlags
    BY DEF Asks, AskedFlags
  <2> QED BY <2>1, <2>2, <2>3 DEF Plain, Asks
<1>4. \A f \in Frames, flags \in AskedFlags : Asked(f, flags) \in Asks
  BY DEF Asked, Asks, AskedFlags
<1>5. ASSUME NEW m \in Machines, NEW p \in Parts(m), NEW v \in PagesIn(p)
      PROVE  /\ PartSays(p, v) \in Asks /\ Uncached(p, v) \in Asks
             /\ Plain(Uncached(p, v)) = PartSays(p, v) /\ Plain(PartSays(p, v)) = PartSays(p, v)
  <2>1. v + p.shift \in Frames /\ p.flags \in SUBSET {"W", "NX"}
    BY PartFacts
  <2>2. p.flags \ {"CD"} = p.flags /\ (p.flags \cup {"CD"}) \ {"CD"} = p.flags
    BY <2>1
  <2>3. p.flags \in AskedFlags /\ p.flags \cup {"CD"} \in AskedFlags
    BY <2>1 DEF AskedFlags
  <2> QED BY <2>1, <2>2, <2>3 DEF Plain, PartSays, Uncached, Asks
<1> QED BY <1>2, <1>3, <1>4, <1>5

\* Told, page by page.
LEMMA ToldFacts ==
  ASSUME NEW m \in Machines, NEW b, \A v \in Pages : b[v] \in Asks \cup {NULL}, NEW v \in Pages
  PROVE  /\ Told(m, b)[v] = NULL <=> b[v] = NULL
         /\ Prefix(2, v) \notin Large(m) => Told(m, b)[v] = b[v]
         /\ b[v] # NULL /\ "CD" \notin b[v].flags => Told(m, b)[v] = b[v]
         /\ b[v] # NULL => Told(m, b)[v].frame = b[v].frame
         /\ Prefix(2, v) \in Large(m) /\ b[v] # NULL => Told(m, b)[v] = Plain(b[v])
<1> DEFINE c == Told(m, b)[v]
<1>1. c = IF b[v] # NULL /\ Prefix(2, v) \in Large(m) THEN Plain(b[v]) ELSE b[v]
  BY DEF Told
<1> HIDE DEF c
<1>2. b[v] # NULL => Plain(b[v]) \in Asks /\ Plain(b[v]) # NULL /\ Plain(b[v]).frame = b[v].frame
        /\ ("CD" \notin b[v].flags => Plain(b[v]) = b[v])
  BY AsksFacts DEF Plain
<1> QED BY <1>1, <1>2 DEF c

(***************************************************************************)
(* The ranges of vmm_init are the parts of the space, each whole.          *)
(***************************************************************************)
Whole(p) == Extent(p.first, p.first + p.shift, p.end - p.first, p.flags \cup {"P"})
Covers(r, v) == v \in r.virt .. r.virt + r.length - 1

LEMMA WholeFacts ==
  ASSUME NEW m \in Machines, NEW p \in Parts(m)
  PROVE  /\ Whole(p) \in Extents /\ Rest(Whole(p), p)
         /\ \A v \in PagesIn(p) : Covers(Whole(p), v)
<1>1. p.first \in Nat /\ p.end \in Nat /\ p.shift \in Int /\ p.flags \in SUBSET {"W", "NX"}
  BY PartFacts
<1> DEFINE r == Whole(p)
<1>2. /\ r.virt = p.first /\ r.phys = p.first + p.shift /\ r.length = p.end - p.first
      /\ r.flags = p.flags \cup {"P"}
  BY DEF Whole, Extent
<1>3. r \in Extents
  BY <1>1 DEF Whole, Extent, Extents
<1> HIDE DEF r
<1>4. r.virt % E = 0 \/ ~LargeIn(p, r.virt \div E)
  <2>1. p.first % E # 0 => (p.first \div E) * E < p.first
    <3> DEFINE q == (p.first \div E) * E  s == p.first % E
    <3>1. E \in Nat /\ p.first \div E \in Nat /\ s \in Index /\ p.first = q + s
      BY <1>1, Division, VmmAssumption
    <3>2. q \in Nat
      BY <3>1
    <3>3. s \in Nat
      BY <3>1 DEF Index
    <3> HIDE DEF q, s
    <3>4. s # 0 => q < p.first
      BY <3>1, <3>2, <3>3
    <3> QED BY <3>4 DEF q, s
  <2>2. (p.first \div E) * E \in Nat
    BY <1>1, Division, VmmAssumption
  <2> QED BY <1>1, <1>2, <2>1, <2>2 DEF LargeIn
<1>5. Rest(r, p)
  BY <1>1, <1>2, <1>4 DEF Rest
<1>6. \A v \in PagesIn(p) : Covers(r, v)
  BY <1>1, <1>2 DEF PagesIn, Covers
<1> QED BY <1>3, <1>5, <1>6 DEF r

Elements(s) == {s[i] : i \in DOMAIN s}
LEMMA Appended ==
  ASSUME NEW S, NEW s \in Seq(S), NEW t \in Seq(S)
  PROVE  s \o t \in Seq(S) /\ Elements(s \o t) = Elements(s) \cup Elements(t)
<1>1. s \o t \in Seq(S)
  OBVIOUS
<1>2. ASSUME NEW i \in DOMAIN (s \o t) PROVE (s \o t)[i] \in Elements(s) \cup Elements(t)
  BY DEF Elements
<1>3. ASSUME NEW i \in DOMAIN s PROVE s[i] \in Elements(s \o t)
  <2>1. i \in DOMAIN (s \o t) /\ (s \o t)[i] = s[i]
    OBVIOUS
  <2> QED BY <2>1 DEF Elements
<1>4. ASSUME NEW i \in DOMAIN t PROVE t[i] \in Elements(s \o t)
  <2>1. Len(s) + i \in DOMAIN (s \o t) /\ (s \o t)[Len(s) + i] = t[i]
    OBVIOUS
  <2> QED BY <2>1 DEF Elements
<1>5. Elements(s) \cup Elements(t) \subseteq Elements(s \o t)
  BY <1>3, <1>4 DEF Elements
<1>6. Elements(s \o t) \subseteq Elements(s) \cup Elements(t)
  <2>1. SUFFICES ASSUME NEW x \in Elements(s \o t) PROVE x \in Elements(s) \cup Elements(t)
    OBVIOUS
  <2>2. PICK i \in DOMAIN (s \o t) : x = (s \o t)[i]
    BY DEF Elements
  <2> QED BY <1>2, <2>2
<1> QED BY <1>1, <1>5, <1>6

\* The bounds are rounded as the parts' are.
LEMMA RangesAreParts ==
  ASSUME NEW m \in Machines
  PROVE  /\ \A e \in [base : Nat, length : Nat, usable : BOOLEAN] : hhdm_range(e) = Whole(MemoryPart(e))
         /\ machine = m =>
              \A s \in [start : Nat, end : Nat, flags : SUBSET {"W", "NX"}] :
                vmm_map_section(s) = Whole(SectionPart(m, s))
         /\ machine = m => vmm_map_framebuffer = <<Whole(FramebufferPart(m))>>
<1>1. Hhdm \in Nat
  BY VmmAssumption
<1>2. ASSUME NEW e \in [base : Nat, length : Nat, usable : BOOLEAN] PROVE hhdm_range(e) = Whole(MemoryPart(e))
  <2> DEFINE x == PageDown(e.base)  y == PageUp(e.base + e.length)
  <2>1. e.base \in Nat /\ e.base + e.length \in Nat
    OBVIOUS
  <2>2. x \in Nat /\ y \in Nat
    BY <2>1, PageFacts
  <2>3. hhdm_range(e) = Extent(x + Hhdm, x, y - x, {"P", "W"})
    BY DEF hhdm_range, P2V
  <2> DEFINE p == MemoryPart(e)
  <2>4. /\ p.first = x + Hhdm /\ p.end = y + Hhdm /\ p.shift = -Hhdm /\ p.flags = {"W"}
    BY DEF MemoryPart, Part, P2V
  <2> HIDE DEF p, x, y
  <2>5. p.first + p.shift = x /\ p.end - p.first = y - x /\ p.flags \cup {"P"} = {"P", "W"}
    BY <1>1, <2>2, <2>4
  <2>6. Whole(p) = Extent(x + Hhdm, x, y - x, {"P", "W"})
    BY <2>4, <2>5 DEF Whole
  <2> QED BY <2>3, <2>6 DEF p
<1>3. ASSUME machine = m, NEW s \in [start : Nat, end : Nat, flags : SUBSET {"W", "NX"}]
      PROVE  vmm_map_section(s) = Whole(SectionPart(m, s))
  <2> DEFINE x == PageDown(s.start)  y == PageUp(s.end)
  <2>1. /\ x \in Nat /\ y \in Nat /\ m.physical_base \in Nat /\ m.virtual_base \in Nat
    BY PageFacts, MachineFacts
  <2>2. vmm_map_section(s) =
          Extent(x, m.physical_base + x - m.virtual_base, y - x, s.flags \cup {"P"})
    BY <1>3 DEF vmm_map_section
  <2>3. Whole(SectionPart(m, s)) =
          Extent(x, x + (m.physical_base - m.virtual_base), y - x, s.flags \cup {"P"})
    BY DEF Whole, SectionPart, Part
  <2> HIDE DEF x, y
  <2>4. m.physical_base + x - m.virtual_base = x + (m.physical_base - m.virtual_base)
    BY <2>1
  <2> QED BY <2>2, <2>3, <2>4
<1>4. ASSUME machine = m PROVE vmm_map_framebuffer = <<Whole(FramebufferPart(m))>>
  <2> DEFINE x == PageDown(m.fb.address)  y == PageUp(m.fb.address + m.fb.size)
  <2>1. x \in Nat
    BY PageFacts, MachineFacts
  <2>2. vmm_map_framebuffer = <<Extent(x, x - Hhdm, y - x, {"P", "W"})>>
    BY <1>4 DEF vmm_map_framebuffer, V2P
  <2>3. Whole(FramebufferPart(m)) = Extent(x, x + (-Hhdm), y - x, {"W"} \cup {"P"})
    BY DEF Whole, FramebufferPart, Part
  <2> HIDE DEF x, y
  <2>4. x + (-Hhdm) = x - Hhdm /\ {"W"} \cup {"P"} = {"P", "W"}
    BY <1>1, <2>1
  <2> QED BY <2>2, <2>3, <2>4
<1> QED BY <1>2, <1>3, <1>4

LEMMA InitialTodo ==
  ASSUME machine \in Machines
  PROVE  LET s == vmm_map_hhdm \o vmm_map_kernel \o vmm_map_framebuffer IN
         s \in Seq(Extents) /\ Elements(s) = {Whole(p) : p \in Parts(machine)}
<1> DEFINE m == machine  A == [base : Nat, length : Nat, usable : BOOLEAN]
           B == [start : Nat, end : Nat, flags : SUBSET {"W", "NX"}]
           h == m.memmap  k == m.sections
<1>1. h \in Seq(A) /\ k \in Seq(B)
  BY MachineFacts
<1>2. \A i \in DOMAIN h : h[i] \in A
  <2> HIDE DEF h, A
  <2> QED BY <1>1
<1>3. \A i \in DOMAIN k : k[i] \in B
  <2> HIDE DEF k, B
  <2> QED BY <1>1
<1>4. Parts(m) = {MemoryPart(h[i]) : i \in DOMAIN h}
                   \cup {SectionPart(m, k[i]) : i \in DOMAIN k} \cup {FramebufferPart(m)}
  BY DEF Parts, Range
<1>5. vmm_map_hhdm = [i \in DOMAIN h |-> Whole(MemoryPart(h[i]))]
  BY <1>2, RangesAreParts DEF vmm_map_hhdm
<1>6. vmm_map_kernel = [i \in DOMAIN k |-> Whole(SectionPart(m, k[i]))]
  BY <1>3, RangesAreParts DEF vmm_map_kernel
<1>7. vmm_map_framebuffer = <<Whole(FramebufferPart(m))>>
  BY RangesAreParts
<1>8. \A p \in Parts(m) : Whole(p) \in Extents
  BY WholeFacts
<1>9. DOMAIN h = 1 .. Len(h) /\ Len(h) \in Nat /\ DOMAIN k = 1 .. Len(k) /\ Len(k) \in Nat
  <2> HIDE DEF h, k, A, B
  <2> QED BY <1>1
<1>10. /\ \A i \in DOMAIN h : MemoryPart(h[i]) \in Parts(m)
       /\ \A i \in DOMAIN k : SectionPart(m, k[i]) \in Parts(m)
       /\ FramebufferPart(m) \in Parts(m)
  BY <1>4
<1> HIDE DEF h, k, A, B, m
<1>11. /\ vmm_map_hhdm \in Seq(Extents) 
       /\ Elements(vmm_map_hhdm) = {Whole(MemoryPart(h[i])) : i \in DOMAIN h}
  <2>1. \A i \in DOMAIN h : Whole(MemoryPart(h[i])) \in Extents
    BY <1>8, <1>10
  <2>2. vmm_map_hhdm \in [1 .. Len(h) -> Extents]
    BY <1>5, <1>9, <2>1
  <2> QED BY <1>5, <1>9, <2>2 DEF Elements
<1>12. /\ vmm_map_kernel \in Seq(Extents) 
       /\ Elements(vmm_map_kernel) = {Whole(SectionPart(m, k[i])) : i \in DOMAIN k}
  <2>1. \A i \in DOMAIN k : Whole(SectionPart(m, k[i])) \in Extents
    BY <1>8, <1>10
  <2>2. vmm_map_kernel \in [1 .. Len(k) -> Extents]
    BY <1>6, <1>9, <2>1
  <2> QED BY <1>6, <1>9, <2>2 DEF Elements
<1>13. /\ vmm_map_framebuffer \in Seq(Extents) 
       /\ Elements(vmm_map_framebuffer) = {Whole(FramebufferPart(m))}
  BY <1>7, <1>8, <1>10 DEF Elements
<1> DEFINE s == vmm_map_hhdm \o vmm_map_kernel \o vmm_map_framebuffer
           D == Elements(vmm_map_hhdm) \cup Elements(vmm_map_kernel)
                  \cup Elements(vmm_map_framebuffer)
<1>14. s \in Seq(Extents) /\ Elements(s) = D
  <2> DEFINE a == vmm_map_hhdm  b == vmm_map_kernel  c == vmm_map_framebuffer  ab == a \o b
  <2>1. a \in Seq(Extents) /\ b \in Seq(Extents) /\ c \in Seq(Extents)
    BY <1>11, <1>12, <1>13
  <2> HIDE DEF a, b, c
  <2>2. ab \in Seq(Extents) /\ Elements(ab) = Elements(a) \cup Elements(b)
    BY <2>1, Appended
  <2> HIDE DEF ab
  <2>3. ab \o c \in Seq(Extents) /\ Elements(ab \o c) = Elements(ab) \cup Elements(c)
    BY <2>1, <2>2, Appended
  <2> QED BY <2>2, <2>3 DEF a, b, c, ab
<1>15. D = {Whole(p) : p \in Parts(m)}
  BY <1>4, <1>11, <1>12, <1>13
<1> QED BY <1>14, <1>15 DEF m

(***************************************************************************)
(* The actions                                                             *)
(***************************************************************************)
\* What a mapping leaves when the frames it could take were avail, and b is what is
\* asked and td what is left to do once it has succeeded.
Result(d, avail, b, td) ==
  /\ d.mem \in Memories /\ d.free \subseteq avail /\ tables \subseteq d.tables
  /\ d.tables \subseteq tables \cup avail /\ d.free \cap d.tables = {}
  /\ \A f \in Frames \ (d.tables \cup Overlaid(machine)), i \in Index : d.mem[f][i] = mem[f][i]
  /\ d.at = NULL => Stands(machine, d.mem, d.tables, asked, pml4, todo)
  /\ d.at # NULL => Stands(machine, d.mem, d.tables, b, pml4, td)
\* Where the tables stand now, with big the large pages, and lost what they cost.
StandsWith(big, lost) ==
  /\ lost \subseteq tables /\ Good(mem, tables \ lost, Told(machine, asked), pml4, big)
  /\ Apart(machine) => lost = {}
  /\ Done(machine, asked, big, todo)
\* What is left to do loses no large page that is not done.
Onward(td, big) == \A x \in Large(machine) : Pending(todo, x) => x \in big \/ Pending(td, x)
\* Entry b of what is asked is the one of v anew, and no other.
Anew(b, v, x) == b[v] = x /\ \A u \in Pages \ {v} : b[u] = asked[u]

LEMMA StandsSomehow ==
  ASSUME Inv, pml4 # NULL
  PROVE  \E big, lost : StandsWith(big, lost)
BY DEF Inv, Space, Built, Stands, Fits, StandsWith

LEMMA StartWalk ==
  ASSUME Inv, NEW big, NEW lost, StandsWith(big, lost), NEW avail \in SUBSET free
  PROVE  /\ Reached(From(avail), 4, 0, Told(machine, asked), pml4, big, lost)
         /\ From(avail).free = avail /\ From(avail).tables = tables /\ From(avail).mem = mem
<1> DEFINE T == tables \ lost  a == Told(machine, asked)
<1>1. PICK lvl \in [T -> 1 .. 4], key \in [T -> Nat] : Tree(mem, T, lvl, key, a, pml4, big)
  BY DEF StandsWith, Good
<1>2. pml4 \in T /\ mem \in Memories /\ lvl[pml4] = 4 /\ key[pml4] = 0
  BY <1>1 DEF Tree
<1>3. /\ avail \in SUBSET Frames /\ avail \cap tables = {} /\ tables \in SUBSET Frames
      /\ lost \subseteq tables
  BY MachineFacts DEF Inv, Space, Owned, Typing, StandsWith
<1> DEFINE w == From(avail)
<1>4. /\ w.mem = mem /\ w.free = avail /\ w.tables = tables /\ w.at = pml4
      /\ w \in Walks
  BY <1>2, <1>3 DEF From, Walks
<1> HIDE DEF w, a, T
<1>5. TableAt(mem, T, a, pml4, big, pml4, 4, 0)
  BY <1>1, <1>2 DEF TableAt
<1>6. Reached(w, 4, 0, a, pml4, big, lost)
  BY <1>2, <1>3, <1>4, <1>5 DEF Reached, T
<1> QED BY <1>4, <1>6 DEF w, a

\* A walk that takes tables leaves what it found when it stops, and what is asked
\* when it arrives.
LEMMA ResultOf ==
  ASSUME Inv, NEW big, NEW lost, StandsWith(big, lost), NEW avail \in SUBSET free,
         NEW d, Takes(From(avail), d), NEW b, NEW td,
         \/ Stopped(d, Told(machine, asked), pml4, big, lost)
         \/ /\ d \in Walks /\ d.at # NULL /\ d.free \cap d.tables = {}
            /\ Stands(machine, d.mem, d.tables, b, pml4, td)
  PROVE  Result(d, avail, b, td)
<1> DEFINE w == From(avail)
<1>1. w.free = avail /\ w.tables = tables /\ w.mem = mem
  BY StartWalk
<1> HIDE DEF w
<1>2. /\ d.free \subseteq avail /\ d.tables \subseteq tables \cup avail /\ tables \subseteq d.tables
      /\ \A f \in Frames \ (d.tables \cup Overlaid(machine)), i \in Index : d.mem[f][i] = mem[f][i]
  BY <1>1 DEF Takes, w
<1>3. CASE Stopped(d, Told(machine, asked), pml4, big, lost)
  <2>1. /\ d \in Walks /\ d.at = NULL /\ d.free \cap d.tables = {} /\ lost \subseteq d.tables
        /\ Good(d.mem, d.tables \ lost, Told(machine, asked), pml4, big)
    BY <1>3 DEF Stopped
  <2>2. Fits(machine, d.mem, d.tables, asked, pml4, big)
    BY <2>1 DEF Fits, StandsWith
  <2>3. Stands(machine, d.mem, d.tables, asked, pml4, todo)
    BY <2>2 DEF Stands, StandsWith
  <2> QED BY <1>2, <2>1, <2>3 DEF Result, Walks
<1>4. CASE /\ d \in Walks /\ d.at # NULL /\ d.free \cap d.tables = {}
           /\ Stands(machine, d.mem, d.tables, b, pml4, td)
  BY <1>2, <1>4 DEF Result, Walks
<1> QED BY <1>3, <1>4

\* A walk that has reached a table stands.
LEMMA ReachedStands ==
  ASSUME machine \in Machines, NEW d, NEW k, NEW x, NEW b, NEW big, NEW gone, NEW td,
         Reached(d, k, x, Told(machine, b), pml4, big, gone), Apart(machine) => gone = {},
         Done(machine, b, big, td)
  PROVE  /\ d \in Walks /\ d.at # NULL /\ d.free \cap d.tables = {}
         /\ Stands(machine, d.mem, d.tables, b, pml4, td)
<1>1. d \in Walks /\ d.free \cap d.tables = {} /\ gone \subseteq d.tables /\ d.at \in d.tables
  BY DEF Reached
<1>2. d.at # NULL
  BY <1>1, VmmAssumption DEF Walks
<1>3. Good(d.mem, d.tables \ gone, Told(machine, b), pml4, big)
  BY DEF Reached, TableAt, Good
<1>4. Stands(machine, d.mem, d.tables, b, pml4, td)
  BY <1>1, <1>3 DEF Stands, Fits
<1> QED BY <1>1, <1>2, <1>4

\* A page in no large page, for which it must not be a device's or none of the
\* blocks that may be large ones.
LEMMA MapPageResult ==
  ASSUME Inv, NEW big, NEW lost, StandsWith(big, lost), NEW avail \in SUBSET free,
         NEW v \in Pages, Prefix(2, v) \notin big, NEW f \in Frames, NEW flags \in AskedFlags,
         "CD" \notin flags \/ Prefix(2, v) \notin Large(machine),
         NEW b, Anew(b, v, Asked(f, flags)), NEW td, Onward(td, big)
  PROVE  Result(MapPage(From(avail), v, f, flags), avail, b, td)
<1> DEFINE w == From(avail)  d == MapPage(w, v, f, flags)
           a == Told(machine, asked)  c == Told(machine, b)
<1>1. machine \in Machines /\ \A u \in Pages : asked[u] \in Asks \cup {NULL}
  BY DEF Inv, Typing, Asks
<1>2. Asked(f, flags) \in Asks /\ Asked(f, flags) # NULL /\ \A u \in Pages : b[u] \in Asks \cup {NULL}
  BY <1>1, AsksFacts DEF Anew
<1>3. c[v] = Asked(f, flags)
  <2>1. b[v] # NULL /\ ("CD" \notin flags => "CD" \notin b[v].flags)
    BY <1>2 DEF Anew, Asked
  <2> QED BY <1>1, <1>2, <2>1, ToldFacts DEF Anew
<1>4. \A u \in Pages \ {v} : c[u] = a[u]
  BY DEF Told, Anew
<1>5. Reached(w, 4, 0, a, pml4, big, lost)
  BY StartWalk
<1> HIDE DEF w, a, c
<1>6. /\ Takes(w, d)
      /\ Stopped(d, a, pml4, big, lost) \/ Reached(d, 1, Prefix(2, v), c, pml4, big, lost)
  BY <1>3, <1>4, <1>5, MapPageKeeps
<1>7. Done(machine, b, big, td)
  <2>1. /\ big \subseteq Large(machine) /\ (Apart(machine) => big = Large(machine))
        /\ Apart(machine) \/ \A u \in Pages : Prefix(2, u) \in big => asked[u] # NULL
        /\ \A x \in Large(machine) : x \in big \/ Pending(todo, x)
    BY DEF StandsWith, Done
  <2>2. \A x \in Large(machine) : x \in big \/ Pending(td, x)
    BY <2>1 DEF Onward
  <2>3. Apart(machine) \/ \A u \in Pages : Prefix(2, u) \in big => b[u] # NULL
    BY <2>1 DEF Anew
  <2> QED BY <2>1, <2>2, <2>3 DEF Done
<1> HIDE DEF d
<1>8. Reached(d, 1, Prefix(2, v), c, pml4, big, lost) =>
        /\ d \in Walks /\ d.at # NULL /\ d.free \cap d.tables = {}
        /\ Stands(machine, d.mem, d.tables, b, pml4, td)
  BY <1>1, <1>7, ReachedStands DEF StandsWith, c
<1> QED BY <1>6, <1>8, ResultOf DEF d, w, a

\* The pages of a block are asked for with a large page.
AsksLarge(b, v, f, flags) == \A u \in Pages :
  IF Prefix(2, u) = Prefix(2, v) THEN b[u] = Asked(f + IndexOf(1, u), flags) ELSE b[u] = asked[u]

LEMMA MapLargePageResult ==
  ASSUME Inv, NEW big, NEW lost, StandsWith(big, lost), NEW avail \in SUBSET free,
         NEW v \in Pages, Prefix(2, v) \in Large(machine), NEW f \in Frames, f % E = 0,
         NEW flags \in AskedFlags, "CD" \notin flags,
         \A u \in Pages : Prefix(2, u) = Prefix(2, v) => f + IndexOf(1, u) \in Frames,
         NEW b, AsksLarge(b, v, f, flags), NEW td, Onward(td, big \cup {Prefix(2, v)})
  PROVE  Result(MapLargePage(From(avail), v, f, flags), avail, b, td)
<1> DEFINE w == From(avail)  d == MapLargePage(w, v, f, flags)
           a == Told(machine, asked)  c == Told(machine, b)  B == big \cup {Prefix(2, v)}
<1>1. machine \in Machines /\ \A u \in Pages : asked[u] \in Asks \cup {NULL}
  BY DEF Inv, Typing, Asks
<1>2. ASSUME NEW u \in Pages, Prefix(2, u) = Prefix(2, v)
      PROVE  /\ b[u] = Asked(f + IndexOf(1, u), flags) /\ b[u] \in Asks /\ b[u] # NULL
             /\ "CD" \notin b[u].flags
  <2>1. b[u] = Asked(f + IndexOf(1, u), flags)
    BY <1>2 DEF AsksLarge
  <2> QED BY <1>2, <2>1, AsksFacts DEF Asked
<1>3. ASSUME NEW u \in Pages, Prefix(2, u) # Prefix(2, v) PROVE b[u] = asked[u]
  BY <1>3 DEF AsksLarge
<1>4. \A u \in Pages : b[u] \in Asks \cup {NULL}
  BY <1>1, <1>2, <1>3
<1>5. ASSUME NEW u \in Pages
      PROVE  IF Prefix(2, u) = Prefix(2, v)
             THEN c[u] = Asked(f + IndexOf(1, u), flags) ELSE c[u] = a[u]
  <2>1. CASE Prefix(2, u) = Prefix(2, v)
    BY <1>1, <1>2, <1>4, <2>1, ToldFacts
  <2>2. CASE Prefix(2, u) # Prefix(2, v)
    BY <1>3, <2>2 DEF Told
  <2> QED BY <2>1, <2>2
<1>6. Reached(w, 4, 0, a, pml4, big, lost)
  BY StartWalk
<1> HIDE DEF w, a, c, d, B
<1>7. Takes(w, d) /\ (Stopped(d, a, pml4, big, lost) \/ ReachedLarge(d, v, c, pml4, big, lost))
  BY <1>5, <1>6, MapLargePageKeeps DEF d
<1>8. Done(machine, b, B, td) /\ (Apart(machine) => B = big)
  <2>1. /\ big \subseteq Large(machine) /\ (Apart(machine) => big = Large(machine))
        /\ Apart(machine) \/ \A u \in Pages : Prefix(2, u) \in big => asked[u] # NULL
        /\ \A x \in Large(machine) : x \in big \/ Pending(todo, x)
    BY DEF StandsWith, Done
  <2>2. \A x \in Large(machine) : x \in B \/ Pending(td, x)
    BY <2>1 DEF Onward, B
  <2>3. Apart(machine) \/ \A u \in Pages : Prefix(2, u) \in B => b[u] # NULL
    BY <1>2, <1>3, <2>1 DEF B
  <2>4. B \subseteq Large(machine) /\ (Apart(machine) => B = big)
    BY <2>1 DEF B
  <2> QED BY <2>1, <2>2, <2>3, <2>4 DEF Done
<1>9. CASE ReachedLarge(d, v, c, pml4, big, lost)
  <2>1. PICK gone : /\ Reached(d, 2, Top(2, v), c, pml4, B, gone)
                    /\ Prefix(2, v) \in big => gone = lost
    BY <1>9 DEF ReachedLarge, B
  <2>2. Apart(machine) => gone = {}
    BY <1>8, <2>1 DEF B, StandsWith
  <2>3. /\ d \in Walks /\ d.at # NULL /\ d.free \cap d.tables = {}
        /\ Stands(machine, d.mem, d.tables, b, pml4, td)
    BY <1>1, <1>8, <2>1, <2>2, ReachedStands DEF c
  <2> QED BY <1>7, <2>3, ResultOf DEF d, w
<1>10. CASE Stopped(d, a, pml4, big, lost)
  BY <1>7, <1>10, ResultOf DEF d, w, a
<1> QED BY <1>7, <1>9, <1>10

\* A page of a large page: the request is lost, and only what is overlaid is written.
LEMMA MapOverResult ==
  ASSUME Inv, NEW big, NEW lost, StandsWith(big, lost), NEW avail \in SUBSET free,
         NEW v \in Pages, Prefix(2, v) \in big, asked[v] # NULL,
         NEW f \in Frames, NEW flags \in AskedFlags,
         asked[v].frame - IndexOf(1, v) \in Overlaid(machine),
         NEW b, Told(machine, b) = Told(machine, asked),
         \A u \in Pages : asked[u] # NULL => b[u] # NULL, NEW td, Onward(td, big)
  PROVE  Result(MapPage(From(avail), v, f, flags), avail, b, td)
<1> DEFINE w == From(avail)  d == MapPage(w, v, f, flags)  a == Told(machine, asked)
<1>1. /\ machine \in Machines /\ (\A u \in Pages : asked[u] \in Asks \cup {NULL})
      /\ Overlaid(machine) \cap tables = {} /\ free \cap tables = {}
  BY OverlaidReserved DEF Inv, Typing, Space, Owned, Asks
<1>2. a[v] # NULL /\ a[v].frame = asked[v].frame
  BY <1>1, ToldFacts
<1>3. /\ Reached(w, 4, 0, a, pml4, big, lost)
      /\ w.free = avail /\ w.tables = tables /\ w.mem = mem
  BY StartWalk
<1> HIDE DEF w, a
<1>4. PICK s : StartsAt(a, v, s) /\ Overwrites(w, d, s)
  BY <1>2, <1>3, MapPageOver
<1> HIDE DEF d
<1>5. s \in Frames /\ s \in Overlaid(machine)
  <2>1. s \in Nat /\ IndexOf(1, v) \in Nat
    <3>1. 1 \in 1 .. 4
      OBVIOUS
    <3>2. IndexOf(1, v) \in Index
      BY <3>1, PrefixFacts
    <3> QED BY <1>4, <3>2, VmmAssumption DEF StartsAt, Index
  <2>2. asked[v].frame = s + IndexOf(1, v)
    BY <1>2, <1>4 DEF StartsAt
  <2> QED BY <1>4, <2>1, <2>2 DEF StartsAt
<1>6. /\ d.free = avail /\ d.tables = tables /\ d.at = s /\ s # NULL /\ d.mem \in Memories
      /\ \A g \in Frames \ {s}, i \in Index : d.mem[g][i] = mem[g][i]
  BY <1>3, <1>4, <1>5, VmmAssumption DEF Overwrites
<1>7. Good(d.mem, tables \ lost, a, pml4, big)
  <2>1. Good(mem, tables \ lost, a, pml4, big) /\ tables \subseteq Frames
    BY <1>1, MachineFacts DEF StandsWith, a, Inv, Space, Owned
  <2>2. \A t \in tables \ lost, i \in Index : d.mem[t][i] = mem[t][i]
    BY <1>1, <1>5, <1>6, <2>1
  <2> QED BY <1>6, <2>1, <2>2, SameTables
<1>8. Stands(machine, d.mem, d.tables, b, pml4, td)
  <2>1. Fits(machine, d.mem, d.tables, b, pml4, big)
    BY <1>6, <1>7 DEF Fits, StandsWith, a
  <2>2. Done(machine, b, big, td)
    BY DEF StandsWith, Done, Onward
  <2> QED BY <2>1, <2>2 DEF Stands
<1>9. \A g \in Frames \ (d.tables \cup Overlaid(machine)), i \in Index : d.mem[g][i] = mem[g][i]
  BY <1>5, <1>6
<1> QED BY <1>1, <1>6, <1>8, <1>9 DEF Result, d, w

LEMMA InitInv == Init => Inv
<1> SUFFICES ASSUME Init PROVE Inv
  OBVIOUS
<1>1. /\ machine \in Machines /\ free = machine.free /\ tables = {} /\ held = {}
      /\ pml4 = NULL /\ cr3 = NULL /\ nxe = FALSE /\ todo = <<>> /\ devices = <<>>
      /\ tlb = <<>> /\ panic = FALSE
      /\ mem = [f \in Frames |-> [i \in Index |-> Junk]] /\ asked = [v \in Pages |-> NULL]
  BY DEF Init
<1>2. mem \in Memories /\ \A f \in Frames : \A i \in Index : mem[f][i] = Junk
  BY <1>1 DEF Memories
<1>3. /\ asked \in [Pages -> [frame : Frames, flags : AskedFlags] \cup {NULL}]
      /\ \A v \in Pages : asked[v] = NULL
  BY <1>1
<1>4. Typing
  <2>1. devices \in Seq({machine.lapic, machine.ioapic}) /\ todo \in Seq(Extents)
    BY <1>1
  <2>2. pml4 \in Frames \cup {NULL} /\ cr3 \in {NULL, pml4} /\ nxe \in BOOLEAN /\ panic \in BOOLEAN
    BY <1>1
  <2> QED BY <1>1, <1>2, <1>3, <2>1, <2>2 DEF Typing
<1>5. Space /\ Blank
  BY <1>1, <1>2, <1>3 DEF Space, Built, Owned, Untouched, Blank
<1>6. Todo /\ Covered
  BY <1>1 DEF Todo, Covered
<1>7. Cached
  BY <1>1 DEF Cached
<1> QED BY <1>4, <1>5, <1>6, <1>7 DEF Inv

\* One page asked for anew, without its being a page of a part.
LEMMA StillCovered ==
  ASSUME Covered, NEW v, \A p \in Parts(machine) : v \notin PagesIn(p),
         \A u \in Pages \ {v} : asked'[u] = asked[u],
         machine' = machine, pml4' = pml4, cr3' = cr3, todo' = todo, machine \in Machines
  PROVE  Covered'
<1> SUFFICES ASSUME pml4 # NULL, NEW p \in Parts(machine), NEW u \in PagesIn(p)
             PROVE  Settled(p, u)' \/ (asked'[u] = NULL /\ InTodo(u))
  BY DEF Covered, InTodo
<1>1. u # v /\ u \in Pages
  BY PartFacts
<1>2. asked'[u] = asked[u]
  BY <1>1
<1>3. Settled(p, u) => Settled(p, u)'
  BY <1>2 DEF Settled
<1> QED BY <1>2, <1>3 DEF Covered

LEMMA VmmInit == Inv /\ vmm_init => Inv'
<1> SUFFICES ASSUME Inv, vmm_init PROVE Inv'
  OBVIOUS
<1>1. /\ pml4 = NULL /\ nxe' = TRUE /\ machine' = machine /\ held' = held /\ cr3' = cr3
      /\ devices' = devices /\ tlb' = tlb /\ asked' = asked
  BY DEF vmm_init, enable_nxe
<1>2. /\ machine \in Machines /\ mem \in Memories /\ cr3 = NULL /\ free \in SUBSET Frames
      /\ \A f \in Frames : \A i \in Index : mem[f][i] = Junk
      /\ tables = {} /\ held = {} /\ todo = <<>> /\ \A v \in Pages : asked[v] = NULL
  BY <1>1, MachineFacts DEF Inv, Typing, Blank, Space, Owned
<1>3. Cached'
  BY <1>1 DEF Inv, Cached
<1>4. CASE free = {}
  <2>1. /\ panic' = TRUE /\ mem' = mem /\ free' = free /\ tables' = tables /\ pml4' = pml4
        /\ todo' = todo
    BY <1>4 DEF vmm_init, memory
  <2>2. Typing'
    BY <1>1, <2>1 DEF Inv, Typing
  <2>3. Blank' /\ Space' /\ Todo' /\ Covered'
    BY <1>1, <2>1 DEF Inv, Blank, Space, Built, Owned, Untouched, Todo, Covered
  <2> QED BY <1>3, <2>2, <2>3 DEF Inv
<1>5. CASE free # {}
  <2>1. PICK r \in free : r = Lowest
    BY <1>2, <1>5, LowestFree DEF Lowest
  <2> DEFINE n == Wipe(mem, r)
             s == vmm_map_hhdm \o vmm_map_kernel \o vmm_map_framebuffer
  <2>2. /\ pml4' = r /\ free' = free \ {r} /\ tables' = {r} /\ mem' = n /\ todo' = s
        /\ panic' = panic
    BY <1>5, <2>1 DEF vmm_init, Wipe, Zero
  <2>3. n \in Memories /\ n[r] = Zero /\ \A f \in Frames \ {r} : n[f] = mem[f]
    BY <1>2, <2>1, EmptyFacts DEF Memories, Wipe
  <2>4. s \in Seq(Extents) /\ Elements(s) = {Whole(p) : p \in Parts(machine)}
    BY <1>2, InitialTodo
  <2> HIDE DEF n, s
  <2>5. r \in Frames /\ r # NULL
    BY <1>2, VmmAssumption
  <2>6. Typing'
    <3>1. devices' \in Seq({machine'.lapic, machine'.ioapic})
      BY <1>1 DEF Inv, Typing
    <3>2. asked' \in [Pages -> [frame : Frames, flags : AskedFlags] \cup {NULL}]
      BY <1>1 DEF Inv, Typing
    <3>3. panic' \in BOOLEAN
      BY <2>2 DEF Inv, Typing
    <3> QED BY <1>1, <1>2, <2>2, <2>3, <2>4, <2>5, <3>1, <3>2, <3>3 DEF Typing
  <2> DEFINE a == Told(machine, asked)  big == IF Apart(machine) THEN Large(machine) ELSE {}
  <2>a. \A v \in Pages : a[v] = NULL
    BY <1>2 DEF Told
  <2> HIDE DEF a, big
  <2>7. Good(n, {r}, a, r, big)
    <3> DEFINE lvl == [t \in {r} |-> 4]  key == [t \in {r} |-> 0]
    <3>1. lvl \in [{r} -> 1 .. 4] /\ key \in [{r} -> Nat] /\ lvl[r] = 4 /\ key[r] = 0
      OBVIOUS
    <3> HIDE DEF lvl, key
    <3>2. ASSUME NEW t \in {r}, NEW i \in Index
          PROVE  EntryGood(n[t][i], lvl[t], Slot(key[t], i), {r}, lvl, key, a, big)
      <4>1. n[t][i] = Empty
        BY <2>3, EmptyFacts
      <4> QED BY <2>a, <4>1, EmptyFacts DEF EntryGood, NamesTable, IsLeaf
    <3>3. Tree(n, {r}, lvl, key, a, r, big)
      <4>1. \A t \in {r}, i \in Index :
              EntryGood(n[t][i], lvl[t], Slot(key[t], i), {r}, lvl, key, a, big)
        BY <3>2
      <4> QED BY <2>3, <2>5, <3>1, <4>1 DEF Tree
    <3> QED BY <3>1, <3>3 DEF Good
  <2>b. Done(machine, asked, big, s)
    <3>1. \A x \in Large(machine) : Pending(s, x)
      <4> SUFFICES ASSUME NEW x \in Large(machine) PROVE Pending(s, x)
        OBVIOUS
      <4>1. PICK p \in Parts(machine) : LargeIn(p, x)
        BY DEF Large
      <4>2. Whole(p) \in Elements(s)
        BY <2>4
      <4>3. PICK i \in DOMAIN s : s[i] = Whole(p)
        BY <4>2 DEF Elements
      <4>4. p.first \in Nat /\ p.end \in Nat /\ p.shift \in Int
        BY <1>2, PartFacts
      <4>5. /\ s[i].virt = p.first /\ s[i].phys - s[i].virt = p.shift
            /\ s[i].virt + s[i].length = p.end
        BY <4>3, <4>4 DEF Whole, Extent
      <4> QED BY <4>1, <4>5 DEF LargeIn, Pending
    <3> QED BY <3>1 DEF Done, big
  <2>8. Space'
    <3>1. Fits(machine, n, {r}, asked, r, big)
      <4>1. {r} \ {} = {r} /\ {} \in SUBSET {r}
        OBVIOUS
      <4> QED BY <2>7, <4>1 DEF Fits, a
    <3>2. Built'
      BY <1>1, <2>2, <2>b, <3>1 DEF Built, Stands
    <3>3. Owned'
      BY <1>1, <1>2, <2>1, <2>2 DEF Inv, Space, Owned
    <3>4. Untouched'
      BY <1>1, <1>2, <2>2, <2>3 DEF Untouched
    <3> QED BY <3>2, <3>3, <3>4 DEF Space
  <2>9. Blank'
    BY <2>2, <2>5 DEF Blank
  <2>10. Todo'
    <3>1. \A i \in DOMAIN s : \E p \in Parts(machine) : Rest(s[i], p)
      <4>1. SUFFICES ASSUME NEW i \in DOMAIN s PROVE \E p \in Parts(machine) : Rest(s[i], p)
        OBVIOUS
      <4>2. s[i] \in Elements(s)
        BY DEF Elements
      <4>3. PICK p \in Parts(machine) : s[i] = Whole(p)
        BY <2>4, <4>2
      <4> QED BY <1>2, <4>3, WholeFacts
    <3> QED BY <1>1, <1>2, <2>2, <3>1 DEF Todo
  <2>11. Covered'
    <3>1. SUFFICES ASSUME NEW p \in Parts(machine), NEW v \in PagesIn(p)
                   PROVE  InTodo(v)'
      BY <1>1, <1>2, PartFacts DEF Covered
    <3>2. Whole(p) \in Elements(s) /\ Covers(Whole(p), v)
      BY <1>2, <2>4, WholeFacts
    <3>3. PICK i \in DOMAIN s : s[i] = Whole(p)
      BY <3>2 DEF Elements
    <3> QED BY <2>2, <3>2, <3>3 DEF InTodo, Covers
  <2> QED BY <1>3, <2>6, <2>8, <2>9, <2>10, <2>11 DEF Inv
<1> QED BY <1>4, <1>5

LEMMA RangeDone == Inv /\ range_done => Inv'
<1> SUFFICES ASSUME Inv, range_done PROVE Inv'
  OBVIOUS
<1>1. /\ cr3 = NULL /\ todo # <<>> /\ Head(todo).length <= 0 /\ todo' = Tail(todo)
      /\ machine' = machine /\ mem' = mem /\ free' = free /\ tables' = tables /\ held' = held
      /\ pml4' = pml4 /\ cr3' = cr3 /\ nxe' = nxe /\ devices' = devices /\ tlb' = tlb
      /\ asked' = asked /\ panic' = panic
  BY DEF range_done, Mapping, memory
<1>2. todo \in Seq(Extents)
  BY DEF Inv, Typing
<1>3. /\ todo' \in Seq(Extents)
      /\ \A i \in DOMAIN todo' : i + 1 \in DOMAIN todo /\ todo'[i] = todo[i + 1]
      /\ \A i \in DOMAIN todo : i # 1 => i - 1 \in DOMAIN todo' /\ todo'[i - 1] = todo[i]
      /\ todo[1] = Head(todo)
  BY <1>1, <1>2
<1>4. Typing'
  BY <1>1, <1>3 DEF Inv, Typing
<1>h. /\ Head(todo).virt \in Int /\ Head(todo).length \in Int /\ Head(todo).phys \in Int
      /\ todo[1].length <= 0 /\ todo[1].virt \in Int /\ todo[1].length \in Int
  <2>1. Head(todo) \in Extents
    BY <1>1, <1>2
  <2> QED BY <1>1, <1>3, <2>1 DEF Extents
<1>p. ASSUME NEW x \in Large(machine), Pending(todo, x) PROVE Pending(todo', x)
  <2>1. PICK i \in DOMAIN todo :
          /\ todo[i].virt <= x * E /\ x * E + E <= todo[i].virt + todo[i].length
          /\ (x * E + (todo[i].phys - todo[i].virt)) % E = 0
    BY <1>p DEF Pending
  <2>2. i # 1
    <3>1. x * E \in Nat /\ E \in Nat /\ E > 0
      BY VmmAssumption DEF Large
    <3> DEFINE y == x * E
    <3>2. y \in Nat
      BY <3>1
    <3> HIDE DEF y
    <3>3. ~(todo[1].virt <= y /\ y + E <= todo[1].virt + todo[1].length)
      BY <1>h, <3>1, <3>2
    <3> QED BY <2>1, <3>3 DEF y
  <2>3. i - 1 \in DOMAIN todo' /\ todo'[i - 1] = todo[i]
    BY <1>3, <2>2
  <2> QED BY <2>1, <2>3 DEF Pending
<1>5. Blank' /\ Space' /\ Cached'
  <2>1. pml4 # NULL => Stands(machine, mem, tables, asked, pml4, todo')
    BY <1>p DEF Inv, Space, Built, Stands, Done
  <2>2. Built'
    BY <1>1, <2>1 DEF Built
  <2>3. Owned' /\ Untouched'
    BY <1>1 DEF Inv, Space, Owned, Untouched
  <2>4. Blank' /\ Cached'
    BY <1>1 DEF Inv, Blank, Cached
  <2> QED BY <2>2, <2>3, <2>4 DEF Space
<1>6. Todo'
  BY <1>1, <1>3 DEF Inv, Todo
<1>7. Covered'
  <2>1. ASSUME NEW v \in Pages, InTodo(v) PROVE InTodo(v)'
    <3>1. PICK i \in DOMAIN todo : v \in todo[i].virt .. todo[i].virt + todo[i].length - 1
      BY <2>1 DEF InTodo
    <3>2. i # 1
      <4>1. ASSUME i = 1 PROVE FALSE
        <5> DEFINE b == Head(todo).virt  l == Head(todo).length
        <5>1. b \in Int /\ l \in Int /\ l <= 0 /\ v \in b .. b + l - 1
          BY <1>1, <1>3, <1>h, <3>1, <4>1
        <5> HIDE DEF b, l
        <5> QED BY <5>1
      <4> QED BY <4>1
    <3>3. i - 1 \in DOMAIN todo' /\ todo'[i - 1] = todo[i]
      BY <1>3, <3>2
    <3> QED BY <3>1, <3>3 DEF InTodo
  <2>2. \A p \in Parts(machine) : \A v \in PagesIn(p) : v \in Pages
    BY PartFacts DEF Inv, Typing
  <2>3. \A p, v : Settled(p, v) => Settled(p, v)'
    BY <1>1 DEF Settled
  <2> QED BY <1>1, <2>1, <2>2, <2>3 DEF Inv, Covered
<1> QED BY <1>4, <1>5, <1>6, <1>7 DEF Inv

\* The round of vmm_map_range that is next: the range r of part p, n pages of it.
Round(r, p, n) ==
  /\ r = Head(todo) /\ p \in Parts(machine) /\ Rest(r, p) /\ r.length > 0
  /\ n = IF fits_large(r) THEN E ELSE 1

\* A large page is taken where there may be one, and only another part can have one
\* where none is taken.
LEMMA RoundFacts ==
  ASSUME machine \in Machines, NEW r, NEW p, NEW n, Round(r, p, n)
  PROVE  /\ r.virt \in Pages /\ r.virt \in Nat /\ r.phys \in Frames /\ r.flags \in AskedFlags
         /\ n \in Nat /\ 1 <= n /\ n <= r.length /\ r.length \in Int
         /\ fits_large(r) => Prefix(2, r.virt) \in Large(machine)
         /\ ~fits_large(r) => ~LargeIn(p, r.virt \div E)
         /\ fits_large(r) => r.phys % E = 0 /\ r.virt % E = 0
         /\ \A u \in r.virt .. r.virt + n - 1 :
              u \in PagesIn(p) /\ u \in Pages /\ r.phys + u - r.virt = u + p.shift
         /\ (r.virt + n) % E = 0 \/ ~LargeIn(p, (r.virt + n) \div E)
<1> DEFINE m == machine  v == r.virt  l == r.length
<1>1. p \in Parts(m) /\ Rest(r, p) /\ l > 0 /\ n = IF fits_large(r) THEN E ELSE 1
  BY DEF Round
<1>2. /\ p.first \in Nat /\ p.end \in Nat /\ p.shift \in Int /\ p.flags \in SUBSET {"W", "NX"}
      /\ \A u \in PagesIn(p) : u \in Pages /\ u + p.shift \in Frames
  BY <1>1, PartFacts
<1>3. /\ v \in Int /\ l \in Int /\ r.flags = p.flags \cup {"P"} /\ r.phys = v + p.shift
      /\ p.first <= v /\ v + l = p.end /\ (v % E = 0 \/ ~LargeIn(p, v \div E))
  BY <1>1 DEF Rest
<1>4. fits_large(r) <=> v % E = 0 /\ r.phys % E = 0 /\ l >= E
  BY DEF fits_large
<1>5. E \in Nat /\ E > 1
  BY VmmAssumption
<1> HIDE DEF v, l, m
<1>6. v \in Nat /\ n \in Nat /\ 1 <= n /\ n <= l
  BY <1>1, <1>2, <1>3, <1>4, <1>5
<1>7. \A u \in v .. v + n - 1 : u \in PagesIn(p) /\ r.phys + u - v = u + p.shift
  BY <1>2, <1>3, <1>6 DEF PagesIn
<1>8. v \in PagesIn(p) /\ v \in Pages /\ r.phys \in Frames
  <2>1. v \in PagesIn(p)
    BY <1>6, <1>7
  <2> QED BY <1>2, <1>3, <2>1
<1>9. r.flags \in AskedFlags
  BY <1>2, <1>3 DEF AskedFlags
<1>10. LargeIn(p, v \div E) <=> fits_large(r)
  <2>1. CASE v % E = 0
    <3>1. (v \div E) * E = v
      BY <1>6, <2>1, Division
    <3>2. LargeIn(p, v \div E) <=> v + E <= p.end /\ (v + p.shift) % E = 0
      BY <1>3, <3>1 DEF LargeIn
    <3>3. v + E <= p.end <=> l >= E
      BY <1>2, <1>3, <1>5
    <3> QED BY <1>3, <1>4, <2>1, <3>2, <3>3
  <2>2. CASE v % E # 0
    BY <1>3, <1>4, <2>2
  <2> QED BY <2>1, <2>2
<1>11. ASSUME fits_large(r) PROVE Prefix(2, v) \in Large(m)
  <2>1. v \div E \in Nat /\ LargeIn(p, v \div E)
    BY <1>6, <1>10, <1>11, Division
  <2> QED BY <1>1, <1>8, <2>1, LargeFacts DEF Large, m
<1>12. (v + n) % E = 0 \/ ~LargeIn(p, (v + n) \div E)
  <2>1. CASE fits_large(r)
    <3>1. n = E /\ v % E = 0
      BY <1>1, <1>4, <2>1
    <3> QED BY <1>6, <3>1, Division
  <2>2. CASE ~fits_large(r)
    <3>1. n = 1 /\ ~LargeIn(p, v \div E)
      BY <1>1, <1>10, <2>2
    <3>2. CASE (v + 1) % E = 0
      BY <3>1, <3>2
    <3>3. CASE (v + 1) % E # 0
      <4>1. (v + 1) \div E = v \div E
        <5>1. E \in Nat \ {0}
          BY <1>5
        <5> QED BY <1>6, <3>3, <5>1
      <4> QED BY <3>1, <4>1
    <3> QED BY <3>2, <3>3
  <2> QED BY <2>1, <2>2
<1> QED BY <1>2, <1>3, <1>4, <1>6, <1>7, <1>8, <1>9, <1>10, <1>11, <1>12 DEF v, l, m

\* What the large page at v makes of a page u.
LEMMA BlockOf ==
  ASSUME NEW v \in Pages, v % E = 0, NEW u \in Pages
  PROVE  /\ Prefix(2, u) = Prefix(2, v) <=> u \in v .. v + E - 1
         /\ Prefix(2, u) = Prefix(2, v) => IndexOf(1, u) = u - v
<1>1. v \in Nat /\ u \in Nat /\ E \in Nat /\ E > 1
  BY VmmAssumption DEF Pages
<1> DEFINE q == v \div E  s == u \div E
<1>2. /\ q \in Nat /\ q * E = v
      /\ s \in Nat /\ s * E <= u /\ u < s * E + E /\ u % E \in Index /\ u = s * E + (u % E)
  BY <1>1, Division
<1>3. Prefix(2, u) = s /\ Prefix(2, v) = q /\ IndexOf(1, u) = u % E
  BY DEF Prefix, IndexOf
<1> DEFINE k == u % E
<1>4. k \in 0 .. E - 1 /\ u = s * E + k
  BY <1>2 DEF Index
<1> HIDE DEF q, s, k
<1>5. s = q => u \in v .. v + E - 1 /\ k = u - v
  BY <1>1, <1>2, <1>4
<1>6. u \in v .. v + E - 1 => s = q
  <2> SUFFICES ASSUME u \in v .. v + E - 1 PROVE s = q
    OBVIOUS
  <2>1. u - v \in Index /\ u = Slot(q, u - v) /\ u = Slot(s, k)
    BY <1>1, <1>2, <1>4 DEF Slot, Index
  <2> QED BY <1>2, <1>4, <2>1, SlotFacts DEF Index
<1> QED BY <1>3, <1>5, <1>6 DEF k

\* A round loses no large page that was to come: it makes it or leaves it whole.
LEMMA RoundOnward ==
  ASSUME Inv, todo # <<>>, NEW r, NEW p, NEW n, Round(r, p, n), NEW td,
         td = <<Extent(r.virt + n, r.phys + n, r.length - n, r.flags)>> \o Tail(todo),
         NEW big, fits_large(r) => Prefix(2, r.virt) \in big
  PROVE  Onward(td, big)
<1> DEFINE v == r.virt  f == r.phys  l == r.length
           rest == Extent(v + n, f + n, l - n, r.flags)
<1>1. machine \in Machines /\ todo \in Seq(Extents) /\ r = todo[1]
  BY DEF Inv, Typing, Round
<1>2. /\ v \in Nat /\ f \in Nat /\ l \in Int /\ n \in Nat /\ 1 <= n /\ n <= l
      /\ Prefix(2, v) = v \div E /\ n = IF fits_large(r) THEN E ELSE 1
  <2>1. /\ r.virt \in Nat /\ r.phys \in Frames /\ n \in Nat /\ 1 <= n /\ n <= r.length
        /\ r.length \in Int
    BY <1>1, RoundFacts
  <2>2. n = IF fits_large(r) THEN E ELSE 1
    BY DEF Round
  <2>3. Prefix(2, v) = v \div E
    BY DEF Prefix
  <2>4. r.phys \in Nat
    BY <2>1, VmmAssumption
  <2> QED BY <2>1, <2>2, <2>3, <2>4
<1>3. E \in Nat /\ E > 1
  BY VmmAssumption
<1>4. rest.virt = v + n /\ rest.phys = f + n /\ rest.length = l - n
  BY DEF Extent
<1>5. fits_large(r) <=> v % E = 0 /\ f % E = 0 /\ l >= E
  BY DEF fits_large
<1>6. DOMAIN td = DOMAIN todo /\ td[1] = rest /\ \A i \in DOMAIN todo : i # 1 => td[i] = todo[i]
  <2>1. 1 \in DOMAIN todo /\ todo[1] \in Extents
    BY <1>1
  <2>2. r.flags \in SUBSET {"P", "W", "NX"}
    BY <1>1, <2>1 DEF Extents
  <2>3. v + n \in Int /\ f + n \in Int /\ l - n \in Int
    BY <1>2
  <2>4. rest \in Extents
    BY <2>2, <2>3 DEF Extent, Extents
  <2> HIDE DEF rest, v, f, l
  <2>5. td = <<rest>> \o Tail(todo)
    BY DEF rest, v, f, l
  <2> QED BY <1>1, <2>4, <2>5
<1> HIDE DEF v, f, l, rest
<1>7. ASSUME NEW x \in Nat, v <= x * E, x * E + E <= v + l, (x * E + (f - v)) % E = 0, x \notin big
      PROVE  /\ rest.virt <= x * E /\ x * E + E <= rest.virt + rest.length
             /\ (x * E + (rest.phys - rest.virt)) % E = 0
  <2> DEFINE y == x * E
  <2>1. y \in Nat /\ y % E = 0
    BY <1>3
  <2>2. y # v
    <3>1. ASSUME y = v PROVE FALSE
      <4>1. x = v \div E
        <5>1. 0 \in Index /\ Slot(x, 0) = x * E
          BY <1>3 DEF Slot, Index
        <5> QED BY <3>1, <5>1, SlotFacts
      <4>2. v % E = 0 /\ f % E = 0 /\ l >= E
        BY <1>2, <1>3, <1>7, <2>1, <3>1
      <4> QED BY <1>2, <1>5, <1>7, <4>1, <4>2 DEF v
    <3> QED BY <3>1
  <2>3. v + n <= y
    <3>1. CASE ~fits_large(r)
      BY <1>2, <1>7, <2>1, <2>2, <3>1
    <3>2. CASE fits_large(r)
      <4>1. PICK q \in Nat : v = q * E
        BY <1>2, <1>5, <3>2, Division
      <4>2. q < x
        <5>1. ASSUME x <= q PROVE FALSE
          <6>1. x * E <= q * E
            BY <1>3, <4>1, <5>1
          <6> QED BY <1>2, <1>7, <2>1, <2>2, <4>1, <6>1
        <5> QED BY <4>1, <5>1
      <4>3. (q + 1) * E <= x * E /\ (q + 1) * E = q * E + E
        BY <1>3, <4>1, <4>2
      <4> QED BY <1>2, <3>2, <4>1, <4>3
    <3> QED BY <3>1, <3>2
  <2>4. (f + n) - (v + n) = f - v /\ (v + n) + (l - n) = v + l
    BY <1>2
  <2> QED BY <1>4, <1>7, <2>3, <2>4
<1>8. ASSUME NEW x \in Large(machine), Pending(todo, x), x \notin big PROVE Pending(td, x)
  <2>1. PICK i \in DOMAIN todo :
          /\ todo[i].virt <= x * E /\ x * E + E <= todo[i].virt + todo[i].length
          /\ (x * E + (todo[i].phys - todo[i].virt)) % E = 0
    BY <1>8 DEF Pending
  <2>2. x \in Nat
    BY DEF Large
  <2>3. CASE i # 1
    BY <1>6, <2>1, <2>3 DEF Pending
  <2>4. CASE i = 1
    <3>1. /\ rest.virt <= x * E /\ x * E + E <= rest.virt + rest.length
          /\ (x * E + (rest.phys - rest.virt)) % E = 0
      BY <1>1, <1>7, <1>8, <2>1, <2>2, <2>4 DEF v, f, l
    <3>2. 1 \in DOMAIN td /\ td[1] = rest
      BY <1>6, <2>1, <2>4
    <3> QED BY <3>1, <3>2 DEF Pending
  <2> QED BY <2>3, <2>4
<1> QED BY <1>8 DEF Onward

\* Where a round takes a small page although the block is a large one, that is
\* another part's, which has asked the same of the page.
LEMMA RoundOver ==
  ASSUME Inv, cr3 = NULL, NEW r, NEW p, NEW n, Round(r, p, n), ~fits_large(r),
         NEW big, Done(machine, asked, big, todo), Prefix(2, r.virt) \in big
  PROVE  /\ asked[r.virt] # NULL /\ asked[r.virt] = PartSays(p, r.virt)
         /\ asked[r.virt].frame - IndexOf(1, r.virt) \in Overlaid(machine)
<1> DEFINE v == r.virt
<1>1. /\ machine \in Machines /\ p \in Parts(machine) /\ v \in Pages /\ v \in Nat
      /\ v \in PagesIn(p) /\ ~LargeIn(p, v \div E)
  <2>1. machine \in Machines /\ p \in Parts(machine)
    BY DEF Inv, Typing, Round
  <2>2. v \in v .. v + n - 1
    BY <2>1, RoundFacts
  <2> QED BY <2>1, <2>2, RoundFacts
<1> HIDE DEF v
<1>2. PICK q \in Parts(machine) : LargeIn(q, v \div E)
  BY <1>1, LargeFacts DEF Done, v
<1>3. v \in PagesIn(q) /\ q # p
  BY <1>1, <1>2, LargeFacts
<1>4. ~Apart(machine)
  BY <1>1, <1>3 DEF Apart
<1>5. asked[v] # NULL
  BY <1>1, <1>4 DEF Done, v
<1>6. pml4 # NULL
  BY <1>1, <1>5 DEF Inv, Blank
<1>7. asked[v] = PartSays(p, v) /\ asked[v] = PartSays(q, v)
  BY <1>1, <1>3, <1>5, <1>6 DEF Inv, Covered, Settled
<1>8. LargePage(v) + q.shift \in Overlaid(machine)
  BY <1>1, <1>2, <1>3, OverlaidHas
<1>9. asked[v].frame - IndexOf(1, v) = LargePage(v) + q.shift
  <2>1. asked[v].frame = v + q.shift /\ q.shift \in Int
    BY <1>1, <1>7, PartFacts DEF PartSays
  <2>2. v = LargePage(v) + IndexOf(1, v) /\ LargePage(v) \in Nat
    BY <1>1, BlockFacts
  <2>3. IndexOf(1, v) \in Nat
    <3>1. 1 \in 1 .. 4
      OBVIOUS
    <3>2. IndexOf(1, v) \in Index
      BY <1>1, <3>1, PrefixFacts
    <3> QED BY <3>2, VmmAssumption DEF Index
  <2> DEFINE x == LargePage(v)  y == IndexOf(1, v)
  <2> HIDE DEF x, y
  <2>5. x \in Nat /\ y \in Nat /\ q.shift \in Int /\ v = x + y /\ asked[v].frame = v + q.shift
    BY <2>1, <2>2, <2>3 DEF x, y
  <2>6. asked[v].frame - y = x + q.shift
    <3> DEFINE z == v  k == q.shift  c == asked[v].frame
    <3>1. x \in Nat /\ y \in Nat /\ k \in Int /\ z = x + y /\ c = z + k
      BY ONLY <2>5
    <3> HIDE DEF z, k, c
    <3>2. c - y = x + k
      BY ONLY <3>1
    <3> QED BY ONLY <3>2 DEF z, k, c
  <2> QED BY ONLY <2>6 DEF x, y
<1> QED BY <1>5, <1>7, <1>8, <1>9 DEF v

\* What a round leaves to do, and what is asked then.
Left(r, n) == <<Extent(r.virt + n, r.phys + n, r.length - n, r.flags)>> \o Tail(todo)
Asking(r, n) == [v \in Pages |->
  IF v \in r.virt .. r.virt + n - 1 /\ v < r.virt + r.length
  THEN Asked(r.phys + v - r.virt, r.flags) ELSE asked[v]]

LEMMA MapRangeResult ==
  ASSUME Inv, vmm_map_range, NEW r, NEW p, NEW n, Round(r, p, n), NEW b, NEW td,
         td = Left(r, n), b = Asking(r, n)
  PROVE  \E w : /\ Result(w, free, b, td) /\ Becomes(w) /\ panic' = (w.at = NULL)
                /\ w.at = NULL => todo' = todo /\ asked' = asked
                /\ w.at # NULL => todo' = td /\ asked' = b
<1>b. /\ td = <<Extent(r.virt + n, r.phys + n, r.length - n, r.flags)>> \o Tail(todo)
      /\ b = [v \in Pages |->
                IF v \in r.virt .. r.virt + n - 1 /\ v < r.virt + r.length
                THEN Asked(r.phys + v - r.virt, r.flags) ELSE asked[v]]
  BY DEF Left, Asking
<1>1. r = Head(todo) /\ n = IF fits_large(r) THEN E ELSE 1
  BY DEF Round
<1>2. pml4 # NULL /\ machine \in Machines /\ cr3 = NULL /\ todo # <<>>
  BY DEF vmm_map_range, Mapping, Inv, Blank, Typing
<1>3. /\ r.virt \in Pages /\ r.virt \in Nat /\ r.phys \in Frames /\ r.flags \in AskedFlags
      /\ n \in Nat /\ 1 <= n /\ n <= r.length /\ r.length \in Int
      /\ fits_large(r) => Prefix(2, r.virt) \in Large(machine)
      /\ fits_large(r) => r.phys % E = 0 /\ r.virt % E = 0
      /\ \A u \in r.virt .. r.virt + n - 1 :
           u \in PagesIn(p) /\ u \in Pages /\ r.phys + u - r.virt = u + p.shift
  BY <1>2, RoundFacts
<1>4. r.phys \in Nat /\ free \in SUBSET free
  BY <1>3, VmmAssumption
<1>p. /\ p \in Parts(machine) /\ p.shift \in Int /\ r.flags = p.flags \cup {"P"}
      /\ p.flags \in SUBSET {"W", "NX"} /\ "CD" \notin r.flags /\ r.phys = r.virt + p.shift
      /\ \A u \in PagesIn(p) : u \in Pages /\ u + p.shift \in Frames
  BY <1>2, PartFacts DEF Round, Rest
<1>t. PICK big, lost : StandsWith(big, lost)
  BY <1>2, StandsSomehow
<1> DEFINE w == IF fits_large(r) THEN MapLargePage(From(free), r.virt, r.phys, r.flags)
                                 ELSE MapPage(From(free), r.virt, r.phys, r.flags)
<1>5. /\ Becomes(w) /\ panic' = (w.at = NULL)
      /\ w.at = NULL => todo' = todo /\ asked' = asked
      /\ w.at # NULL =>
           todo' = td /\ asked' = b
  BY <1>1, <1>b DEF vmm_map_range
<1>6. Result(w, free, b, td)
  <2>1. CASE fits_large(r)
    <3>1. w = MapLargePage(From(free), r.virt, r.phys, r.flags)
      BY <2>1
    <3>2. n = E /\ r.virt % E = 0 /\ r.phys % E = 0 /\ Prefix(2, r.virt) \in Large(machine)
      BY <1>1, <1>3, <2>1
    <3>3. ASSUME NEW u \in Pages
          PROVE  IF Prefix(2, u) = Prefix(2, r.virt)
                 THEN b[u] = Asked(r.phys + IndexOf(1, u), r.flags) ELSE b[u] = asked[u]
      <4>1. u \in Nat
        BY VmmAssumption DEF Pages
      <4>2. u \in r.virt .. r.virt + E - 1 => u < r.virt + r.length
        BY <1>3, <3>2, <4>1
      <4>3. u \in r.virt .. r.virt + E - 1 => r.phys + u - r.virt = r.phys + (u - r.virt)
        BY <1>3, <1>4, <4>1
      <4>4. /\ Prefix(2, u) = Prefix(2, r.virt) <=> u \in r.virt .. r.virt + E - 1
            /\ Prefix(2, u) = Prefix(2, r.virt) => IndexOf(1, u) = u - r.virt
        BY <1>3, <3>2, BlockOf
      <4>5. b[u] = IF u \in r.virt .. r.virt + E - 1 THEN Asked(r.phys + u - r.virt, r.flags)
                   ELSE asked[u]
        BY <1>b, <3>2, <4>2
      <4> HIDE DEF w
      <4> QED BY <4>3, <4>4, <4>5
    <3> HIDE DEF w
    <3>4. AsksLarge(b, r.virt, r.phys, r.flags)
      BY <3>3 DEF AsksLarge
    <3>5. ASSUME NEW u \in Pages, Prefix(2, u) = Prefix(2, r.virt)
          PROVE  r.phys + IndexOf(1, u) \in Frames
      <4>1. u \in r.virt .. r.virt + E - 1 /\ IndexOf(1, u) = u - r.virt /\ u \in Nat
        BY <1>3, <3>2, <3>5, BlockOf, VmmAssumption DEF Pages
      <4>2. u + p.shift \in Frames /\ r.phys + u - r.virt = u + p.shift
        BY <1>3, <1>p, <3>2, <4>1
      <4>3. r.phys + (u - r.virt) = r.phys + u - r.virt
        BY <1>3, <1>4, <4>1
      <4> QED BY <4>1, <4>2, <4>3
    <3>6. Onward(td, big \cup {Prefix(2, r.virt)})
      BY <1>2, <1>b, RoundOnward
    <3>7. Result(MapLargePage(From(free), r.virt, r.phys, r.flags), free, b, td)
      BY <1>3, <1>4, <1>p, <1>t, <3>2, <3>4, <3>5, <3>6, MapLargePageResult
    <3> QED BY <3>1, <3>7
  <2>2. CASE ~fits_large(r)
    <3>1. w = MapPage(From(free), r.virt, r.phys, r.flags)
      BY <2>2
    <3>2. n = 1 /\ Onward(td, big)
      BY <1>1, <1>2, <1>b, <2>2, RoundOnward
    <3>3. b[r.virt] = Asked(r.phys, r.flags)
      <4>1. r.virt < r.virt + r.length /\ r.virt \in r.virt .. r.virt + 1 - 1
        BY <1>3
      <4>2. r.phys + r.virt - r.virt = r.phys
        BY <1>3, <1>4
      <4> QED BY <1>3, <1>b, <3>2, <4>1, <4>2
    <3>4. ASSUME NEW u \in Pages \ {r.virt} PROVE b[u] = asked[u]
      <4>1. u \in Nat
        BY VmmAssumption DEF Pages
      <4>2. u \notin r.virt .. r.virt + n - 1
        BY <1>3, <3>2, <4>1
      <4> QED BY <1>b, <4>2
    <3> HIDE DEF w
    <3>5. CASE Prefix(2, r.virt) \notin big
      <4>1. Anew(b, r.virt, Asked(r.phys, r.flags))
        BY <3>3, <3>4 DEF Anew
      <4>2. Result(MapPage(From(free), r.virt, r.phys, r.flags), free, b, td)
        BY <1>3, <1>4, <1>p, <1>t, <3>2, <3>5, <4>1, MapPageResult
      <4> QED BY <3>1, <4>2
    <3>6. CASE Prefix(2, r.virt) \in big
      <4>1. /\ asked[r.virt] # NULL /\ asked[r.virt] = PartSays(p, r.virt)
            /\ asked[r.virt].frame - IndexOf(1, r.virt) \in Overlaid(machine)
        BY <1>2, <1>t, <2>2, <3>6, RoundOver DEF StandsWith
      <4>2. Asked(r.phys, r.flags) = PartSays(p, r.virt)
        <5>1. r.flags \ {"P"} = p.flags
          BY <1>p
        <5> QED BY <1>p, <5>1 DEF Asked, PartSays
      <4>3. \A u \in Pages : b[u] = asked[u]
        BY <3>3, <3>4, <4>1, <4>2
      <4>4. Told(machine, b) = Told(machine, asked)
        BY <4>3 DEF Told
      <4>5. Result(MapPage(From(free), r.virt, r.phys, r.flags), free, b, td)
        BY <1>3, <1>4, <1>t, <3>2, <3>6, <4>1, <4>3, <4>4, MapOverResult
      <4> QED BY <3>1, <4>5
    <3> QED BY <3>5, <3>6
  <2> QED BY <2>1, <2>2
<1> HIDE DEF w
<1> QED BY <1>5, <1>6

\* What a mapping does to the frames.
LEMMA SpaceFrom ==
  ASSUME Inv, pml4 # NULL, NEW avail \in SUBSET free, NEW w, NEW b, NEW td, Result(w, avail, b, td),
         Becomes(w), machine' = machine, pml4' = pml4,
         asked' = IF w.at = NULL THEN asked ELSE b, todo' = IF w.at = NULL THEN todo ELSE td,
         NEW S \in SUBSET free, S \cap avail = {}, held' = held \cup S
  PROVE  Space' /\ Blank' /\ mem' \in Memories
<1>1. mem' = w.mem /\ free' = w.free /\ tables' = w.tables
  BY DEF Becomes
<1>2. /\ w.mem \in Memories /\ w.free \subseteq avail /\ w.tables \subseteq tables \cup avail
      /\ w.free \cap w.tables = {} /\ tables \subseteq w.tables
      /\ \A f \in Frames \ (w.tables \cup Overlaid(machine)), i \in Index : w.mem[f][i] = mem[f][i]
  BY DEF Result
<1>3. Stands(machine', mem', tables', asked', pml4', todo')
  BY <1>1 DEF Result
<1>u. Untouched'
  BY <1>1, <1>2 DEF Inv, Space, Untouched
<1>4. Owned'
  BY <1>1, <1>2 DEF Inv, Space, Owned
<1>5. Built'
  BY <1>3 DEF Built
<1>6. Blank'
  BY DEF Blank
<1> QED BY <1>1, <1>2, <1>4, <1>5, <1>6, <1>u DEF Space

LEMMA VmmMapRange == Inv /\ vmm_map_range => Inv'
<1> SUFFICES ASSUME Inv, vmm_map_range PROVE Inv'
  OBVIOUS
<1> DEFINE m == machine  r == Head(todo)  n == IF fits_large(r) THEN E ELSE 1
           b == [v \in Pages |->
                IF v \in r.virt .. r.virt + n - 1 /\ v < r.virt + r.length
                THEN Asked(r.phys + v - r.virt, r.flags) ELSE asked[v]]
           rest == Extent(r.virt + n, r.phys + n, r.length - n, r.flags)
           td == <<rest>> \o Tail(todo)
<1>1. /\ cr3 = NULL /\ ~panic /\ todo # <<>> /\ r.length > 0
      /\ machine' = machine /\ held' = held /\ pml4' = pml4 /\ cr3' = cr3 /\ nxe' = nxe
      /\ devices' = devices /\ tlb' = tlb
  BY DEF vmm_map_range, Mapping
<1>2. m \in Machines /\ todo \in Seq(Extents) /\ pml4 # NULL
  BY <1>1 DEF Inv, Typing, Blank
<1>3. r = todo[1] /\ 1 \in DOMAIN todo
  BY <1>1, <1>2
<1>4. PICK p \in Parts(m) : Rest(r, p)
  BY <1>3 DEF Inv, Todo
<1>5. Round(r, p, n)
  BY <1>1, <1>4 DEF Round
<1>6. PICK w :
        /\ Result(w, free, b, td) /\ Becomes(w) /\ panic' = (w.at = NULL)
        /\ w.at = NULL => todo' = todo /\ asked' = asked
        /\ w.at # NULL => todo' = td /\ asked' = b
  <2> HIDE DEF b, n, r, rest, td
  <2>1. td = Left(r, n)
    BY DEF td, rest, Left
  <2>2. b = Asking(r, n)
    BY DEF b, Asking
  <2> QED BY <1>5, <2>1, <2>2, MapRangeResult, SMTT(30)
<1>7. /\ r.virt \in Pages /\ r.virt \in Nat /\ r.phys \in Frames /\ r.flags \in AskedFlags
      /\ n \in Nat /\ 1 <= n /\ n <= r.length /\ r.length \in Int
      /\ \A u \in r.virt .. r.virt + n - 1 :
           u \in PagesIn(p) /\ u \in Pages /\ r.phys + u - r.virt = u + p.shift
      /\ (r.virt + n) % E = 0 \/ ~LargeIn(p, (r.virt + n) \div E)
  BY <1>2, <1>5, RoundFacts
<1>8. /\ r.flags = p.flags \cup {"P"} /\ r.phys = r.virt + p.shift /\ p.first <= r.virt
      /\ r.virt + r.length = p.end /\ p.flags \in SUBSET {"W", "NX"} /\ p.shift \in Int
      /\ p.first \in Nat /\ p.end \in Nat
  BY <1>2, <1>4, PartFacts DEF Rest
<1>9. \A u \in Pages : b[u] = IF u \in r.virt .. r.virt + n - 1 THEN PartSays(p, u) ELSE asked[u]
  <2> SUFFICES ASSUME NEW u \in Pages
               PROVE  b[u] = IF u \in r.virt .. r.virt + n - 1 THEN PartSays(p, u) ELSE asked[u]
    OBVIOUS
  <2>1. CASE u \in r.virt .. r.virt + n - 1
    <3>1. u < r.virt + r.length /\ r.phys + u - r.virt = u + p.shift
      BY <1>7, <2>1
    <3>2. r.flags \ {"P"} = p.flags
      BY <1>8
    <3>3. b[u] = Asked(r.phys + u - r.virt, r.flags)
      BY <2>1, <3>1
    <3> HIDE DEF b, r, n
    <3> QED BY <2>1, <3>1, <3>2, <3>3 DEF Asked, PartSays
  <2>2. CASE u \notin r.virt .. r.virt + n - 1
    BY <2>2
  <2> QED BY <2>1, <2>2
<1>10. DOMAIN b = Pages /\ \A u \in Pages : b[u] \in [frame : Frames, flags : AskedFlags] \cup {NULL}
  <2>1. ASSUME NEW u \in Pages PROVE b[u] \in [frame : Frames, flags : AskedFlags] \cup {NULL}
    <3>1. CASE u \in r.virt .. r.virt + n - 1
      <4>1. u + p.shift \in Frames /\ p.flags \in AskedFlags
        BY <1>2, <1>7, <1>8, <3>1, PartFacts DEF AskedFlags
      <4>2. b[u] = PartSays(p, u)
        BY <1>9, <3>1
      <4> HIDE DEF b
      <4> QED BY <4>1, <4>2 DEF PartSays
    <3>2. CASE u \notin r.virt .. r.virt + n - 1
      <4>1. b[u] = asked[u]
        BY <1>9, <3>2
      <4> HIDE DEF b
      <4> QED BY <4>1 DEF Inv, Typing
    <3> QED BY <3>1, <3>2
  <2> QED BY <2>1
<1>11. b \in [Pages -> [frame : Frames, flags : AskedFlags] \cup {NULL}]
  <2>1. b = [u \in Pages |-> b[u]]
    OBVIOUS
  <2> HIDE DEF b
  <2> QED BY <1>10, <2>1
<1>12. /\ rest.virt = r.virt + n /\ rest.phys = r.phys + n /\ rest.length = r.length - n
       /\ rest.flags = r.flags
  BY DEF Extent
<1>13. rest \in Extents
  <2>1. /\ r.virt + n \in Int /\ r.phys + n \in Int /\ r.length - n \in Int
        /\ r.flags \in SUBSET {"P", "W", "NX"}
    BY <1>7, <1>8, VmmAssumption
  <2> HIDE DEF r, n
  <2> QED BY <2>1 DEF Extent, Extents
<1>d. td = <<rest>> \o Tail(todo)
  OBVIOUS
<1> HIDE DEF b, n, r, rest, td
<1>14. Rest(rest, p)
  <2>1. r.phys + n = (r.virt + n) + p.shift /\ (r.virt + n) + (r.length - n) = p.end
    BY <1>7, <1>8
  <2>2. p.first <= r.virt + n
    BY <1>7, <1>8
  <2> QED BY <1>7, <1>8, <1>12, <2>1, <2>2 DEF Rest
<1>15. w.at # NULL =>
         /\ todo' \in Seq(Extents) /\ DOMAIN todo' = DOMAIN todo /\ todo'[1] = rest
         /\ \A i \in DOMAIN todo : i # 1 => todo'[i] = todo[i]
  BY <1>1, <1>2, <1>6, <1>13, <1>d
<1>16. asked' = (IF w.at = NULL THEN asked ELSE b) /\ todo' = (IF w.at = NULL THEN todo ELSE td)
  BY <1>6
<1>17. Space' /\ Blank' /\ mem' \in Memories
  <2>1. {} \in SUBSET free /\ {} \cap free = {} /\ held' = held \cup {} /\ free \in SUBSET free
    BY <1>1
  <2> QED BY <1>1, <1>2, <1>6, <1>16, <2>1, SpaceFrom
<1>18. Typing'
  <2>1. asked' \in [Pages -> [frame : Frames, flags : AskedFlags] \cup {NULL}]
    BY <1>11, <1>16 DEF Inv, Typing
  <2>2. todo' \in Seq(Extents) /\ panic' \in BOOLEAN
    BY <1>2, <1>6, <1>15
  <2> QED BY <1>1, <1>17, <2>1, <2>2 DEF Inv, Typing
<1>19. Todo'
  <2>1. CASE w.at = NULL
    BY <1>1, <1>6, <2>1 DEF Inv, Todo
  <2>2. CASE w.at # NULL
    <3>1. \A i \in DOMAIN todo' : \E q \in Parts(m) : Rest(todo'[i], q)
      BY <1>14, <1>15, <2>2 DEF Inv, Todo
    <3> QED BY <1>1, <3>1 DEF Todo
  <2> QED BY <2>1, <2>2
<1>20. Covered'
  <2>1. CASE w.at = NULL
    BY <1>1, <1>6, <2>1 DEF Inv, Covered, InTodo, Settled
  <2>2. CASE w.at # NULL
    <3>1. SUFFICES ASSUME NEW q \in Parts(m), NEW v \in PagesIn(q)
                   PROVE  Settled(q, v)' \/ (asked'[v] = NULL /\ InTodo(v)')
      BY <1>1 DEF Covered
    <3>2. v \in Pages /\ v \in Nat
      BY <1>2, PartFacts, VmmAssumption DEF Pages
    <3>3. CASE v \in r.virt .. r.virt + n - 1
      <4>1. PartSays(q, v) = PartSays(p, v)
        BY <1>2, <1>7, <3>3, PartFacts DEF PartSays
      <4>2. asked'[v] = PartSays(q, v)
        BY <1>9, <1>16, <2>2, <3>2, <3>3, <4>1
      <4>3. PartSays(q, v)' = PartSays(q, v)
        BY DEF PartSays
      <4> QED BY <4>2, <4>3 DEF Settled
    <3>4. CASE v \notin r.virt .. r.virt + n - 1
      <4>1. asked'[v] = asked[v]
        BY <1>9, <1>16, <2>2, <3>2, <3>4
      <4>2. ASSUME InTodo(v) PROVE InTodo(v)'
        <5>1. PICK i \in DOMAIN todo : v \in todo[i].virt .. todo[i].virt + todo[i].length - 1
          BY <4>2 DEF InTodo
        <5>2. CASE i = 1
          <6>1. v \in rest.virt .. rest.virt + rest.length - 1
            <7>1. v \in r.virt .. r.virt + r.length - 1
              BY <1>3, <5>1, <5>2
            <7>2. v \in r.virt + n .. r.virt + n + (r.length - n) - 1
              BY <1>7, <3>2, <3>4, <7>1
            <7> QED BY <1>12, <7>2
          <6> QED BY <1>3, <1>15, <2>2, <6>1 DEF InTodo
        <5>3. CASE i # 1
          BY <1>15, <2>2, <5>1, <5>3 DEF InTodo
        <5> QED BY <5>2, <5>3
      <4>3. Settled(q, v) \/ (asked[v] = NULL /\ InTodo(v))
        BY <1>2 DEF Inv, Covered
      <4>4. Settled(q, v) => Settled(q, v)'
        BY <1>1, <4>1 DEF Settled
      <4> QED BY <4>1, <4>2, <4>3, <4>4
    <3> QED BY <3>3, <3>4
  <2> QED BY <2>1, <2>2
<1>21. Cached'
  BY <1>1 DEF Inv, Cached
<1> QED BY <1>17, <1>18, <1>19, <1>20, <1>21 DEF Inv

LEMMA WriteCr3 == Inv /\ write_cr3 => Inv'
<1> SUFFICES ASSUME Inv, write_cr3 PROVE Inv'
  OBVIOUS
<1>1. /\ cr3 = NULL /\ pml4 # NULL /\ todo = <<>> /\ cr3' = pml4 /\ tlb' = <<>>
      /\ devices' = <<machine.lapic, machine.ioapic>>
      /\ machine' = machine /\ mem' = mem /\ free' = free /\ tables' = tables /\ held' = held
      /\ pml4' = pml4 /\ nxe' = nxe /\ todo' = todo /\ asked' = asked /\ panic' = panic
  BY DEF write_cr3, memory
<1>2. Typing'
  <2>1. devices' \in Seq({machine'.lapic, machine'.ioapic})
    BY <1>1
  <2> QED BY <1>1, <2>1 DEF Inv, Typing
<1>3. Blank' /\ Space'
  BY <1>1 DEF Inv, Blank, Space, Built, Owned, Untouched
<1>c. Covered'
  <2>1. \A p, v : Settled(p, v) => Settled(p, v)'
    BY <1>1 DEF Settled
  <2> QED BY <1>1, <2>1 DEF Inv, Covered, InTodo
<1>4. Todo'
  BY <1>1 DEF Inv, Todo
<1>5. Cached'
  BY <1>1 DEF Cached
<1> QED BY <1>2, <1>3, <1>4, <1>5, <1>c DEF Inv

\* What is asked when page v has been mapped.
With(v, x) == [asked EXCEPT ![v] = x]
Same == machine' = machine /\ pml4' = pml4 /\ cr3' = cr3 /\ nxe' = nxe /\ todo' = todo
Only(v, f, flags) ==
  \/ asked' = asked
  \/ asked'[v] = Asked(f, flags) /\ \A u \in Pages \ {v} : asked'[u] = asked[u]

\* vmm_map_page in the current space, when its walk leaves what it should.
LEMMA Flushed ==
  ASSUME Inv, Running, NEW avail \in SUBSET free, NEW v \in Pages,
         NEW f \in Frames, NEW flags \in AskedFlags, vmm_map_page(avail, v, f, flags),
         Result(MapPage(From(avail), v, f, flags), avail, With(v, Asked(f, flags)), todo), Same,
         NEW S \in SUBSET free, S \cap avail = {}, held' = held \cup S
  PROVE  /\ Space' /\ Blank' /\ Todo' /\ Cached' /\ mem' \in Memories
         /\ asked' \in [Pages -> [frame : Frames, flags : AskedFlags] \cup {NULL}]
         /\ Only(v, f, flags)
<1> DEFINE b == With(v, Asked(f, flags))
           w == MapPage(From(avail), v, f, flags)
<1>1. /\ machine \in Machines /\ cr3 # NULL /\ cr3 = pml4 /\ pml4 # NULL
      /\ asked \in [Pages -> [frame : Frames, flags : AskedFlags] \cup {NULL}]
      /\ machine' = machine /\ pml4' = pml4 /\ cr3' = cr3 /\ nxe' = nxe /\ todo' = todo
  BY DEF Inv, Typing, Running, Same
<1>2. /\ Becomes(w)
      /\ w.at = NULL => asked' = asked /\ tlb' = tlb
      /\ w.at # NULL => asked' = b /\ flush_tlb(v)
  BY <1>1 DEF vmm_map_page, With
<1>4. b[v] = Asked(f, flags) /\ \A u \in Pages \ {v} : b[u] = asked[u]
  BY <1>1 DEF With
<1>5. b \in [Pages -> [frame : Frames, flags : AskedFlags] \cup {NULL}]
  <2>1. Asked(f, flags) \in [frame : Frames, flags : AskedFlags]
    BY DEF Asked, AskedFlags
  <2> QED BY <1>1, <2>1 DEF With
<1>6. Result(w, avail, b, todo)
  OBVIOUS
<1> HIDE DEF b, w
<1>7. asked' = (IF w.at = NULL THEN asked ELSE b) /\ todo' = IF w.at = NULL THEN todo ELSE todo
  BY <1>1, <1>2
<1>8. Space' /\ Blank' /\ mem' \in Memories
  BY <1>1, <1>2, <1>6, <1>7, SpaceFrom
<1>9. \A u \in Pages \ {v} : asked'[u] = asked[u]
  BY <1>4, <1>7
<1>10. Only(v, f, flags)
  BY <1>4, <1>7 DEF Only
<1>11. Todo'
  BY <1>1 DEF Inv, Todo
<1>12. Cached'
  <2>1. DOMAIN tlb \subseteq HeapPages /\ HeapPages \subseteq Pages
        /\ \A u \in DOMAIN tlb : tlb[u] = asked[u]
    BY VmmAssumption DEF Inv, Cached
  <2>2. CASE w.at = NULL
    BY <1>1, <1>2, <2>2 DEF Inv, Cached
  <2>3. CASE w.at # NULL
    <3>1. tlb' = [u \in DOMAIN tlb \ {v} |-> tlb[u]]
      BY <1>2, <2>3 DEF flush_tlb
    <3>2. DOMAIN tlb' = DOMAIN tlb \ {v} /\ \A u \in DOMAIN tlb \ {v} : tlb'[u] = tlb[u]
      BY <3>1
    <3>3. \A u \in DOMAIN tlb' : tlb'[u] = asked'[u]
      BY <1>9, <2>1, <3>2
    <3> QED BY <1>1, <2>1, <3>2, <3>3 DEF Cached
  <2> QED BY <2>2, <2>3
<1>13. asked' \in [Pages -> [frame : Frames, flags : AskedFlags] \cup {NULL}]
  BY <1>1, <1>5, <1>7
<1> QED BY <1>8, <1>10, <1>11, <1>12, <1>13

\* A page in no large page, mapped after the switch.
LEMMA SmallMapped ==
  ASSUME Inv, pml4 # NULL, NEW avail \in SUBSET free, NEW v \in Pages,
         Prefix(2, v) \notin Large(machine), NEW f \in Frames, NEW flags \in AskedFlags
  PROVE  Result(MapPage(From(avail), v, f, flags), avail, With(v, Asked(f, flags)), todo)
<1> DEFINE b == With(v, Asked(f, flags))
<1>1. PICK big, lost : StandsWith(big, lost)
  BY StandsSomehow
<1>2. Prefix(2, v) \notin big
  BY <1>1 DEF StandsWith, Done
<1>3. Anew(b, v, Asked(f, flags))
  BY DEF Anew, With, Inv, Typing
<1>4. Onward(todo, big)
  BY DEF Onward
<1> HIDE DEF b
<1>5. Result(MapPage(From(avail), v, f, flags), avail, b, todo)
  BY <1>1, <1>2, <1>3, <1>4, MapPageResult
<1> QED BY <1>5 DEF b

\* A page of no part, mapped after the switch.
LEMMA VmmMapPage ==
  ASSUME Inv, Running, NEW avail \in SUBSET free, NEW v \in Pages,
         \A p \in Parts(machine) : v \notin PagesIn(p),
         NEW f \in Frames, NEW flags \in AskedFlags, vmm_map_page(avail, v, f, flags), Same,
         NEW S \in SUBSET free, S \cap avail = {}, held' = held \cup S
  PROVE  /\ Space' /\ Blank' /\ Todo' /\ Covered' /\ Cached' /\ mem' \in Memories
         /\ asked' \in [Pages -> [frame : Frames, flags : AskedFlags] \cup {NULL}]
<1>1. machine \in Machines /\ pml4 # NULL
  BY DEF Inv, Typing, Running
<1>2. Prefix(2, v) \notin Large(machine)
  BY <1>1, NotLarge
<1>3. Result(MapPage(From(avail), v, f, flags), avail, With(v, Asked(f, flags)), todo)
  BY <1>1, <1>2, SmallMapped
<1>4. /\ Space' /\ Blank' /\ Todo' /\ Cached' /\ mem' \in Memories
      /\ asked' \in [Pages -> [frame : Frames, flags : AskedFlags] \cup {NULL}]
      /\ Only(v, f, flags)
  BY <1>3, Flushed
<1>5. \A u \in Pages \ {v} : asked'[u] = asked[u]
  BY <1>4 DEF Only
<1>6. Covered'
  BY <1>1, <1>5, StillCovered DEF Inv, Same
<1> QED BY <1>4, <1>6

\* A device's page v. It may be one of the direct map's, and in a large page.
LEMMA DeviceMapped ==
  ASSUME Inv, Running, NEW f \in Frames, NEW v, v = P2V(f), v \in DevicePages(machine),
         NEW flags, flags = {"P", "W", "CD"}
  PROVE  Result(MapPage(From(free), v, f, flags), free, With(v, Asked(f, flags)), todo)
<1> DEFINE b == With(v, Asked(f, flags))
<1>1. /\ machine \in Machines /\ pml4 # NULL /\ cr3 # NULL /\ todo = <<>>
      /\ \A u \in Pages : asked[u] \in Asks \cup {NULL}
  BY DEF Inv, Typing, Running, Todo, Asks
<1>2. /\ v \in Pages /\ flags \in AskedFlags /\ free \in SUBSET free
      /\ f \in Nat /\ Hhdm \in Nat /\ v = f + Hhdm
  BY <1>1, PartFacts, VmmAssumption DEF AskedFlags, P2V
<1>3. CASE Prefix(2, v) \notin Large(machine)
  BY <1>1, <1>2, <1>3, SmallMapped
<1>4. CASE Prefix(2, v) \in Large(machine)
  <2>1. PICK big, lost : StandsWith(big, lost)
    BY <1>1, StandsSomehow
  <2>2. Prefix(2, v) \in big
    <3>1. ~Pending(todo, Prefix(2, v))
      BY <1>1 DEF Pending
    <3> QED BY <1>4, <2>1, <3>1 DEF StandsWith, Done
  <2>3. PICK p \in Parts(machine) : LargeIn(p, v \div E)
    BY <1>1, <1>2, <1>4, LargeFacts
  <2>4. v \in PagesIn(p) /\ p \notin Exclusive(machine)
    BY <1>1, <1>2, <2>3, LargeFacts, PartFacts
  <2>5. InDirectMap(p) /\ v + p.shift = f /\ p.flags = {"W"}
    <3>1. InDirectMap(p)
      BY <1>1, <2>4, PartFacts
    <3> QED BY <1>2, <3>1 DEF InDirectMap
  <2>6. asked[v] = PartSays(p, v) \/ asked[v] = Uncached(p, v)
    BY <1>1, <2>4 DEF Inv, Covered, InTodo, Settled
  <2>7. /\ PartSays(p, v) \in Asks /\ Uncached(p, v) \in Asks
        /\ Plain(Uncached(p, v)) = PartSays(p, v) /\ Plain(PartSays(p, v)) = PartSays(p, v)
        /\ NULL \notin Asks
    BY <1>1, <2>4, AsksFacts
  <2>8. asked[v] # NULL /\ Plain(asked[v]) = PartSays(p, v) /\ asked[v].frame = f
    BY <2>5, <2>6, <2>7 DEF PartSays, Uncached
  <2>9. Asked(f, flags) = Uncached(p, v)
    <3>1. flags \ {"P"} = {"W"} \cup {"CD"}
      OBVIOUS
    <3> QED BY <2>5, <3>1 DEF Asked, Uncached
  <2>10. /\ b[v] = Uncached(p, v) /\ (\A u \in Pages \ {v} : b[u] = asked[u])
    <3>1. b[v] = Asked(f, flags) /\ (\A u \in Pages \ {v} : b[u] = asked[u])
      BY <1>2 DEF With, Inv, Typing
    <3> QED BY <2>9, <3>1
  <2> HIDE DEF b
  <2>11. Told(machine, b) = Told(machine, asked)
    <3>1. ASSUME NEW u \in Pages
          PROVE  (IF b[u] # NULL /\ Prefix(2, u) \in Large(machine) THEN Plain(b[u]) ELSE b[u])
                 = IF asked[u] # NULL /\ Prefix(2, u) \in Large(machine)
                   THEN Plain(asked[u]) ELSE asked[u]
      <4>1. CASE u = v
        BY <1>4, <2>7, <2>8, <2>10, <4>1
      <4>2. CASE u # v
        BY <2>10, <4>2
      <4> QED BY <4>1, <4>2
    <3> QED BY <3>1, Zenon DEF Told
  <2>12. \A u \in Pages : asked[u] # NULL => b[u] # NULL
    BY <2>7, <2>10
  <2>13. asked[v].frame - IndexOf(1, v) \in Overlaid(machine)
    <3> DEFINE x == LargePage(v)  y == IndexOf(1, v)  k == p.shift
    <3>1. x + k \in Overlaid(machine)
      BY <1>1, <1>2, <2>3, OverlaidHas
    <3>2. v = x + y /\ x \in Nat
      BY <1>1, <1>2, BlockFacts
    <3>3. y \in Nat
      <4>1. 1 \in 1 .. 4
        OBVIOUS
      <4>2. IndexOf(1, v) \in Index
        BY <1>2, <4>1, PrefixFacts
      <4> QED BY <4>2, VmmAssumption DEF Index
    <3>4. k \in Int /\ v + k = f
      BY <1>1, <2>5, PartFacts
    <3> HIDE DEF x, y, k
    <3>5. f - y = x + k
      BY <1>2, <3>2, <3>3, <3>4
    <3> QED BY <2>8, <3>1, <3>5 DEF y
  <2>14. Onward(todo, big)
    BY DEF Onward
  <2>15. Result(MapPage(From(free), v, f, flags), free, b, todo)
    BY <1>2, <2>1, <2>2, <2>8, <2>11, <2>12, <2>13, <2>14, MapOverResult
  <2> QED BY <2>15 DEF b
<1> QED BY <1>3, <1>4

LEMMA MapDevice ==
  ASSUME Inv, Running, Len(devices) > 0, map_device
  PROVE  Inv'
<1>1. devices \in Seq({machine.lapic, machine.ioapic}) /\ machine \in Machines
  BY DEF Inv, Typing
<1> DEFINE f == Head(devices)  v == P2V(f)  flags == {"P", "W", "CD"}
<1>2. f \in {machine.lapic, machine.ioapic} /\ Tail(devices) \in Seq({machine.lapic, machine.ioapic})
  BY <1>1
<1>3. /\ vmm_map_page(free, v, f, flags)
      /\ panic' = (asked'[v] = NULL) /\ devices' = Tail(devices)
      /\ held' = held /\ Same
  BY DEF map_device, Same
<1>4. f \in Frames /\ v \in DevicePages(machine)
  BY <1>1, <1>2, MachineFacts DEF DevicePages
<1>5. flags \in AskedFlags /\ free \in SUBSET free /\ v \in Pages
      /\ {} \in SUBSET free /\ {} \cap free = {} /\ held' = held \cup {}
  BY <1>1, <1>3, <1>4, PartFacts DEF AskedFlags
<1>v. v = P2V(f) /\ flags = {"P", "W", "CD"}
  OBVIOUS
<1> HIDE DEF f, v, flags
<1>6. Result(MapPage(From(free), v, f, flags), free, With(v, Asked(f, flags)), todo)
  BY <1>4, <1>v, DeviceMapped
<1>7. /\ Space' /\ Blank' /\ Todo' /\ Cached' /\ mem' \in Memories
      /\ asked' \in [Pages -> [frame : Frames, flags : AskedFlags] \cup {NULL}]
      /\ Only(v, f, flags)
  BY <1>3, <1>4, <1>5, <1>6, Flushed
<1>8. /\ machine' = machine /\ pml4' = pml4 /\ cr3' = cr3 /\ nxe' = nxe /\ todo' = todo
      /\ cr3 # NULL /\ f \in Nat /\ Hhdm \in Nat
  BY <1>3, <1>4, VmmAssumption DEF Same, Running
<1>9. Typing'
  <2>1. panic' \in BOOLEAN /\ devices' \in Seq({machine'.lapic, machine'.ioapic})
    BY <1>2, <1>3, <1>8
  <2> QED BY <1>7, <1>8, <2>1 DEF Inv, Typing
<1>10. Covered'
  <2>1. SUFFICES ASSUME pml4 # NULL, NEW p \in Parts(machine), NEW u \in PagesIn(p)
                 PROVE  Settled(p, u)' \/ (asked'[u] = NULL /\ InTodo(u)')
    BY <1>8 DEF Covered
  <2>2. Settled(p, u) \/ (asked[u] = NULL /\ InTodo(u))
    BY <2>1 DEF Inv, Covered
  <2>3. InTodo(u)' = InTodo(u)
    BY <1>8 DEF InTodo
  <2>4. asked'[u] = asked[u] => (Settled(p, u) => Settled(p, u)')
    BY <1>8 DEF Settled
  <2>5. CASE asked'[u] = asked[u]
    BY <2>2, <2>3, <2>4, <2>5
  <2>6. CASE asked'[u] # asked[u]
    <3>1. u = v /\ asked'[u] = Asked(f, flags)
      <4>1. u \in Pages
        BY <1>1, <2>1, PartFacts
      <4> QED BY <1>7, <2>6, <4>1 DEF Only
    <3>2. v + p.shift = f /\ p.flags = {"W"}
      <4>1. InDirectMap(p)
        BY <1>1, <1>4, <3>1, PartFacts
      <4> QED BY <1>8, <1>v, <4>1 DEF InDirectMap, P2V
    <3>3. flags \ {"P"} = p.flags \cup {"CD"}
      BY <1>v, <3>2
    <3>4. asked'[u] = Uncached(p, u)
      BY <3>1, <3>2, <3>3 DEF Asked, Uncached
    <3>5. u \in DevicePages(machine)' /\ cr3' # NULL
      BY <1>4, <1>8, <3>1 DEF DevicePages
    <3>6. Uncached(p, u)' = Uncached(p, u)
      BY DEF Uncached
    <3> QED BY <3>4, <3>5, <3>6 DEF Settled
  <2> QED BY <2>5, <2>6
<1> QED BY <1>7, <1>9, <1>10 DEF Inv

LEMMA Devices == Inv /\ (lapic_init \/ ioapic_init_keyboard) => Inv'
<1> SUFFICES ASSUME Inv, lapic_init \/ ioapic_init_keyboard PROVE Inv'
  OBVIOUS
<1>1. Running /\ Len(devices) > 0 /\ map_device
  BY DEF lapic_init, ioapic_init_keyboard
<1> QED BY <1>1, MapDevice

LEMMA ExpandHeap == Inv /\ (\E v \in HeapPages : expand_heap(v)) => Inv'
<1> SUFFICES ASSUME Inv, NEW v \in HeapPages, expand_heap(v) PROVE Inv'
  OBVIOUS
<1>1. /\ Running /\ free # {} /\ vmm_map_page(free \ {Lowest}, v, Lowest, {"P", "W"})
      /\ held' = held \cup {Lowest}
      /\ machine' = machine /\ pml4' = pml4 /\ cr3' = cr3 /\ nxe' = nxe /\ todo' = todo
      /\ devices' = devices /\ panic' = panic /\ Same
  BY DEF expand_heap, Same
<1>2. machine \in Machines /\ free \in SUBSET Frames
  BY MachineFacts DEF Inv, Typing, Space, Owned
<1>3. Lowest \in free
  BY <1>1, <1>2, LowestFree DEF Lowest
<1> DEFINE f == Lowest  S == {f}  avail == free \ {f}
<1>4. v \in Pages /\ \A p \in Parts(machine) : v \notin PagesIn(p)
  BY <1>2, PartFacts, VmmAssumption
<1>5. /\ {"P", "W"} \in AskedFlags /\ avail \in SUBSET free /\ S \in SUBSET free
      /\ S \cap avail = {} /\ held' = held \cup S /\ f \in Frames
      /\ vmm_map_page(avail, v, f, {"P", "W"})
  BY <1>1, <1>2, <1>3 DEF AskedFlags
<1> HIDE DEF f, S, avail
<1>6. /\ Space' /\ Blank' /\ Todo' /\ Covered' /\ Cached' /\ mem' \in Memories
      /\ asked' \in [Pages -> [frame : Frames, flags : AskedFlags] \cup {NULL}]
  BY <1>1, <1>4, <1>5, VmmMapPage
<1>7. Typing'
  BY <1>1, <1>6 DEF Inv, Typing
<1> QED BY <1>6, <1>7 DEF Inv

\* The present entries a walk from table r reads on its way to the last table of page v.
OnWalk(m, r, v, e4, e3, e2) ==
  /\ e4 = m[r][IndexOf(4, v)]        /\ Present(e4)
  /\ e3 = m[e4.frame][IndexOf(3, v)] /\ Present(e3)
  /\ e2 = m[e3.frame][IndexOf(2, v)] /\ Present(e2)

\* An entry of a mapped heap page is cleared, and nothing else is.
LEMMA Unmapped ==
  ASSUME NEW m \in Memories, NEW T, NEW a, NEW b, NEW r, NEW big, Good(m, T, a, r, big),
         NEW v \in Pages, Prefix(2, v) \notin big,
         b[v] = NULL, \A u \in Pages \ {v} : b[u] = a[u],
         NEW e4, NEW e3, NEW e2, OnWalk(m, r, v, e4, e3, e2)
  PROVE  /\ e2.frame \in T /\ Put(m, e2.frame, IndexOf(1, v), Empty) \in Memories
         /\ Good(Put(m, e2.frame, IndexOf(1, v), Empty), T, b, r, big)
<1>1. PICK lvl \in [T -> 1 .. 4], key \in [T -> Nat] : Tree(m, T, lvl, key, a, r, big)
  BY DEF Good
<1> DEFINE t == e2.frame  i == IndexOf(1, v)
<1>2. /\ e4 = m[r][IndexOf(4, v)] /\ e3 = m[e4.frame][IndexOf(3, v)]
      /\ e2 = m[e3.frame][IndexOf(2, v)]
      /\ Present(e4) /\ Present(e3) /\ Present(e2)
  BY DEF OnWalk
<1>3. r \in T /\ lvl[r] = 4 /\ key[r] = Top(lvl[r], v) /\ T \in SUBSET Frames
  BY <1>1 DEF Tree, Top
<1> HIDE DEF t, i
<1>4. e4.frame \in T /\ lvl[e4.frame] = 3 /\ key[e4.frame] = Top(lvl[e4.frame], v)
  <2>1. e4 = m[r][IndexOf(lvl[r], v)]
    BY ONLY <1>2, <1>3
  <2>2. /\ NamesTable(e4) => /\ e4.frame \in T /\ lvl[e4.frame] = lvl[r] - 1
                             /\ key[e4.frame] = Top(lvl[e4.frame], v)
        /\ Present(e4) => NamesTable(e4)
    BY ONLY <1>1, <1>3, <2>1, v \in Pages, Descend
  <2>3. NamesTable(e4)
    BY <1>2, <2>2
  <2> QED BY ONLY <1>1, <1>3, <2>2, <2>3
<1>5. e3.frame \in T /\ lvl[e3.frame] = 2 /\ key[e3.frame] = Top(lvl[e3.frame], v)
  <2>1. e3 = m[e4.frame][IndexOf(lvl[e4.frame], v)]
    BY ONLY <1>2, <1>4
  <2>2. /\ NamesTable(e3) => /\ e3.frame \in T /\ lvl[e3.frame] = lvl[e4.frame] - 1
                             /\ key[e3.frame] = Top(lvl[e3.frame], v)
        /\ Present(e3) => NamesTable(e3)
    BY ONLY <1>1, <1>4, <2>1, v \in Pages, Descend
  <2>3. NamesTable(e3)
    BY <1>2, <2>2
  <2> QED BY ONLY <1>1, <1>4, <2>2, <2>3
<1>6. t \in T /\ lvl[t] = 1 /\ key[t] = Top(1, v)
  <2>1. e2 = m[e3.frame][IndexOf(lvl[e3.frame], v)]
    BY ONLY <1>2, <1>5
  <2>2. /\ EntryGood(e2, lvl[e3.frame], Prefix(lvl[e3.frame], v), T, lvl, key, a, big)
        /\ NamesTable(e2) /\ lvl[e3.frame] # 1 =>
             /\ e2.frame \in T /\ lvl[e2.frame] = lvl[e3.frame] - 1
             /\ key[e2.frame] = Top(lvl[e2.frame], v)
    BY ONLY <1>1, <1>5, <2>1, v \in Pages, Descend
  <2>3. /\ EntryGood(e2, 2, Prefix(2, v), T, lvl, key, a, big)
        /\ NamesTable(e2) => t \in T /\ lvl[t] = 1 /\ key[t] = Top(lvl[t], v)
    BY ONLY <1>5, <2>2 DEF t
  <2>4. NamesTable(e2)
    BY ONLY Prefix(2, v) \notin big, <1>2, <2>3 DEF EntryGood, NamesTable
  <2> QED BY ONLY <2>3, <2>4
<1>7. /\ i \in Index /\ Top(1, v) \in Nat /\ Slot(Top(1, v), i) = Prefix(1, v)
      /\ Empty \in [frame : Frames, flags : SUBSET {"P", "W", "U", "NX", "CD", "PS"}]
  <2>1. 1 \in 1 .. 4
    OBVIOUS
  <2>2. Empty \in [frame : Frames, flags : SUBSET {"P", "W", "U", "NX", "CD", "PS"}]
    BY VmmAssumption DEF Empty, Entry
  <2> QED BY <2>1, <2>2, TopFacts DEF i
<1>8. TableAt(m, T, a, r, big, t, 1, Top(1, v))
  BY ONLY <1>1, <1>6 DEF TableAt
<1>9. LeafGood(Empty, 1, Prefix(1, v), b, big) /\ OnlyAt(1, Prefix(1, v), a, b)
  <2>1. \A u \in Pages : Prefix(1, u) = u
    BY DEF Prefix
  <2> QED BY <2>1, EmptyFacts DEF LeafGood, OnlyAt, Ends, NamesTable, IsLeaf
<1>10. TableAt(Put(m, t, i, Empty), T, b, r, big, t, 1, Top(1, v))
  <2>1. 1 \in 1 .. 2
    OBVIOUS
  <2> QED BY <1>6, <1>7, <1>8, <1>9, <2>1, LeafWritten
<1>11. Good(Put(m, t, i, Empty), T, b, r, big)
  BY ONLY <1>10 DEF TableAt, Good
<1>12. Put(m, t, i, Empty) \in Memories
  BY ONLY <1>10 DEF TableAt, Tree
<1> QED BY ONLY <1>6, <1>11, <1>12 DEF t, i

LEMMA VmmUnmapPage == Inv /\ (\E v \in HeapPages : vmm_unmap_page(v)) => Inv'
<1> SUFFICES ASSUME Inv, NEW v \in HeapPages, vmm_unmap_page(v) PROVE Inv'
  OBVIOUS
<1> DEFINE e4 == mem[pml4][IndexOf(4, v)]
           e3 == mem[e4.frame][IndexOf(3, v)]
           e2 == mem[e3.frame][IndexOf(2, v)]
           t == e2.frame  b == [asked EXCEPT ![v] = NULL]
<1>1. /\ machine \in Machines /\ cr3 # NULL /\ cr3 = pml4 /\ pml4 # NULL /\ mem \in Memories
      /\ asked \in [Pages -> [frame : Frames, flags : AskedFlags] \cup {NULL}]
  BY DEF Inv, Typing, vmm_unmap_page, Running
<1>2. /\ Present(e4) /\ Present(e3) /\ Present(e2)
      /\ mem' = Put(mem, t, IndexOf(1, v), Empty)
      /\ asked' = b /\ tlb' = [u \in DOMAIN tlb \ {v} |-> tlb[u]]
      /\ machine' = machine /\ free' = free /\ tables' = tables /\ held' = held
      /\ pml4' = pml4 /\ cr3' = cr3 /\ nxe' = nxe /\ todo' = todo /\ devices' = devices
      /\ panic' = panic
  BY <1>1, IndexFacts DEF vmm_unmap_page, flush_tlb, Put
<1>3. v \in Pages /\ \A p \in Parts(machine) : v \notin PagesIn(p)
  BY <1>1, PartFacts, VmmAssumption
<1>4. Prefix(2, v) \notin Large(machine)
  BY <1>1, <1>3, NotLarge
<1>s. PICK big, lost : StandsWith(big, lost)
  BY <1>1, StandsSomehow
<1> DEFINE T == tables \ lost  a == Told(machine, asked)  c == Told(machine, b)
<1>5. /\ b[v] = NULL /\ \A u \in Pages \ {v} : b[u] = asked[u]
      /\ b \in [Pages -> [frame : Frames, flags : AskedFlags] \cup {NULL}]
  BY <1>1, <1>3
<1>6. Good(mem, T, a, pml4, big) /\ Prefix(2, v) \notin big
  BY <1>4, <1>s DEF StandsWith, Done
<1>c. c[v] = NULL /\ \A u \in Pages \ {v} : c[u] = a[u]
  BY <1>3, <1>5 DEF Told
<1> HIDE DEF b, T, a, c
<1>7. /\ t \in T /\ Put(mem, t, IndexOf(1, v), Empty) \in Memories
      /\ Good(Put(mem, t, IndexOf(1, v), Empty), T, c, pml4, big)
  <2>1. OnWalk(mem, pml4, v, e4, e3, e2)
    BY <1>2 DEF OnWalk
  <2> HIDE DEF e4, e3, e2
  <2> QED BY ONLY <1>1, <1>3, <1>6, <1>c, <2>1, Unmapped DEF t
<1> HIDE DEF e4, e3, e2, t
<1>8. Typing'
  BY <1>1, <1>2, <1>5, <1>7 DEF Inv, Typing
<1>9. Space' /\ Blank'
  <2>1. Fits(machine, mem', tables, b, pml4, big)
    BY <1>2, <1>7, <1>s DEF Fits, StandsWith, T, c
  <2>2. Done(machine, b, big, todo)
    <3>1. \A u \in Pages : Prefix(2, u) \in big => b[u] = asked[u]
      BY <1>5, <1>6
    <3> QED BY <1>s, <3>1 DEF StandsWith, Done
  <2>3. Built'
    BY <1>2, <2>1, <2>2 DEF Built, Stands
  <2>4. Untouched'
    <3>1. \A g \in Frames \ tables, i \in Index : mem'[g][i] = mem[g][i]
      <4>1. t \in tables
        BY <1>7 DEF T
      <4>2. \A g \in Frames \ {t} : mem'[g] = mem[g]
        BY <1>1, <1>2 DEF Put, Memories
      <4> QED BY <4>1, <4>2
    <3> QED BY <1>2, <3>1 DEF Inv, Space, Untouched
  <2>5. Owned' /\ Blank'
    BY <1>1, <1>2 DEF Inv, Space, Owned, Blank
  <2> QED BY <2>3, <2>4, <2>5 DEF Space
<1>10. Todo'
  BY <1>2 DEF Inv, Todo
<1>11. \A u \in Pages \ {v} : asked'[u] = asked[u]
  BY <1>2, <1>5
<1>12. Covered'
  BY <1>1, <1>2, <1>3, <1>11, StillCovered DEF Inv
<1>13. Cached'
  <2>1. DOMAIN tlb \subseteq HeapPages /\ HeapPages \subseteq Pages
        /\ \A u \in DOMAIN tlb : tlb[u] = asked[u]
    BY VmmAssumption DEF Inv, Cached
  <2>2. DOMAIN tlb' = DOMAIN tlb \ {v} /\ \A u \in DOMAIN tlb \ {v} : tlb'[u] = tlb[u]
    BY <1>2
  <2>3. \A u \in DOMAIN tlb' : tlb'[u] = asked'[u]
    BY <1>11, <2>1, <2>2
  <2> QED BY <1>1, <1>2, <2>1, <2>2, <2>3 DEF Cached
<1> QED BY <1>8, <1>9, <1>10, <1>12, <1>13 DEF Inv

LEMMA PmmFreePage == Inv /\ (\E f \in held : pmm_free_page(f)) => Inv'
<1> SUFFICES ASSUME Inv, NEW f \in held, pmm_free_page(f) PROVE Inv'
  OBVIOUS
<1>1. /\ held' = held \ {f} /\ free' = free \cup {f} /\ machine' = machine /\ mem' = mem
      /\ tables' = tables /\ pml4' = pml4 /\ cr3' = cr3 /\ nxe' = nxe /\ todo' = todo
      /\ devices' = devices /\ tlb' = tlb /\ asked' = asked /\ panic' = panic
  BY DEF pmm_free_page
<1>2. Typing' /\ Todo' /\ Covered' /\ Cached'
  BY <1>1 DEF Inv, Typing, Todo, Covered, InTodo, Settled, Cached
<1>3. Space' /\ Blank'
  BY <1>1 DEF Inv, Space, Built, Owned, Untouched, Blank
<1> QED BY <1>2, <1>3 DEF Inv

\* The processor finds what the tables were told.
LEMMA Translated ==
  ASSUME Inv, pml4 # NULL, NEW v \in Pages
  PROVE  Translate(v) = Told(machine, asked)[v]
<1>1. PICK big, lost : StandsWith(big, lost)
  BY StandsSomehow
<1>2. nxe = TRUE /\ Good(mem, tables \ lost, Told(machine, asked), pml4, big)
  BY <1>1 DEF Inv, Typing, StandsWith
<1> QED BY <1>2, Walk

LEMMA HeapTranslated ==
  ASSUME Inv, pml4 # NULL, NEW v \in HeapPages
  PROVE  Translate(v) = asked[v]
<1>1. machine \in Machines /\ v \in Pages /\ \A u \in Pages : asked[u] \in Asks \cup {NULL}
  BY VmmAssumption DEF Inv, Typing, Asks
<1>2. Prefix(2, v) \notin Large(machine)
  BY <1>1, PartFacts, NotLarge
<1> QED BY <1>1, <1>2, Translated, ToldFacts

LEMMA FillTlb == Inv /\ (\E v \in HeapPages : Fill(v)) => Inv'
<1> SUFFICES ASSUME Inv, NEW v \in HeapPages, Fill(v) PROVE Inv'
  OBVIOUS
<1>1. /\ cr3 # NULL
      /\ tlb' = [u \in DOMAIN tlb \cup {v} |-> IF u = v THEN Translate(v) ELSE tlb[u]]
      /\ machine' = machine /\ mem' = mem /\ free' = free /\ tables' = tables /\ held' = held
      /\ pml4' = pml4 /\ cr3' = cr3 /\ nxe' = nxe /\ todo' = todo /\ devices' = devices
      /\ asked' = asked /\ panic' = panic
  BY DEF Fill, Running, memory
<1>2. Translate(v) = asked[v]
  <2>1. pml4 # NULL /\ nxe = TRUE /\ v \in Pages
    BY <1>1, VmmAssumption DEF Inv, Typing
  <2> QED BY <2>1, HeapTranslated
<1>3. Typing' /\ Todo' /\ Covered'
  BY <1>1 DEF Inv, Typing, Todo, Covered, InTodo, Settled
<1>4. Space' /\ Blank'
  BY <1>1 DEF Inv, Space, Built, Owned, Untouched, Blank
<1>5. Cached'
  BY <1>1, <1>2 DEF Inv, Cached
<1> QED BY <1>3, <1>4, <1>5 DEF Inv

LEMMA Unchanged == Inv /\ UNCHANGED vars => Inv'
<1> SUFFICES ASSUME Inv, UNCHANGED vars PROVE Inv'
  OBVIOUS
<1>1. /\ machine' = machine /\ mem' = mem /\ free' = free /\ tables' = tables /\ held' = held
      /\ pml4' = pml4 /\ cr3' = cr3 /\ nxe' = nxe /\ todo' = todo /\ devices' = devices
      /\ tlb' = tlb /\ asked' = asked /\ panic' = panic
  BY DEF vars, memory
<1>2. Typing' /\ Todo' /\ Covered' /\ Cached'
  BY <1>1 DEF Inv, Typing, Todo, Covered, InTodo, Settled, Cached
<1>3. Space' /\ Blank'
  BY <1>1 DEF Inv, Space, Built, Owned, Untouched, Blank
<1> QED BY <1>2, <1>3 DEF Inv

LEMMA NextKeeps == Inv /\ [Next]_vars => Inv'
<1> SUFFICES ASSUME Inv, [Next]_vars PROVE Inv'
  OBVIOUS
<1>1. CASE Boot
  BY <1>1, VmmInit, VmmMapRange, RangeDone, WriteCr3, Devices DEF Boot
<1>2. CASE Halted \/ heap_is_full \/ UNCHANGED vars
  BY <1>2, Unchanged DEF Halted, heap_is_full
<1>3. CASE \E v \in HeapPages : expand_heap(v) \/ vmm_unmap_page(v) \/ Fill(v)
  BY <1>3, ExpandHeap, VmmUnmapPage, FillTlb
<1>4. CASE \E f \in held : pmm_free_page(f)
  BY <1>4, PmmFreePage
<1> QED BY <1>1, <1>2, <1>3, <1>4 DEF Next

\* Whatever the machine reports and whoever asks, the tables stay a tree that says what
\* was asked for, what is still to be mapped is accounted for, and the TLB agrees.
THEOREM Invariance == Spec => []Inv
<1>1. Init => Inv
  BY InitInv
<1>2. Inv /\ [Next]_vars => Inv'
  BY NextKeeps
<1> QED BY <1>1, <1>2, PTL DEF Spec

(***************************************************************************)
(* The properties                                                          *)
(***************************************************************************)
LEMMA EntriesOK == mem \in Memories => \A f \in Frames : \A i \in Index : EntryOK(mem[f][i])
<1> SUFFICES ASSUME mem \in Memories, NEW f \in Frames, NEW i \in Index PROVE EntryOK(mem[f][i])
  OBVIOUS
<1>1. mem[f][i] \in [frame : Frames, flags : SUBSET {"P", "W", "U", "NX", "CD", "PS"}] \cup {Junk}
  BY DEF Memories
<1>2. CASE mem[f][i] = Junk
  BY <1>2, VmmAssumption
<1>3. CASE mem[f][i] \in [frame : Frames, flags : SUBSET {"P", "W", "U", "NX", "CD", "PS"}]
  BY <1>3 DEF EntryOK
<1> QED BY <1>1, <1>2, <1>3

\* Every entry of every table names a frame that exists: no walk of vmm.c or of
\* the processor leaves memory.
THEOREM VmmTypeOK == Spec => []TypeOK
<1>1. Inv => TypeOK
  <2> SUFFICES ASSUME Inv PROVE TypeOK
    OBVIOUS
  <2>1. machine \in Machines /\ mem \in Memories
    BY DEF Inv, Typing
  <2>2. free \subseteq Frames /\ tables \subseteq Frames /\ held \subseteq Frames
    BY <2>1, MachineFacts DEF Inv, Space, Owned
  <2>3. \A v \in Pages : asked[v] = NULL \/ asked[v].frame \in Frames
    BY DEF Inv, Typing
  <2>4. DOMAIN tlb \subseteq HeapPages
    BY DEF Inv, Cached
  <2> QED BY <2>1, <2>2, <2>3, <2>4, EntriesOK DEF TypeOK, Inv, Typing
<1> QED BY <1>1, Invariance, PTL

\* vmm.c never uses one frame for two tables, and writes no frame that is neither a table
\* nor overlaid; where no parts overlap it loses none either. Whether its calls succeed
\* or run out of memory half way.
THEOREM VmmTablesExact == Spec => []TablesExact
<1>1. Inv => TablesExact
  <2> SUFFICES ASSUME Inv PROVE TablesExact
    OBVIOUS
  <2>1. /\ machine \in Machines /\ tables \subseteq machine.free
        /\ free \subseteq machine.free /\ held \subseteq machine.free
        /\ tables \cap (free \cup held) = {} /\ Overlaid(machine) \cap machine.free = {}
    BY OverlaidReserved DEF Inv, Typing, Space, Owned
  <2>2. /\ \A f \in Frames \ (tables \cup Overlaid(machine)) : \A i \in Index : mem[f][i] = Junk
        /\ (tables \cup Overlaid(machine)) \cap (free \cup held) = {}
        /\ tables \cap Overlaid(machine) = {}
    BY <2>1 DEF Inv, Space, Untouched
  <2>3. CASE pml4 = NULL
    BY <2>2, <2>3 DEF TablesExact
  <2>4. CASE pml4 # NULL
    <3>1. PICK big, lost : StandsWith(big, lost)
      BY <2>4, StandsSomehow
    <3>2. IsTree(tables \ lost)
      BY <3>1, TreeIsExact DEF StandsWith
    <3>3. Apart(machine) => tables \ lost = tables
      BY <3>1 DEF StandsWith
    <3> QED BY <2>2, <3>2, <3>3 DEF TablesExact, IsTree
  <2> QED BY <2>3, <2>4
<1> QED BY <1>1, Invariance, PTL

\* Large pages and small ones, in any order and of any size, and of entries that overlap:
\* the processor finds each page where the last call of vmm.c that succeeded put it.
THEOREM VmmWalkExact == Spec => []WalkExact
<1>1. Inv => WalkExact
  <2> SUFFICES ASSUME Inv, pml4 # NULL, NEW v \in Pages PROVE Translate(v) = Granted(v)
    BY DEF WalkExact
  <2>1. machine \in Machines /\ asked[v] \in Asks \cup {NULL}
    BY DEF Inv, Typing, Asks
  <2>2. InLargePage(v) <=> Prefix(2, v) \in Large(machine)
    BY <2>1, BlockFacts DEF InLargePage
  <2>3. ASSUME asked[v] # NULL
        PROVE  [asked[v] EXCEPT !.flags = @ \ {"CD"}] = Plain(asked[v])
    BY <2>1, <2>3 DEF Plain, Asks
  <2>4. Told(machine, asked)[v] = Granted(v)
    BY <2>2, <2>3 DEF Told, Granted
  <2> QED BY <2>4, Translated
<1> QED BY <1>1, Invariance, PTL

\* The flush of vmm_map_page and vmm_unmap_page is enough: no translation the
\* processor may have cached contradicts the tables.
THEOREM VmmTlbFresh == Spec => []TlbFresh
<1>1. Inv => TlbFresh
  <2> SUFFICES ASSUME Inv, NEW v \in DOMAIN tlb PROVE tlb[v] = Translate(v)
    BY DEF TlbFresh
  <2>1. pml4 # NULL /\ v \in HeapPages /\ tlb[v] = asked[v]
    BY DEF Inv, Cached, Typing
  <2>2. Translate(v) = asked[v]
    BY <2>1, HeapTranslated
  <2> QED BY <2>1, <2>2
<1> QED BY <1>1, Invariance, PTL

\* What the parts of the space have become.
Stays(p, v) ==
  \/ Translate(v) = PartSays(p, v)
  \/ v \in DevicePages(machine) /\ Translate(v) = Uncached(p, v)

LEMMA PartsStand ==
  ASSUME Inv, cr3 # NULL
  PROVE  /\ \A p \in Parts(machine) : \A v \in PagesIn(p) : Stays(p, v)
         /\ \A p \in Exclusive(machine) : \A v \in PagesIn(p) : Translate(v) = PartSays(p, v)
<1>1. /\ pml4 # NULL /\ machine \in Machines /\ todo = <<>>
      /\ \A u \in Pages : asked[u] \in Asks \cup {NULL}
  BY DEF Inv, Typing, Todo, Asks
<1>2. ASSUME NEW p \in Parts(machine), NEW v \in PagesIn(p) PROVE Stays(p, v)
  <2>1. v \in Pages
    BY <1>1, PartFacts
  <2>2. ~InTodo(v)
    BY <1>1 DEF InTodo
  <2>3. Settled(p, v)
    BY <1>1, <2>2 DEF Inv, Covered
  <2>4. /\ PartSays(p, v) \in Asks /\ Uncached(p, v) \in Asks /\ NULL \notin Asks
        /\ Plain(Uncached(p, v)) = PartSays(p, v) /\ Plain(PartSays(p, v)) = PartSays(p, v)
    BY <1>1, AsksFacts
  <2>5. /\ Translate(v) = Told(machine, asked)[v] /\ asked[v] # NULL
        /\ Told(machine, asked)[v] = asked[v] \/ Told(machine, asked)[v] = Plain(asked[v])
    BY <1>1, <2>1, <2>3, <2>4, Translated, ToldFacts DEF Settled
  <2> QED BY <2>3, <2>4, <2>5 DEF Settled, Stays
<1>3. ASSUME NEW p \in Exclusive(machine), NEW v \in PagesIn(p)
      PROVE  Translate(v) = PartSays(p, v)
  <2>1. p \in Parts(machine) /\ v \notin DevicePages(machine)
    BY <1>1, PartFacts
  <2> QED BY <1>2, <2>1 DEF Stays
<1> QED BY <1>2, <1>3

\* A part of the direct map is reached.
LEMMA DirectMap ==
  ASSUME Inv, cr3 # NULL, NEW p, InDirectMap(p), NEW v \in PagesIn(p),
         NEW f, f = v + p.shift
  PROVE  /\ Stays(p, v) => Reaches(v, f)
         /\ Translate(v) = PartSays(p, v) => Translate(v) = Asked(f, {"W"})
<1>1. {"W"} \ {"P"} = p.flags /\ {"W", "CD"} \ {"P"} = p.flags \cup {"CD"}
  BY DEF InDirectMap
<1>2. PartSays(p, v) = Asked(f, {"W"}) /\ Uncached(p, v) = Asked(f, {"W", "CD"})
  BY <1>1 DEF PartSays, Uncached, Asked
<1> QED BY <1>2 DEF Stays, Reaches

\* Once write_cr3 has been reached the address space is whole and stays so: the
\* memory map, page tables included, the kernel with its protection and the
\* framebuffer, whatever the bootloader reported and vmm.c maps later.
THEOREM VmmSpaceComplete == Spec => []SpaceComplete
<1>1. Inv => SpaceComplete
  <2> SUFFICES ASSUME Inv, cr3 # NULL
               PROVE  /\ HhdmComplete /\ KernelProtected
                      /\ \A v \in PagesOf(machine.fb.address, machine.fb.size) :
                           Reaches(v, V2P(v))
    BY DEF SpaceComplete
  <2> DEFINE m == machine
  <2>1. m \in Machines /\ Hhdm \in Nat
    BY VmmAssumption DEF Inv, Typing
  <2>2. /\ \A p \in Parts(m) : \A v \in PagesIn(p) : Stays(p, v)
        /\ \A p \in Exclusive(m) : \A v \in PagesIn(p) : Translate(v) = PartSays(p, v)
    BY PartsStand
  <2>3. m.physical_base \in Nat /\ m.virtual_base \in Nat
        /\ m.fb.address \in Nat /\ m.fb.size \in Nat
    BY <2>1, MachineFacts
  <2> HIDE DEF m
  <2>4. ASSUME NEW e \in Range(m.memmap), NEW f \in PagesOf(e.base, e.length)
        PROVE  Reaches(P2V(f), f)
    <3> DEFINE p == MemoryPart(e)
               x == PageDown(e.base)  y == PageUp(e.base + e.length)
    <3>1. p \in Parts(m)
      BY DEF Parts
    <3>2. p.first = x + Hhdm /\ p.end = y + Hhdm /\ p.shift = -Hhdm
      BY DEF MemoryPart, Part, P2V
    <3>3. x \in Nat /\ y \in Nat /\ InDirectMap(p)
      <4>1. e \in [base : Nat, length : Nat, usable : BOOLEAN]
        BY <2>1, ReportFacts
      <4>2. e.base \in Nat /\ e.base + e.length \in Nat
        BY <4>1
      <4> QED BY <2>1, <4>1, <4>2, PageFacts, PartBounds
    <3>4. f \in x .. y - 1
      BY DEF PagesOf
    <3> HIDE DEF p, x, y
    <3>5. P2V(f) \in PagesIn(p) /\ f = P2V(f) + p.shift
      BY <2>1, <3>2, <3>3, <3>4 DEF PagesIn, P2V
    <3>6. Stays(p, P2V(f))
      BY <2>2, <3>1, <3>5
    <3> QED BY <3>3, <3>5, <3>6, DirectMap
  <2>5. HhdmComplete
    <3>1. ASSUME NEW f \in tables PROVE Translate(P2V(f)) = Asked(f, {"W"})
      <4>1. f \in m.free
        BY DEF Inv, Space, Owned, m
      <4>2. PICK p \in UsableParts(m) : \E v \in PagesIn(p) : f = V2P(v)
        BY <2>1, <4>1, MachineFacts
      <4>3. PICK v \in PagesIn(p) : f = V2P(v)
        BY <4>2
      <4>4. p \in Exclusive(m) /\ p \in Parts(m)
        BY <2>1, PartFacts DEF Exclusive
      <4>5. InDirectMap(p) /\ v \in Nat
        <5>1. PICK e \in Range(m.memmap) : p = MemoryPart(e)
          BY DEF UsableParts
        <5>2. e \in [base : Nat, length : Nat, usable : BOOLEAN]
          BY <2>1, ReportFacts
        <5>3. InDirectMap(p)
          BY <2>1, <5>1, <5>2, PartBounds
        <5>4. v \in Pages
          BY <2>1, <4>4, PartFacts
        <5> QED BY <5>3, <5>4, VmmAssumption DEF Pages
      <4>6. f = v + p.shift /\ P2V(f) = v
        BY <2>1, <4>3, <4>5 DEF V2P, P2V, InDirectMap
      <4>7. Translate(v) = PartSays(p, v)
        BY <2>2, <4>4
      <4> QED BY <4>5, <4>6, <4>7, DirectMap
    <3> QED BY <2>4, <3>1 DEF HhdmComplete, m
  <2>6. ASSUME NEW s \in Range(m.sections), NEW v \in PagesOf(s.start, s.end - s.start)
        PROVE  Translate(v) = Asked(m.physical_base + v - m.virtual_base, s.flags)
    <3> DEFINE p == SectionPart(m, s)  x == PageDown(s.start)  y == PageUp(s.end)
               b == m.physical_base  a == m.virtual_base
    <3>1. p \in Exclusive(m)
      BY DEF Exclusive, SectionParts
    <3>2. p.first = x /\ p.end = y /\ p.shift = b - a /\ p.flags = s.flags
      BY DEF SectionPart, Part
    <3>3. s.start \in Nat /\ s.end \in Nat /\ s.flags \in SUBSET {"W", "NX"}
      <4>1. s \in [start : Nat, end : Nat, flags : SUBSET {"W", "NX"}]
        BY <2>1, ReportFacts
      <4> QED BY <4>1
    <3>4. x \in Nat /\ y \in Nat /\ a \in Nat /\ b \in Nat
      BY <2>3, <3>3, PageFacts
    <3>5. v \in x .. y - 1
      <4>1. s.start + (s.end - s.start) = s.end
        BY <3>3
      <4> QED BY <4>1 DEF PagesOf
    <3> HIDE DEF p, x, y, a, b
    <3>6. v \in PagesIn(p) /\ v + p.shift = b + v - a
      BY <3>2, <3>4, <3>5 DEF PagesIn
    <3>7. PartSays(p, v) = Asked(b + v - a, s.flags)
      <4>1. s.flags \ {"P"} = p.flags
        BY <3>2, <3>3
      <4> QED BY <3>6, <4>1 DEF PartSays, Asked
    <3>8. Translate(v) = Asked(b + v - a, s.flags)
      BY <2>2, <3>1, <3>6, <3>7
    <3> QED BY <3>8 DEF a, b
  <2>7. KernelProtected
    BY <2>6 DEF KernelProtected, m
  <2>8. ASSUME NEW v \in PagesOf(m.fb.address, m.fb.size) PROVE Reaches(v, V2P(v))
    <3> DEFINE p == FramebufferPart(m)
               x == PageDown(m.fb.address)  y == PageUp(m.fb.address + m.fb.size)
    <3>1. p \in Parts(m) /\ InDirectMap(p)
      BY <2>1, PartBounds DEF Parts
    <3>2. p.first = x /\ p.end = y /\ p.shift = -Hhdm
      BY DEF FramebufferPart, Part
    <3>3. x \in Nat /\ y \in Nat
      <4>1. m.fb.address \in Nat /\ m.fb.address + m.fb.size \in Nat
        BY <2>3
      <4> QED BY <4>1, PageFacts
    <3>4. v \in x .. y - 1
      BY DEF PagesOf
    <3> HIDE DEF p, x, y
    <3>5. v \in PagesIn(p) /\ V2P(v) = v + p.shift
      BY <2>1, <3>2, <3>3, <3>4 DEF PagesIn, V2P
    <3>6. Stays(p, v)
      BY <2>2, <3>1, <3>5
    <3> QED BY <3>1, <3>5, <3>6, DirectMap
  <2> QED BY <2>5, <2>7, <2>8 DEF m
<1> QED BY <1>1, Invariance, PTL
====
