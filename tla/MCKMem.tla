---- MODULE MCKMem ----
(***************************************************************************)
(* KMem with every length that takes a different path: no word, one group  *)
(* of four words and more, each alignment of dest.                         *)
(***************************************************************************)
EXTENDS KMem

Lengths == 0 .. 60
NoCalls == {}

CopyCalls == [dest : 0 .. 7, src : {70, 75}, n : Lengths]
SetCalls == [dest : 0 .. 7, c : {0, 255, -1, 300}, n : Lengths]

\* dest before, after and equal to the source, never overlapping it in part;
\* and overlapping it, inside it or before it as when the screen scrolls.
MoveApart == [dest : {1}, src : {65}, n : Lengths]
               \cup [dest : {65}, src : {0, 3}, n : Lengths]
               \cup [dest : {3}, src : {3}, n : Lengths]
MoveOverlapping ==
  {k \in [dest : 0 .. 8, src : {0, 8}, n : 1 .. 20] :
     (k.dest < k.src /\ k.src < k.dest + k.n) \/ (k.src < k.dest /\ k.dest < k.src + k.n)}

\* One difference, or none.
Differences(n) == {{}} \cup {{i} : i \in 0 .. n - 1}
CompareCalls(lengths) == UNION {
  [p1 : {8}, p2 : {70}, n : {n}, differ : Differences(n), by : {-1, 1}] : n \in lengths}
\* p1 = p2 included.
ShortComparisons == CompareCalls(0 .. 7)
               \cup [p1 : {8}, p2 : {70}, n : 8 .. 45, differ : {{}}, by : {1}]
               \cup [p1 : {8}, p2 : {8}, n : 0 .. 45, differ : {{}}, by : {1}]
LongComparisons == CompareCalls({8, 12, 33})
====
