---- MODULE Regions ----
(***************************************************************************)
(* What a heap promises: regions of memory, each granted to one owner, none *)
(* overlapping another while both are live. A region changes only by its   *)
(* own owner's call.                                                       *)
(***************************************************************************)
EXTENDS Naturals

CONSTANTS Addresses, Lengths

VARIABLE live              \* address -> length of each region granted

Bytes(p, n) == p .. p + n - 1
Clear(p, n, others) ==
  \A q \in others : Bytes(p, n) \cap Bytes(q, live[q]) = {}
With(p, n, others) ==
  [q \in others \cup {p} |-> IF q = p THEN n ELSE live[q]]

RInit == live = [p \in {} |-> 0]

Grant(p, n) ==
  /\ p \notin DOMAIN live /\ Clear(p, n, DOMAIN live)
  /\ live' = With(p, n, DOMAIN live)

GiveBack(p) ==
  LET others == DOMAIN live \ {p} IN
  p \in DOMAIN live /\ live' = [q \in others |-> live[q]]

\* The region stays or moves; the others are where they were.
Resize(p, q, n) ==
  LET others == DOMAIN live \ {p} IN
  /\ p \in DOMAIN live /\ q \notin others /\ Clear(q, n, others)
  /\ live' = With(q, n, others)

RNext ==
  \/ \E p \in Addresses, n \in Lengths : Grant(p, n)
  \/ \E p \in DOMAIN live : GiveBack(p)
  \/ \E p \in DOMAIN live, q \in Addresses, n \in Lengths : Resize(p, q, n)

RSpec == RInit /\ [][RNext]_live
====
