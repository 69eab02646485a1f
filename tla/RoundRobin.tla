---- MODULE RoundRobin ----
(***************************************************************************)
(* What a round-robin scheduler promises: the runnable threads form a ring *)
(* in the order they were started, the processor passes from a thread to   *)
(* its successor and to no other, and a thread that ends leaves the ring   *)
(* and hands the processor to the thread that followed it.                 *)
(***************************************************************************)
EXTENDS Integers, Sequences

CONSTANTS Main, Workers, None

VARIABLES
  ring,                    \* the runnable threads, in starting order
  cur,                     \* the thread on the processor
  heir                     \* who follows a thread that has left the ring

rvars == <<ring, cur, heir>>

InRing(t) == \E i \in DOMAIN ring : ring[i] = t
Place(t) == CHOOSE i \in DOMAIN ring : ring[i] = t
Succ(t) == IF Place(t) = Len(ring) THEN ring[1] ELSE ring[Place(t) + 1]

RRInit == ring = <<Main>> /\ cur = Main /\ heir = None

Join == \E t \in Workers :
  /\ ~InRing(t)
  /\ ring' = Append(ring, t)
  /\ UNCHANGED <<cur, heir>>

Yield ==
  /\ InRing(cur)
  /\ cur' = Succ(cur)
  /\ UNCHANGED <<ring, heir>>

Leave ==
  /\ cur \in Workers /\ InRing(cur)
  /\ heir' = Succ(cur)
  /\ ring' = SubSeq(ring, 1, Place(cur) - 1) \o SubSeq(ring, Place(cur) + 1, Len(ring))
  /\ UNCHANGED cur

HandOver ==
  /\ ~InRing(cur)
  /\ cur' = heir /\ heir' = None
  /\ UNCHANGED ring

RRNext == Join \/ Yield \/ Leave \/ HandOver
RRSpec == RRInit /\ [][RRNext]_rvars
====
