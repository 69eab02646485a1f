---- MODULE CharQueue ----
(***************************************************************************)
(* What the keyboard driver promises its readers: a queue of at most Size  *)
(* characters, in the order of the key presses, each given to one reader.  *)
(***************************************************************************)
EXTENDS Naturals, Sequences

CONSTANTS Size, Chars, Readers, None

VARIABLES
  queue,                   \* the characters nobody has read yet
  got                      \* the character a reader's call is about to return

vars == <<queue, got>>

QInit == queue = <<>> /\ got = [p \in Readers |-> None]

Type(ch) ==
  /\ Len(queue) < Size
  /\ queue' = Append(queue, ch)
  /\ UNCHANGED got

Take(p) ==
  /\ queue # <<>> /\ got[p] = None
  /\ got' = [got EXCEPT ![p] = Head(queue)]
  /\ queue' = Tail(queue)

Hand(p) ==
  /\ got[p] # None
  /\ got' = [got EXCEPT ![p] = None]
  /\ UNCHANGED queue

QNext ==
  \/ \E ch \in Chars : Type(ch)
  \/ \E p \in Readers : Take(p) \/ Hand(p)

QSpec == QInit /\ [][QNext]_vars
====
