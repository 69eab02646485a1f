---- MODULE PageAllocator ----
(***************************************************************************)
(* What a physical page allocator promises its callers, with nothing said  *)
(* about bitmaps, words or search hints: every page it hands out was free, *)
(* nobody else holds it, and NULL is an answer only when memory is short.  *)
(* Pmm.tla, the translation of kernel/memory/pmm.c, implements it.         *)
(***************************************************************************)
EXTENDS Integers

CONSTANT Counts            \* the run lengths callers ask for

VARIABLES
  free,                    \* the pages that may be handed out
  held,                    \* the pages handed out and not given back
  answer,                  \* the last request: pages asked, first page returned
  halted                   \* the kernel panicked: nothing happens any more

pvars == <<free, held, answer, halted>>

NULL == 0                  \* the null pointer is the address of page 0
Frames == Nat \ {NULL}
Run(s, n) == s .. s + n - 1
Answer(n, s) == [count |-> n, page |-> s]

PInit == free = {} /\ held = {} /\ answer = Answer(0, NULL) /\ halted = FALSE

\* Memory is found at boot, and again when the bootloader's is given up.
AddMemory ==
  /\ free \subseteq free'
  /\ free' \subseteq Frames \ held
  /\ UNCHANGED <<held, answer, halted>>

\* The n pages of a grant are free and adjacent, and are the ones returned.
Grant(n) == \E s \in free :
  /\ Run(s, n) \subseteq free
  /\ free' = free \ Run(s, n)
  /\ held' = held \cup Run(s, n)
  /\ answer' = Answer(n, s)
  /\ UNCHANGED halted

\* A request for n pages is refused only when no 2n - 1 adjacent pages are
\* free: a request for one page, only when no page is.
Refuse(n) ==
  /\ n > 0 => \A s \in free : ~(Run(s, 2 * n - 1) \subseteq free)
  /\ answer' = Answer(n, NULL)
  /\ UNCHANGED <<free, held, halted>>

\* Callers give back pages they hold, and these are free again. A panic in
\* the middle may leave only some of them returned.
GiveBack ==
  /\ held' \subseteq held
  /\ free' = free \cup (held \ held')
  /\ halted' \in {halted, TRUE}
  /\ UNCHANGED answer

PNext ==
  /\ ~halted
  /\ \/ AddMemory
     \/ \E n \in Counts : n > 0 /\ Grant(n)
     \/ \E n \in Counts : Refuse(n)
     \/ GiveBack

PSpec == PInit /\ [][PNext]_pvars
====
