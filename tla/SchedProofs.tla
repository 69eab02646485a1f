---- MODULE SchedProofs ----
(***************************************************************************)
(* Proofs about Sched for any number of workers, whatever they do: the     *)
(* ready queue stays one ring of the threads that run, each with its own   *)
(* stack, no thread leads the kernel astray, and the code implements       *)
(* RoundRobin, as long as no thread is started while one that ends runs,   *)
(* and no tick is taken by a thread that is ending.                        *)
(***************************************************************************)
EXTENDS Sched, FiniteSetTheorems, TLAPS

Fenced == ~Overlap /\ ~LateTick

(***************************************************************************)
(* Rings                                                                   *)
(***************************************************************************)

\* What is linked on S alone decides whether S is a ring.
LEMMA RingSame ==
  ASSUME NEW S, NEW f, NEW b, NEW g, NEW c, IsRing(S, f, b),
         \A x \in S : g[x] = f[x] /\ c[x] = b[x]
  PROVE  IsRing(S, g, c)
<1>1. \A n \in S : g[n] \in S /\ c[g[n]] = n /\ c[n] \in S /\ g[c[n]] = n
  BY DEF IsRing
<1>2. \A part \in SUBSET S :
        part # {} /\ (\A n \in part : g[n] \in part) => part = S
  BY DEF IsRing
<1> QED BY <1>1, <1>2 DEF IsRing

\* list_add_tail: a node linked between another and the one before it.
LEMMA RingInsert ==
  ASSUME NEW S, NEW f, NEW b, IsRing(S, f, b), NEW h \in S, NEW n, n \notin S,
         NEW g, NEW c, g[n] = h, g[b[h]] = n, \A x \in S \ {b[h]} : g[x] = f[x],
         c[h] = n, c[n] = b[h], \A x \in S \ {h} : c[x] = b[x]
  PROVE  IsRing(S \cup {n}, g, c)
<1> DEFINE T == S \cup {n}  p == b[h]
<1>1. p \in S /\ f[p] = h /\ \A x \in S : f[x] \in S /\ b[x] \in S /\ b[f[x]] = x /\ f[b[x]] = x
  BY DEF IsRing
<1> HIDE DEF p
<1>2. g[n] = h /\ g[p] = n /\ c[n] = p /\ \A x \in S \ {p} : g[x] = f[x]
  BY DEF p
<1>3. ASSUME NEW x \in T PROVE g[x] \in T /\ c[g[x]] = x /\ c[x] \in T /\ g[c[x]] = x
  <2>1. CASE x = n
    BY <1>1, <1>2, <2>1
  <2>2. CASE x \in S /\ x # n
    <3>1. g[x] \in T /\ c[g[x]] = x
      <4>1. CASE x = p
        BY <1>1, <1>2, <4>1
      <4>2. CASE x # p
        <5>1. g[x] = f[x] /\ f[x] \in S /\ f[x] # h
          BY <1>1, <1>2, <2>2, <4>2
        <5> QED BY <1>1, <5>1, <2>2
      <4> QED BY <4>1, <4>2
    <3>2. c[x] \in T /\ g[c[x]] = x
      <4>1. CASE x = h
        BY <1>1, <1>2, <4>1
      <4>2. CASE x # h
        <5>1. c[x] = b[x] /\ b[x] \in S /\ b[x] # p
          BY <1>1, <2>2, <4>2
        <5> QED BY <1>1, <1>2, <5>1, <2>2
      <4> QED BY <4>1, <4>2
    <3> QED BY <3>1, <3>2
  <2> QED BY <2>1, <2>2
<1>4. ASSUME NEW part \in SUBSET T, part # {}, \A x \in part : g[x] \in part PROVE part = T
  <2> DEFINE old == part \ {n}
  <2>1. n \in part => h \in part
    BY <1>2, <1>4
  <2>2. old # {} /\ old \in SUBSET S
    BY <1>1, <1>4, <2>1
  <2>3. p \in part => n \in part
    BY <1>2, <1>4
  <2>4. \A x \in old : f[x] \in old
    <3> SUFFICES ASSUME NEW x \in old PROVE f[x] \in old
      OBVIOUS
    <3>1. x \in S /\ f[x] \in S /\ f[x] # n
      BY <1>1, <2>2
    <3>2. CASE x = p
      BY <1>1, <2>1, <2>3, <3>1, <3>2
    <3>3. CASE x # p
      BY <1>2, <1>4, <3>1, <3>3
    <3> QED BY <3>2, <3>3
  <2>5. old = S
    BY <2>2, <2>4 DEF IsRing
  <2>6. n \in part
    BY <1>1, <2>3, <2>5
  <2> QED BY <2>5, <2>6
<1> QED BY <1>3, <1>4 DEF IsRing

\* list_del: the node's neighbours linked to each other.
LEMMA RingDelete ==
  ASSUME NEW S, NEW f, NEW b, IsRing(S, f, b), NEW n \in S, f[n] # n,
         NEW g, NEW c, g[b[n]] = f[n], \A x \in S \ {n, b[n]} : g[x] = f[x],
         c[f[n]] = b[n], \A x \in S \ {n, f[n]} : c[x] = b[x]
  PROVE  IsRing(S \ {n}, g, c)
<1> DEFINE T == S \ {n}  p == b[n]  q == f[n]
<1>1. /\ p \in S /\ q \in S /\ f[p] = n /\ b[q] = n /\ q # n
      /\ \A x \in S : f[x] \in S /\ b[x] \in S /\ b[f[x]] = x /\ f[b[x]] = x
  BY DEF IsRing
<1>2. p # n
  BY <1>1
<1> HIDE DEF p, q
<1>3. g[p] = q /\ c[q] = p /\ f[n] = q /\ b[n] = p
      /\ (\A x \in S \ {n, p} : g[x] = f[x]) /\ \A x \in S \ {n, q} : c[x] = b[x]
  BY DEF p, q
<1>4. ASSUME NEW x \in T PROVE g[x] \in T /\ c[g[x]] = x
  <2>1. CASE x = p
    BY <1>1, <1>3, <2>1
  <2>2. CASE x # p
    <3>1. g[x] = f[x] /\ f[x] \in S /\ f[x] # n /\ f[x] # q
      BY <1>1, <1>3, <2>2
    <3> QED BY <1>1, <1>3, <3>1
  <2> QED BY <2>1, <2>2
<1>5. ASSUME NEW x \in T PROVE c[x] \in T /\ g[c[x]] = x
  <2>1. CASE x = q
    BY <1>1, <1>2, <1>3, <2>1
  <2>2. CASE x # q
    <3>1. c[x] = b[x] /\ b[x] \in S /\ b[x] # n /\ b[x] # p
      BY <1>1, <1>3, <2>2
    <3> QED BY <1>1, <1>3, <3>1
  <2> QED BY <2>1, <2>2
<1>6. ASSUME NEW part \in SUBSET T, part # {}, \A x \in part : g[x] \in part PROVE part = T
  <2>1. CASE p \in part
    <3> DEFINE whole == part \cup {n}
    <3>1. q \in part
      BY <1>3, <1>6, <2>1
    <3>2. \A x \in whole : f[x] \in whole
      <4> SUFFICES ASSUME NEW x \in part, x # p PROVE f[x] \in whole
        BY <1>1, <1>3, <3>1
      <4> QED BY <1>3, <1>6
    <3>3. whole \in SUBSET S /\ whole # {}
      BY <1>6
    <3>4. whole = S
      BY <3>2, <3>3 DEF IsRing
    <3> QED BY <1>6, <3>4
  <2>2. CASE p \notin part
    <3>1. \A x \in part : f[x] \in part
      BY <1>3, <1>6, <2>2
    <3>2. part = S
      BY <1>6, <3>1 DEF IsRing
    <3> QED BY <1>6, <3>2
  <2> QED BY <2>1, <2>2
<1> QED BY <1>4, <1>5, <1>6 DEF IsRing

(***************************************************************************)
(* Stacks                                                                  *)
(***************************************************************************)
PCs == {"body", "hlt", "terminated", "trampoline", "schedule", "pick", "switch", "return"}
Stores == [field : {"next", "prev"}, node : Nodes \cup {NULL}, value : Nodes \cup {NULL}]
Frames == [pc : PCs, old : Threads \cup {NULL}, next : Nodes \cup {NULL},
           stores : Seq(Stores), isr : BOOLEAN]
Contexts == [on : Threads, frames : Seq(Frames)]

\* Everything below d's top frame is as in c.
Below(c, d) == \A i \in 1 .. Len(c.frames) - 1 : d.frames[i] = c.frames[i]

LEMMA Shorter == \A d \in Nat : \A i \in 2 .. d - 1 : i \in 2 .. d
OBVIOUS

LEMMA FrameFacts ==
  /\ \A pc \in PCs, isr \in BOOLEAN :
       /\ Frame(pc, isr) \in Frames
       /\ Frame(pc, isr).pc = pc /\ Frame(pc, isr).isr = isr /\ Frame(pc, isr).stores = <<>>
  /\ \A t \in Threads :
       /\ Fresh(t) \in Contexts /\ Fresh(t).on = t
       /\ Len(Fresh(t).frames) = 1 /\ Fresh(t).frames[1] = Frame("body", FALSE)
<1>1. \A pc \in PCs, isr \in BOOLEAN :
        /\ Frame(pc, isr) \in Frames
        /\ Frame(pc, isr).pc = pc /\ Frame(pc, isr).isr = isr /\ Frame(pc, isr).stores = <<>>
  BY DEF Frame, Frames
<1>2. Frame("body", FALSE) \in Frames
  BY <1>1 DEF PCs
<1>3. ASSUME NEW t \in Threads
      PROVE  /\ Fresh(t) \in Contexts /\ Fresh(t).on = t
             /\ Len(Fresh(t).frames) = 1 /\ Fresh(t).frames[1] = Frame("body", FALSE)
  <2> DEFINE f == Frame("body", FALSE)  s == <<f>>
  <2>1. Fresh(t) = [on |-> t, frames |-> s] /\ f \in Frames
    BY <1>2 DEF Fresh
  <2> HIDE DEF f
  <2>2. s \in Seq(Frames) /\ Len(s) = 1 /\ s[1] = f
    BY <2>1
  <2> HIDE DEF s
  <2>3. Fresh(t) \in Contexts /\ Fresh(t).on = t /\ Fresh(t).frames = s
    BY <2>1, <2>2 DEF Contexts
  <2> QED BY <2>2, <2>3 DEF f
<1> QED BY <1>1, <1>3

LEMMA Replaced ==
  ASSUME NEW c \in Contexts, Len(c.frames) >= 1, NEW f \in Frames
  PROVE  LET d == [c EXCEPT !.frames[Len(c.frames)] = f] IN
         /\ d \in Contexts /\ d.on = c.on
         /\ Len(d.frames) = Len(c.frames) /\ d.frames[Len(c.frames)] = f /\ Below(c, d)
<1> DEFINE d == [c EXCEPT !.frames[Len(c.frames)] = f]
           s == [c.frames EXCEPT ![Len(c.frames)] = f]
<1>1. c.frames \in Seq(Frames) /\ c.on \in Threads
  BY DEF Contexts
<1>2. /\ s \in Seq(Frames) /\ Len(s) = Len(c.frames) /\ s[Len(c.frames)] = f
      /\ \A i \in 1 .. Len(c.frames) - 1 : s[i] = c.frames[i]
  BY <1>1
<1> HIDE DEF s
<1>3. d = [c EXCEPT !.frames = s]
  BY DEF s, Contexts
<1>4. d \in Contexts /\ d.on = c.on /\ d.frames = s
  BY <1>1, <1>2, <1>3 DEF Contexts
<1> QED BY <1>2, <1>4 DEF Below

LEMMA Pushed ==
  ASSUME NEW c \in Contexts, NEW f \in Frames
  PROVE  /\ Push(c, f) \in Contexts /\ Push(c, f).on = c.on
         /\ Len(Push(c, f).frames) = Len(c.frames) + 1
         /\ Push(c, f).frames[Len(c.frames) + 1] = f
         /\ \A i \in 1 .. Len(c.frames) : Push(c, f).frames[i] = c.frames[i]
<1> DEFINE s == Append(c.frames, f)
<1>1. c.frames \in Seq(Frames) /\ c.on \in Threads
  BY DEF Contexts
<1>2. /\ s \in Seq(Frames) /\ Len(s) = Len(c.frames) + 1 /\ s[Len(c.frames) + 1] = f
      /\ \A i \in 1 .. Len(c.frames) : s[i] = c.frames[i]
  BY <1>1
<1> HIDE DEF s
<1>3. Push(c, f) = [c EXCEPT !.frames = s]
  BY DEF s, Push
<1>4. Push(c, f) \in Contexts /\ Push(c, f).on = c.on /\ Push(c, f).frames = s
  BY <1>1, <1>2, <1>3 DEF Contexts
<1> QED BY <1>2, <1>4

LEMMA Popped ==
  ASSUME NEW c \in Contexts, Len(c.frames) >= 2
  PROVE  LET d == [c EXCEPT !.frames = SubSeq(@, 1, Len(c.frames) - 1)] IN
         /\ d \in Contexts /\ d.on = c.on /\ Len(d.frames) = Len(c.frames) - 1
         /\ Below(c, d)
<1> DEFINE s == SubSeq(c.frames, 1, Len(c.frames) - 1)
           d == [c EXCEPT !.frames = SubSeq(@, 1, Len(c.frames) - 1)]
<1>1. c.frames \in Seq(Frames) /\ c.on \in Threads
  BY DEF Contexts
<1>2. /\ s \in Seq(Frames) /\ Len(s) = Len(c.frames) - 1
      /\ \A i \in 1 .. Len(c.frames) - 1 : s[i] = c.frames[i]
  BY <1>1
<1>3. d = [c EXCEPT !.frames = s]
  BY DEF Contexts
<1> HIDE DEF s
<1>4. d \in Contexts /\ d.on = c.on /\ d.frames = s
  BY <1>1, <1>2, <1>3 DEF Contexts
<1> QED BY <1>2, <1>4 DEF Below

(***************************************************************************)
(* The invariant                                                           *)
(***************************************************************************)
Links == [Nodes -> Nodes \cup {NULL}]

Typed ==
  /\ next \in Links /\ prev \in Links
  /\ state \in [Threads -> States]
  /\ slice \in [Threads -> Nat]
  /\ rsp \in [Threads -> Contexts]
  /\ current_thread \in Threads
  /\ cpu \in Contexts /\ Depth >= 1
  /\ intr \in BOOLEAN /\ panic = FALSE

\* kmain's thread never ends; what thread_create made of a thread is still so
\* when it is started.
Lifecycle ==
  /\ state[Main] = "RUNNING"
  /\ \A w \in Workers : state[w] # "RUNNING"
  /\ \A w \in Workers : state[w] = "NEW" => next[w] = w /\ rsp[w] = Fresh(w)

Ending(w) == state[w] = "READY" /\ Ends(w)
Calm == \A w \in Workers : ~Ending(w)

\* The frame of a tick's schedule() that has switched away; a stack with such
\* frames on it. Only kmain's can hold two: it is what a thread that ends is
\* followed by, and only those that end hand interrupts over enabled.
Waiting(f) == f.pc = "return" /\ f.isr /\ f.stores = <<>>
Resting(c, t) ==
  /\ c.on = t /\ Len(c.frames) >= 2
  /\ c.frames[1].pc = "body" /\ ~c.frames[1].isr
  /\ t # Main => c.frames[1].stores = <<>>
  /\ \A i \in 2 .. Len(c.frames) : Waiting(c.frames[i])
  /\ Len(c.frames) <= IF t = Main THEN 3 ELSE 2

OffCpu ==
  /\ \A t \in Started \ {cpu.on} : Resting(rsp[t], t) \/ (t # Main /\ rsp[t] = Fresh(t))
  /\ cpu.on # Main /\ Len(rsp[Main].frames) = 3 => Calm

\* The stores of list_add_tail that kmain has yet to make.
Pend == (IF cpu.on = Main THEN cpu ELSE rsp[Main]).frames[1].stores

\* S is a ring with kmain's thread first and a thread that is to end last.
Chained(S, back) ==
  /\ IsRing(S, next, back) /\ Main \in S /\ next[Queue] = Main
  /\ \A w \in S \cap Workers : Ending(w) => next[w] = Queue

\* What is left of list_add_tail(n), begun when the links back were these.
Adding(n, back, pend) ==
  LET p == back[Queue] IN
  \/ /\ pend = <<SetPrev(Queue, n), SetNext(n, Queue), SetPrev(n, p), SetNext(p, n)>>
     /\ prev = back
  \/ /\ pend = <<SetNext(n, Queue), SetPrev(n, p), SetNext(p, n)>>
     /\ prev = [back EXCEPT ![Queue] = n]
  \/ /\ pend = <<SetPrev(n, p), SetNext(p, n)>>
     /\ prev = [back EXCEPT ![Queue] = n] /\ next[n] = Queue
  \/ /\ pend = <<SetNext(p, n)>>
     /\ prev = [back EXCEPT ![Queue] = n, ![n] = p] /\ next[n] = Queue

\* The ring S, when these stores are left to do: no thread that is to end is in
\* it while kmain links another.
AddingTo(S, pend) ==
  \E n \in Workers, back \in Links :
    /\ state[n] = "READY" /\ rsp[n] = Fresh(n)
    /\ \A w \in Workers \ {n} : ~Ending(w)
    /\ S = (Started \ {n}) \cup {Queue}
    /\ Chained(S, back) /\ Adding(n, back, pend)
Whole(S, pend) == pend = <<>> /\ S = Started \cup {Queue} /\ Chained(S, prev)
Linked(S, pend) == Whole(S, pend) \/ AddingTo(S, pend)

Switching(S) ==
  /\ Top.isr /\ Top.stores = <<>> /\ ~intr
  /\ \/ Top.pc = "schedule"
     \/ Top.pc = "pick" /\ Top.old = cpu.on /\ Top.next = next[cpu.on]
     \/ /\ Top.pc = "switch" /\ Top.old = cpu.on /\ Top.next \in S \ {Queue, cpu.on}
        /\ Top.next = SkipHead(next[cpu.on])

\* A thread of the ring S runs, or is in the schedule() of a tick: its stack,
\* and how deep that is.
Entry ==
  /\ cpu.frames[1].pc \in {"body", "hlt"} /\ ~cpu.frames[1].isr
  /\ cpu.on # Main => cpu.frames[1].stores = <<>>
  /\ cpu.frames[1].pc = "hlt" => Depth = 1 /\ cpu.on # Main
Above(S) ==
  /\ \A i \in 2 .. Depth - 1 : Waiting(cpu.frames[i])
  /\ Depth >= 2 => Waiting(Top) \/ Switching(S)
Nesting ==
  /\ cpu.on # Main => Depth <= 2 /\ (Depth = 2 => ~intr)
  /\ cpu.on = Main => /\ Depth <= 3
                      /\ Depth = 1 => intr
                      /\ Depth = 2 => ~intr \/ Calm
                      /\ Depth = 3 => Calm /\ (Waiting(Top) => ~intr)
Current == current_thread = IF Top.pc = "switch" THEN Top.next ELSE cpu.on
OnCpu(S) == cpu.on \in S /\ Entry /\ Above(S) /\ Nesting /\ Current
LiveIn(S, pend) == pend = Pend /\ Linked(S, pend) /\ OnCpu(S)
Live == \E S, pend : LiveIn(S, pend)

\* A thread that ends, before and after list_del, and at its stores.
Before(t) == Chained(Started \cup {Queue, t}, prev) /\ next[t] = Queue
After == Chained(Started \cup {Queue}, prev)
Deleting(t, pend) ==
  \/ Before(t) /\ pend = list_del(t)
  \/ \E back \in Links :
       /\ Chained(Started \cup {Queue, t}, back) /\ next[t] = Queue
       /\ prev = [back EXCEPT ![Queue] = back[t]]
       /\ pend = <<SetNext(back[t], Queue), SetNext(t, NULL), SetPrev(t, NULL)>>
  \/ /\ After
     /\ pend \in {<<SetNext(t, NULL), SetPrev(t, NULL)>>, <<SetPrev(t, NULL)>>, <<>>}

\* t runs its last schedule(), with these stores left to do; kmain follows it.
Leaving(t, pend) ==
  \/ Depth = 1 /\ Top.pc = "terminated" /\ pend = <<>> /\ Before(t)
  \/ /\ Depth = 2 /\ cpu.frames[1].pc = "trampoline" /\ cpu.frames[1].stores = <<>>
     /\ \/ Top.pc = "schedule" /\ pend = <<>> /\ Before(t)
        \/ Top.pc = "pick" /\ Top.old = t /\ Top.next = Queue /\ Deleting(t, pend)
        \/ /\ Top.pc = "switch" /\ Top.old = t /\ Top.next = Main
           /\ pend = <<>> /\ After
DyingAs(t, pend) ==
  /\ cpu.on = t /\ state[t] = "TERMINATED" /\ Calm
  /\ Pend = <<>> /\ Len(rsp[Main].frames) = 2
  /\ \A i \in 1 .. Depth : ~cpu.frames[i].isr
  /\ current_thread = IF Top.pc = "switch" THEN Main ELSE t
  /\ Top.stores = pend /\ Leaving(t, pend)
Dying == \E t \in Workers : \E pend : DyingAs(t, pend)

Common == Typed /\ Lifecycle /\ OffCpu
Inv == Common /\ (Live \/ Dying)

(***************************************************************************)
(* Facts about states                                                      *)
(***************************************************************************)
LEMMA Distinct ==
  /\ Main \in Threads /\ Main \notin Workers /\ Queue # NULL
  /\ Queue \notin Threads /\ NULL \notin Nodes
  /\ Threads = Workers \cup {Main} /\ Nodes = Threads \cup {Queue}
BY SchedAssumption DEF Threads, Nodes

LEMMA StartedFacts ==
  ASSUME Typed, Lifecycle
  PROVE  /\ Started \in SUBSET Threads /\ Main \in Started
         /\ \A w \in Workers : w \in Started <=> state[w] = "READY"
BY Distinct DEF Started, Lifecycle

\* What a thread that runs can count on, wherever kmain is with its stores.
LEMMA RingFacts ==
  ASSUME Typed, Lifecycle, NEW S, NEW pend, Linked(S, pend)
  PROVE  /\ S \in SUBSET (Started \cup {Queue}) /\ Queue \in S /\ Main \in S
         /\ next[Queue] = Main
         /\ \A x \in S : next[x] \in S
         /\ \A w \in S \cap Workers : Ending(w) => next[w] = Queue
<1>1. CASE Whole(S, pend)
  BY <1>1 DEF Whole, Chained, IsRing
<1>2. CASE AddingTo(S, pend)
  BY <1>2 DEF AddingTo, Chained, IsRing
<1> QED BY <1>1, <1>2 DEF Linked

\* Nothing but a store or a start changes the ring.
LEMMA LinkedKept ==
  ASSUME Typed, Lifecycle, NEW S, NEW pend, Linked(S, pend),
         next' = next, prev' = prev, state' = state,
         \A t \in Started \ S : rsp'[t] = rsp[t]
  PROVE  Linked(S, pend)'
<1>1. Started' = Started /\ \A w : Ending(w)' <=> Ending(w)
  BY DEF Started, Ending
<1>2. \A back : Chained(S, back)' <=> Chained(S, back)
  BY <1>1 DEF Chained
<1>3. CASE Whole(S, pend)
  BY <1>1, <1>2, <1>3 DEF Linked, Whole
<1>4. CASE AddingTo(S, pend)
  <2>1. PICK n \in Workers, back \in Links :
          /\ state[n] = "READY" /\ rsp[n] = Fresh(n)
          /\ \A w \in Workers \ {n} : ~Ending(w)
          /\ S = (Started \ {n}) \cup {Queue}
          /\ Chained(S, back) /\ Adding(n, back, pend)
    BY <1>4 DEF AddingTo
  <2>2. rsp'[n] = rsp[n]
    BY <2>1, StartedFacts, Distinct
  <2>3. Adding(n, back, pend)'
    BY <2>1 DEF Adding
  <2>4. AddingTo(S, pend)'
    BY <1>1, <1>2, <2>1, <2>2, <2>3 DEF AddingTo
  <2> QED BY <2>4 DEF Linked
<1> QED BY <1>3, <1>4 DEF Linked

\* Where the processor is in the invariant's two cases.
LEMMA TopFacts ==
  ASSUME Typed
  PROVE  /\ Top \in Frames /\ Depth \in Nat /\ Depth \in 1 .. Depth
         /\ \A i \in 1 .. Depth : cpu.frames[i] \in Frames
BY DEF Typed, Contexts, Top, Depth

\* A live thread with no store to make that is not in schedule() or its return
\* has one frame only.
LEMMA LiveTop ==
  ASSUME Common, NEW S, NEW pend, LiveIn(S, pend)
  PROVE  /\ Depth >= 2 => Top.stores = <<>> /\ Top.isr /\ Top.pc \in {"return", "schedule", "pick", "switch"}
         /\ Depth = 1 => /\ Top.pc \in {"body", "hlt"} /\ ~Top.isr /\ current_thread = cpu.on
                         /\ cpu.on # Main => Top.stores = <<>>
         /\ Top.pc \in {"schedule", "pick", "switch"} => Depth >= 2 /\ Switching(S)
         /\ cpu.on \in Threads /\ cpu.on \in Started /\ cpu.on \in S
         /\ state[cpu.on] # "TERMINATED"
<1>1. cpu.on \in S /\ cpu.on \in Threads
  BY DEF LiveIn, OnCpu, Entry, Above, Nesting, Current, Common, Typed, Contexts
<1>2. cpu.on \in Started
  BY <1>1, RingFacts, Distinct DEF LiveIn, Common
<1>3. state[cpu.on] # "TERMINATED"
  BY <1>2 DEF Started
<1>4. Depth >= 2 => Top.stores = <<>> /\ Top.isr /\ Top.pc \in {"return", "schedule", "pick", "switch"}
  BY DEF LiveIn, OnCpu, Entry, Above, Nesting, Current, Waiting, Switching
<1>5. Depth = 1 => /\ Top.pc \in {"body", "hlt"} /\ ~Top.isr /\ current_thread = cpu.on
                   /\ cpu.on # Main => Top.stores = <<>>
  BY DEF LiveIn, OnCpu, Entry, Above, Nesting, Current, Top
<1>6. Top.pc \in {"schedule", "pick", "switch"} => Depth >= 2 /\ Switching(S)
  BY <1>5, TopFacts DEF LiveIn, OnCpu, Entry, Above, Nesting, Current, Waiting, Common
<1> QED BY <1>1, <1>2, <1>3, <1>4, <1>5, <1>6

\* Leaving a frame of a live thread other than its first.
LEMMA ReturnKeeps ==
  ASSUME Common, NEW S, NEW pend, LiveIn(S, pend), Return, Depth >= 2, Top.pc # "switch"
  PROVE  Inv'
<1>1. /\ cpu' = [cpu EXCEPT !.frames = SubSeq(@, 1, Depth - 1)] /\ intr' = (intr \/ Top.isr)
      /\ next' = next /\ prev' = prev /\ state' = state /\ slice' = slice /\ rsp' = rsp
      /\ current_thread' = current_thread /\ panic' = panic
  BY DEF Return
<1>2. cpu \in Contexts /\ Depth \in Nat
  BY TopFacts DEF Common, Typed
<1>3. /\ cpu' \in Contexts /\ cpu'.on = cpu.on /\ Depth' = Depth - 1
      /\ \A i \in 1 .. Depth - 1 : cpu'.frames[i] = cpu.frames[i]
  BY <1>1, <1>2, Popped DEF Below, Depth
<1>4. intr' = TRUE
  BY <1>1, LiveTop DEF Common, Typed
<1>5. Top' = cpu.frames[Depth - 1] /\ cpu'.frames[1] = cpu.frames[1]
  BY <1>2, <1>3 DEF Top
<1>6. Typed'
  BY <1>1, <1>2, <1>3, <1>4 DEF Common, Typed
<1>7. Lifecycle'
  BY <1>1 DEF Common, Lifecycle
<1>8. Started' = Started /\ (Calm' <=> Calm)
  BY <1>1 DEF Started, Calm, Ending
<1>9. OffCpu'
  BY <1>1, <1>3, <1>8 DEF Common, OffCpu
<1>10. Linked(S, pend)'
  BY <1>1, LinkedKept DEF Common, LiveIn
<1>11. Pend' = pend
  BY <1>1, <1>3, <1>5 DEF LiveIn, Pend
<1>12. OnCpu(S)'
  <2>1. current_thread = cpu.on /\ cpu.on \in S
    BY DEF LiveIn, OnCpu, Entry, Above, Nesting, Current
  <2>2. Depth - 1 >= 2 => Waiting(Top')
    BY <1>2, <1>5 DEF LiveIn, OnCpu, Entry, Above, Nesting, Current
  <2>3. Top'.pc # "switch"
    <3>1. CASE Depth - 1 >= 2
      BY <2>2, <3>1 DEF Waiting
    <3>2. CASE Depth - 1 = 1
      BY <1>5, <3>2 DEF LiveIn, OnCpu, Entry, Above, Nesting, Current
    <3> QED BY <1>2, <3>1, <3>2
  <2>4. \A i \in 2 .. Depth' - 1 : Waiting(cpu'.frames[i])
    BY <1>2, <1>3 DEF LiveIn, OnCpu, Entry, Above, Nesting, Current
  <2>5. /\ cpu.frames[1].pc \in {"body", "hlt"} /\ ~cpu.frames[1].isr
        /\ cpu.on # Main => cpu.frames[1].stores = <<>>
        /\ cpu.frames[1].pc # "hlt"
    BY DEF LiveIn, OnCpu, Entry, Above, Nesting, Current
  <2>6. cpu.on # Main => Depth' = 1
    BY <1>2, <1>3 DEF LiveIn, OnCpu, Entry, Above, Nesting, Current
  <2>7. cpu.on = Main => Depth' <= 2 /\ (Depth' = 2 => Calm')
    BY <1>2, <1>3, <1>8 DEF LiveIn, OnCpu, Entry, Above, Nesting, Current
  <2>8. Depth' >= 2 => Waiting(Top)'
    BY <1>3, <2>2 DEF Waiting
  <2> QED BY <1>1, <1>2, <1>3, <1>4, <1>5, <2>1, <2>3, <2>4, <2>5, <2>6, <2>7, <2>8 DEF OnCpu, Entry, Above, Nesting, Current
<1>13. Live'
  BY <1>10, <1>11, <1>12 DEF Live, LiveIn
<1> QED BY <1>6, <1>7, <1>9, <1>13 DEF Inv, Common

\* What is left when a step changes only the stack in use, and makes no store.
LEMMA StackStep ==
  ASSUME Common, NEW S, NEW pend, LiveIn(S, pend),
         next' = next, prev' = prev, state' = state, rsp' = rsp, panic' = panic,
         slice' \in [Threads -> Nat], intr' \in BOOLEAN, current_thread' \in Threads,
         cpu' \in Contexts, cpu'.on = cpu.on, Depth' >= 1,
         cpu'.frames[1].stores = cpu.frames[1].stores, OnCpu(S)'
  PROVE  Inv'
<1>1. Typed'
  BY DEF Common, Typed
<1>2. Lifecycle'
  BY DEF Common, Lifecycle
<1>3. Started' = Started /\ (Calm' <=> Calm)
  BY DEF Started, Calm, Ending
<1>4. OffCpu'
  BY <1>3 DEF Common, OffCpu
<1>5. Linked(S, pend)'
  BY LinkedKept DEF Common, LiveIn
<1>6. Pend' = pend
  BY DEF LiveIn, Pend
<1>7. Live'
  BY <1>5, <1>6 DEF Live, LiveIn
<1> QED BY <1>1, <1>2, <1>4, <1>7 DEF Inv, Common

\* The top frame of a tick's schedule() is replaced by its next step.
LEMMA SwitchingKeeps ==
  ASSUME Common, NEW S, NEW pend, LiveIn(S, pend), Depth >= 2, Switching(S),
         NEW f \in Frames, cpu' = ReplaceTop(f), f.isr, f.stores = <<>>,
         \/ f.pc = "pick" /\ f.old = cpu.on /\ f.next = next[cpu.on] /\ current_thread' = cpu.on
         \/ /\ f.pc = "switch" /\ f.old = cpu.on /\ f.next \in S \ {Queue, cpu.on}
            /\ f.next = SkipHead(next[cpu.on]) /\ current_thread' = f.next,
         current_thread' \in Threads,
         UNCHANGED <<next, prev, state, slice, rsp, intr, panic>>
  PROVE  Inv'
<1>1. cpu \in Contexts /\ Depth \in Nat
  BY TopFacts DEF Common, Typed
<1>2. /\ cpu' \in Contexts /\ cpu'.on = cpu.on /\ Depth' = Depth
      /\ cpu'.frames[Depth] = f /\ \A i \in 1 .. Depth - 1 : cpu'.frames[i] = cpu.frames[i]
  BY <1>1, Replaced DEF Below, Depth, ReplaceTop
<1>3. Top' = f /\ cpu'.frames[1] = cpu.frames[1]
  BY <1>1, <1>2 DEF Top
<1>4. Calm' <=> Calm
  BY DEF Calm, Ending
<1>5. ~intr /\ intr' = intr
  BY DEF Switching
<1>6. Switching(S)'
  BY <1>2, <1>3, <1>5 DEF Switching, SkipHead
<1>7. cpu.on = Main /\ Depth = 3 => Calm
  BY DEF LiveIn, OnCpu, Entry, Above, Nesting, Current
<1>8. \A i \in 2 .. Depth - 1 : Waiting(cpu'.frames[i])
  BY <1>1, <1>2 DEF LiveIn, OnCpu, Entry, Above, Nesting, Current
<1>9. /\ cpu.on \in S /\ cpu.frames[1].pc \in {"body", "hlt"} /\ ~cpu.frames[1].isr
      /\ cpu.on # Main => cpu.frames[1].stores = <<>> /\ Depth <= 2
      /\ cpu.frames[1].pc # "hlt" /\ Depth <= 3
  BY <1>1 DEF LiveIn, OnCpu, Entry, Above, Nesting, Current
<1>10. current_thread' = IF f.pc = "switch" THEN f.next ELSE cpu.on
  OBVIOUS
<1>11. Waiting(Top)' => ~Switching(S)'
  BY DEF Waiting, Switching
<1>12. OnCpu(S)'
  BY <1>1, <1>2, <1>3, <1>4, <1>5, <1>6, <1>7, <1>8, <1>9, <1>10, <1>11 DEF OnCpu, Entry, Above, Nesting, Current
<1> QED BY <1>1, <1>2, <1>3, <1>12, StackStep DEF Common, Typed

LEMMA ScheduleKeeps ==
  ASSUME Common, NEW S, NEW pend, LiveIn(S, pend), schedule
  PROVE  Inv'
<1>1. Top.pc = "schedule"
  BY DEF schedule, At
<1>2. Depth >= 2 /\ Switching(S)
  BY <1>1, LiveTop
<1>3. current_thread = cpu.on /\ cpu.on \in S /\ state[cpu.on] # "TERMINATED"
  BY <1>1, LiveTop DEF LiveIn, OnCpu, Entry, Above, Nesting, Current
<1>4. CASE Return
  BY <1>1, <1>2, <1>4, ReturnKeeps
<1>5. CASE ~Return
  <2> DEFINE o == cpu.on  n == next[cpu.on]
             f == [Top EXCEPT !.pc = "pick", !.old = o, !.next = n, !.stores = <<>>]
  <2>1. cpu' = ReplaceTop(f) /\ UNCHANGED <<next, prev, state, slice, rsp, current_thread, intr, panic>>
    BY <1>3, <1>5 DEF schedule
  <2>2. "pick" \in PCs /\ o \in Threads \cup {NULL} /\ n \in Nodes \cup {NULL}
    BY LiveTop DEF Common, Typed, Links, Nodes, PCs
  <2>3. Top \in Frames /\ Top.isr
    BY <1>2, TopFacts DEF Common, Switching
  <2> HIDE DEF o, n
  <2>4. /\ f \in Frames /\ f.isr /\ f.stores = <<>>
        /\ f.pc = "pick" /\ f.old = o /\ f.next = n
    <3>1. <<>> \in Seq(Stores)
      OBVIOUS
    <3> QED BY ONLY <2>2, <2>3, <3>1 DEF Frames
  <2> HIDE DEF f
  <2>5. current_thread' \in Threads
    BY <2>1 DEF Common, Typed
  <2> QED BY <1>2, <1>3, <2>1, <2>4, <2>5, SwitchingKeeps DEF o, n
<1> QED BY <1>4, <1>5

LEMMA PickKeeps ==
  ASSUME Common, NEW S, NEW pend, LiveIn(S, pend), pick
  PROVE  Inv'
<1>1. Top.pc = "pick"
  BY DEF pick, At
<1>2. Depth >= 2 /\ Switching(S)
  BY <1>1, LiveTop
<1>3. /\ current_thread = cpu.on /\ cpu.on \in S
      /\ Top.old = cpu.on /\ Top.next = next[cpu.on] /\ Top.isr /\ Top.stores = <<>>
  BY <1>1, <1>2, LiveTop DEF LiveIn, OnCpu, Entry, Above, Nesting, Current, Switching
<1> DEFINE node == SkipHead(Top.next)
<1>4. /\ S \in SUBSET (Started \cup {Queue}) /\ Main \in S /\ next[Queue] = Main
      /\ \A x \in S : next[x] \in S
  BY RingFacts DEF LiveIn, Common
<1>5. node \in S /\ node # Queue /\ node # NULL /\ node \in Threads
  BY <1>3, <1>4, StartedFacts, Distinct DEF SkipHead, Common
<1>6. CASE Return
  BY <1>1, <1>2, <1>6, ReturnKeeps
<1>7. CASE ~Return
  <2> DEFINE f == [Top EXCEPT !.pc = "switch", !.next = node]
  <2>1. /\ current_thread' = node /\ node # cpu.on /\ cpu' = ReplaceTop(f)
        /\ UNCHANGED <<next, prev, state, slice, rsp, intr, panic>>
    BY <1>3, <1>5, <1>7 DEF pick
  <2>2. Top \in Frames /\ node \in Nodes
    BY <1>5, TopFacts DEF Common, Nodes
  <2>3. /\ f \in Frames /\ f.isr /\ f.stores = <<>>
        /\ f.pc = "switch" /\ f.old = cpu.on /\ f.next = node
    BY <1>3, <2>2 DEF Frames, PCs
  <2>4. node = SkipHead(next[cpu.on])
    BY <1>3
  <2> HIDE DEF f, node
  <2> QED BY <1>2, <1>5, <2>1, <2>3, <2>4, SwitchingKeeps
<1> QED BY <1>6, <1>7

LEMMA ReturnStepKeeps ==
  ASSUME Common, NEW S, NEW pend, LiveIn(S, pend), return_from_schedule
  PROVE  Inv'
<1>1. Top.pc = "return" /\ Return
  BY DEF return_from_schedule, At
<1>2. Depth # 1
  BY <1>1, LiveTop
<1>3. Depth \in Nat /\ Depth >= 1
  BY TopFacts DEF Common, Typed
<1> QED BY <1>1, <1>2, <1>3, ReturnKeeps

\* The switch of a tick: the stack in use becomes a resting one, and a resting
\* or a new one comes into use, with interrupts disabled.
LEMMA SwitchKeeps ==
  ASSUME Common, NEW S, NEW pend, LiveIn(S, pend), cpu_switch_context
  PROVE  Inv'
<1> DEFINE t == cpu.on  u == Top.next
<1>1. Top.pc = "switch"
  BY DEF cpu_switch_context, At
<1>2. Depth >= 2 /\ Switching(S)
  BY <1>1, LiveTop
<1>3. /\ t \in S \cap Started /\ t \in Threads /\ u \in S \ {Queue, t} /\ current_thread = u
      /\ Top.old = t /\ Top.isr /\ Top.stores = <<>> /\ ~intr
  BY <1>1, <1>2, LiveTop DEF LiveIn, OnCpu, Entry, Above, Nesting, Current, Switching
<1>4. u \in Started /\ u \in Threads /\ S \in SUBSET (Started \cup {Queue})
  BY <1>3, RingFacts, StartedFacts DEF LiveIn, Common
<1> DEFINE f == [Top EXCEPT !.pc = "return"]  c == ReplaceTop(f)
<1>5. /\ rsp' = [rsp EXCEPT ![t] = c] /\ cpu' = rsp[u]
      /\ next' = next /\ prev' = prev /\ state' = state /\ slice' = slice
      /\ current_thread' = current_thread /\ intr' = intr /\ panic' = panic
  BY <1>3 DEF cpu_switch_context
<1>6. f \in Frames /\ Waiting(f)
  BY <1>3, TopFacts DEF Common, Frames, PCs, Waiting
<1>7. cpu \in Contexts /\ Depth \in Nat /\ rsp \in [Threads -> Contexts]
  BY TopFacts DEF Common, Typed
<1> HIDE DEF f
<1>8. /\ c \in Contexts /\ c.on = t /\ Len(c.frames) = Depth /\ c.frames[Depth] = f
      /\ \A i \in 1 .. Depth - 1 : c.frames[i] = cpu.frames[i]
  BY <1>2, <1>6, <1>7, Replaced DEF Below, Depth, ReplaceTop
<1> HIDE DEF c
<1>9. Resting(c, t) /\ c.frames[1].stores = cpu.frames[1].stores
  <2>1. \A i \in 2 .. Depth : Waiting(c.frames[i])
    BY <1>6, <1>7, <1>8 DEF LiveIn, OnCpu, Entry, Above, Nesting, Current
  <2>2. c.frames[1] = cpu.frames[1]
    BY <1>2, <1>7, <1>8
  <2> QED BY <1>2, <1>7, <1>8, <2>1, <2>2 DEF LiveIn, OnCpu, Entry, Above, Nesting, Current, Resting
<1>10. rsp' \in [Threads -> Contexts] /\ rsp'[t] = c /\ \A x \in Threads \ {t} : rsp'[x] = rsp[x]
  BY <1>3, <1>5, <1>7, <1>8
<1>11. Resting(rsp[u], u) \/ (u # Main /\ rsp[u] = Fresh(u))
  BY <1>3, <1>4 DEF Common, OffCpu
<1>12. Started' = Started /\ (Calm' <=> Calm) /\ Started \in SUBSET Threads
  BY <1>5, StartedFacts DEF Started, Calm, Ending, Common
<1>13. cpu' \in Contexts /\ cpu'.on = u /\ Depth' \in Nat /\ Depth' >= 1 /\ Depth' \in 1 .. Depth'
  <2>1. rsp[u] \in Contexts
    BY <1>4, <1>7
  <2>2. CASE Resting(rsp[u], u)
    BY <1>5, <2>1, <2>2 DEF Contexts, Depth, Resting
  <2>3. CASE rsp[u] = Fresh(u)
    <3>1. Fresh(u).on = u /\ Len(Fresh(u).frames) = 1
      BY <1>4, FrameFacts
    <3> QED BY <1>5, <2>1, <2>3, <3>1 DEF Contexts, Depth
  <2> QED BY <1>11, <2>2, <2>3
<1>14. Typed'
  BY <1>5, <1>10, <1>13 DEF Common, Typed
<1>15. Lifecycle'
  BY <1>3, <1>5, <1>10, Distinct DEF Common, Lifecycle, Started
<1>16. OffCpu'
  <2>1. ASSUME NEW x \in Started, x # u
        PROVE  Resting(rsp'[x], x) \/ (x # Main /\ rsp'[x] = Fresh(x))
    <3>1. CASE x = t
      BY <1>9, <1>10, <3>1
    <3>2. CASE x # t
      BY <1>10, <1>12, <2>1, <3>2 DEF Common, OffCpu
    <3> QED BY <3>1, <3>2
  <2>2. ASSUME u # Main, Len(rsp'[Main].frames) = 3 PROVE Calm
    <3>1. CASE Main = t
      BY <1>8, <1>10, <2>2, <3>1 DEF LiveIn, OnCpu, Entry, Above, Nesting, Current
    <3>2. CASE Main # t
      BY <1>10, <2>2, <3>2, Distinct DEF Common, OffCpu
    <3> QED BY <3>1, <3>2
  <2> QED BY <1>12, <1>13, <2>1, <2>2 DEF OffCpu, Resting, Waiting, Fresh, Frame
<1>17. Linked(S, pend)'
  <2>1. \A x \in Started \ S : rsp'[x] = rsp[x]
    BY <1>3, <1>10, <1>12
  <2> QED BY <1>5, <2>1, LinkedKept DEF Common, LiveIn
<1>18. Pend' = pend
  <2>1. pend = Pend
    BY DEF LiveIn
  <2>2. CASE u = Main
    <3>1. Pend = rsp[Main].frames[1].stores /\ Pend' = cpu'.frames[1].stores
      BY <1>3, <1>13, <2>2 DEF Pend
    <3> QED BY <1>5, <2>1, <2>2, <3>1
  <2>3. CASE t = Main
    <3>1. Pend = cpu.frames[1].stores /\ Pend' = rsp'[Main].frames[1].stores
      BY <1>3, <1>13, <2>3 DEF Pend
    <3> QED BY <1>9, <1>10, <2>1, <2>3, <3>1
  <2>4. CASE t # Main /\ u # Main
    <3>1. Pend = rsp[Main].frames[1].stores /\ Pend' = rsp'[Main].frames[1].stores
      BY <1>13, <2>4 DEF Pend
    <3> QED BY <1>10, <2>1, <2>4, <3>1, Distinct
  <2> QED BY <2>2, <2>3, <2>4
<1>19. OnCpu(S)'
  <2>1. current_thread' = u /\ ~intr' /\ u \in S
    BY <1>3, <1>5
  <2>2. CASE u # Main /\ rsp[u] = Fresh(u)
    <3>1. Depth' = 1 /\ Top' = Frame("body", FALSE) /\ cpu'.frames[1] = Frame("body", FALSE)
      <4>1. Len(rsp[u].frames) = 1 /\ rsp[u].frames[1] = Frame("body", FALSE)
        <5>1. \A x \in Threads : Len(Fresh(x).frames) = 1 /\ Fresh(x).frames[1] = Frame("body", FALSE)
          BY ONLY FrameFacts, Zenon
        <5>2. rsp[u] = Fresh(u) /\ u \in Threads
          BY <1>4, <2>2
        <5> HIDE DEF u
        <5> QED BY ONLY <5>1, <5>2
      <4>2. cpu' = rsp[u]
        BY <1>5
      <4>3. Len(cpu'.frames) = 1 /\ cpu'.frames[1] = Frame("body", FALSE)
        BY <4>1, <4>2
      <4> QED BY <4>3 DEF Depth, Top
    <3>2. Frame("body", FALSE).pc = "body" /\ ~Frame("body", FALSE).isr
          /\ Frame("body", FALSE).stores = <<>>
      BY DEF Frame
    <3>3. \A i \in 2 .. Depth' - 1 : Waiting(cpu'.frames[i])
      BY <3>1
    <3>4. Entry'
      BY <2>2, <3>1, <3>2, <1>13 DEF Entry
    <3>7. Above(S)'
      BY <3>1, <3>3 DEF Above
    <3>5. Nesting'
      BY <1>13, <2>1, <2>2, <3>1 DEF Nesting
    <3>6. Current'
      BY <1>13, <2>1, <3>1, <3>2 DEF Current
    <3> QED BY <1>13, <2>1, <3>4, <3>5, <3>6, <3>7 DEF OnCpu
  <2>3. CASE Resting(rsp[u], u)
    <3>1. /\ Depth' >= 2 /\ Depth' <= IF u = Main THEN 3 ELSE 2
          /\ \A i \in 2 .. Depth' : Waiting(cpu'.frames[i])
          /\ cpu'.frames[1].pc = "body" /\ ~cpu'.frames[1].isr
          /\ u # Main => cpu'.frames[1].stores = <<>>
      BY <1>5, <2>3 DEF Resting, Depth
    <3>2. Waiting(Top)' /\ Top'.pc # "switch"
      BY <1>13, <3>1 DEF Top, Waiting
    <3>3. u = Main /\ Depth' = 3 => Calm'
      BY <1>3, <1>5, <1>12 DEF Common, OffCpu, Depth
    <3>4. \A i \in 2 .. Depth' - 1 : Waiting(cpu'.frames[i])
      <4>1. \A i \in 2 .. Depth' - 1 : i \in 2 .. Depth'
        BY ONLY <1>13, Shorter
      <4> QED BY <3>1, <4>1
    <3>5. Entry'
      BY <1>13, <3>1 DEF Entry
    <3>8. Above(S)'
      BY <3>2, <3>4 DEF Above
    <3>6. Nesting'
      BY <1>13, <2>1, <3>1, <3>3 DEF Nesting
    <3>7. Current'
      BY <1>13, <2>1, <3>2 DEF Current
    <3> QED BY <1>13, <2>1, <3>5, <3>6, <3>7, <3>8 DEF OnCpu
  <2> QED BY <1>11, <2>2, <2>3
<1>20. Live'
  BY <1>17, <1>18, <1>19 DEF Live, LiveIn
<1> QED BY <1>14, <1>15, <1>16, <1>20 DEF Inv, Common

\* A thread in its entry function halts, or goes on.
LEMMA EntryStep ==
  ASSUME Common, NEW S, NEW pend, LiveIn(S, pend), Depth = 1,
         NEW f \in Frames, cpu' = ReplaceTop(f),
         f.pc \in {"body", "hlt"}, f.pc = "hlt" => cpu.on # Main,
         f.isr = Top.isr, f.stores = Top.stores,
         intr' \in BOOLEAN, cpu.on = Main => intr', slice' \in [Threads -> Nat],
         UNCHANGED <<next, prev, state, rsp, current_thread, panic>>
  PROVE  Inv'
<1>1. cpu \in Contexts
  BY DEF Common, Typed
<1>2. cpu' \in Contexts /\ cpu'.on = cpu.on /\ Depth' = 1 /\ cpu'.frames[1] = f
  BY <1>1, Replaced DEF Depth, ReplaceTop
<1>3. Top' = f /\ Top = cpu.frames[1]
  BY <1>2 DEF Top
<1>4. cpu.on \in S /\ current_thread = cpu.on /\ ~Top.isr /\ (cpu.on # Main => Top.stores = <<>>)
  BY LiveTop
<1>5. Entry'
  BY <1>2, <1>4 DEF Entry
<1>6. Above(S)'
  BY <1>2 DEF Above
<1>7. Nesting' /\ Current'
  BY <1>2, <1>3, <1>4 DEF Nesting, Current
<1>8. OnCpu(S)'
  BY <1>2, <1>4, <1>5, <1>6, <1>7 DEF OnCpu
<1>9. current_thread' \in Threads
  BY DEF Common, Typed
<1> QED BY <1>2, <1>3, <1>8, <1>9, StackStep

LEMMA SleepKeeps ==
  ASSUME Common, NEW S, NEW pend, LiveIn(S, pend), sleep_ms
  PROVE  Inv'
<1> DEFINE f == [Top EXCEPT !.pc = "hlt"]
<1>1. /\ Top.pc = "body" /\ cpu.on \in Workers /\ cpu' = ReplaceTop(f) /\ intr' = TRUE
      /\ UNCHANGED <<next, prev, state, slice, rsp, current_thread, panic>>
  BY DEF sleep_ms, WorkerAt, At, halt_sti
<1>2. Depth = 1
  <2>1. Depth \in Nat /\ Depth >= 1
    BY TopFacts DEF Common, Typed
  <2> QED BY <1>1, <2>1, LiveTop
<1>3. Top \in Frames
  BY TopFacts DEF Common
<1>4. f \in Frames /\ f.pc = "hlt" /\ f.isr = Top.isr /\ f.stores = Top.stores
  BY <1>3 DEF Frames, PCs
<1> HIDE DEF f
<1>5. cpu.on # Main /\ slice' \in [Threads -> Nat]
  BY <1>1, Distinct DEF Common, Typed
<1> QED BY <1>1, <1>2, <1>4, <1>5, EntryStep

\* A tick, taken by a live thread: by the fence, no other takes one.
LEMMA TickKeeps ==
  ASSUME Common, NEW S, NEW pend, LiveIn(S, pend), sched_on_tick
  PROVE  Inv'
<1> DEFINE t == current_thread
           left == IF slice[t] > 0 THEN slice[t] - 1 ELSE 0
           f == Woken(Top)  c == ReplaceTop(f)  g == Frame("schedule", TRUE)
<1>1. /\ intr /\ UNCHANGED <<next, prev, state, rsp, current_thread, panic>>
      /\ \/ slice' = [slice EXCEPT ![t] = left] /\ cpu' = c /\ intr' = intr
         \/ /\ slice' = [slice EXCEPT ![t] = DEFAULT_TIME_SLICE] /\ cpu' = Push(c, g)
            /\ intr' = FALSE
  BY DEF sched_on_tick, interrupt_gate
<1>2. Depth \in Nat /\ Depth >= 1 /\ cpu \in Contexts /\ Top \in Frames /\ slice \in [Threads -> Nat]
      /\ t \in Threads
  BY TopFacts DEF Common, Typed
<1>3. slice' \in [Threads -> Nat]
  <2>1. left \in Nat /\ DEFAULT_TIME_SLICE \in Nat
    BY <1>2, SchedAssumption
  <2> QED BY <1>1, <1>2, <2>1
<1>4. Depth = 1 \/ (Depth = 2 /\ cpu.on = Main /\ Calm /\ Waiting(Top))
  <2>1. ~Switching(S)
    BY <1>1 DEF Switching
  <2> QED BY <1>1, <1>2, <2>1 DEF LiveIn, OnCpu, Above, Nesting
<1>5. /\ f \in Frames /\ f.isr = Top.isr /\ f.stores = Top.stores
      /\ f.pc = IF Top.pc = "hlt" THEN "body" ELSE Top.pc
  BY <1>2 DEF Woken, Frames, PCs
<1>7. Waiting(Top) => f = Top
  BY DEF Waiting, Woken
<1>8. current_thread = cpu.on /\ cpu.on \in S
  BY <1>4, LiveTop DEF LiveIn, OnCpu, Current, Waiting
<1> HIDE DEF f
<1>9. CASE slice' = [slice EXCEPT ![t] = left] /\ cpu' = c /\ intr' = intr
  <2>1. CASE Depth = 1
    <3>1. f.pc = "body"
      BY <1>5, <2>1, LiveTop
    <3> QED BY <1>1, <1>3, <1>5, <1>9, <2>1, <3>1, EntryStep
  <2>2. CASE Depth # 1
    <3>1. f = Top
      BY <1>4, <1>7, <2>2
    <3>2. cpu' = cpu
      BY <1>2, <1>9, <3>1 DEF ReplaceTop, Top, Depth, Contexts
    <3>3. OnCpu(S)'
      <4>1. Depth' = Depth /\ Top' = Top /\ (Calm' <=> Calm)
        BY <1>1, <3>2 DEF Depth, Top, Calm, Ending
      <4> QED BY <1>1, <1>9, <3>2, <4>1
              DEF LiveIn, OnCpu, Entry, Above, Nesting, Current, Switching
    <3> QED BY <1>1, <1>2, <1>3, <1>9, <3>2, <3>3, StackStep DEF Depth
  <2> QED BY <2>1, <2>2
<1>10. CASE /\ slice' = [slice EXCEPT ![t] = DEFAULT_TIME_SLICE] /\ cpu' = Push(c, g)
            /\ intr' = FALSE
  <2>1. /\ c \in Contexts /\ c.on = cpu.on /\ Len(c.frames) = Depth /\ c.frames[Depth] = f
        /\ \A i \in 1 .. Depth - 1 : c.frames[i] = cpu.frames[i]
    BY <1>2, <1>5, Replaced DEF Below, Depth, ReplaceTop
  <2>2. g \in Frames /\ g.pc = "schedule" /\ g.isr = TRUE /\ g.stores = <<>>
    BY FrameFacts DEF PCs
  <2> HIDE DEF c, g
  <2>3. /\ cpu' \in Contexts /\ cpu'.on = cpu.on /\ Depth' = Depth + 1
        /\ cpu'.frames[Depth + 1] = g /\ cpu'.frames[Depth] = f
        /\ \A i \in 1 .. Depth : cpu'.frames[i] = c.frames[i]
    <3>1. /\ Push(c, g) \in Contexts /\ Push(c, g).on = c.on
          /\ Len(Push(c, g).frames) = Len(c.frames) + 1
          /\ Push(c, g).frames[Len(c.frames) + 1] = g
          /\ \A i \in 1 .. Len(c.frames) : Push(c, g).frames[i] = c.frames[i]
      BY <2>1, <2>2, Pushed
    <3>2. Depth \in 1 .. Depth
      BY <1>2
    <3>3. cpu' = Push(c, g) /\ Depth' = Len(cpu'.frames)
      BY <1>10 DEF Depth
    <3> QED BY <2>1, <3>1, <3>2, <3>3
  <2>4. Top' = g
    BY <2>3 DEF Top
  <2>5. Calm' <=> Calm
    BY <1>1 DEF Calm, Ending
  <2>6. cpu'.frames[1].pc = "body" /\ ~cpu'.frames[1].isr
        /\ cpu'.frames[1].stores = cpu.frames[1].stores
    <3>1. CASE Depth = 1
      <4>1. Top = cpu.frames[1] /\ ~Top.isr /\ Top.pc \in {"body", "hlt"}
        BY <3>1, LiveTop DEF Top
      <4> QED BY <1>5, <2>3, <3>1, <4>1
    <3>2. CASE Depth = 2
      <4>1. cpu'.frames[1] = cpu.frames[1]
        BY <2>1, <2>3, <3>2
      <4> QED BY <3>2, <4>1 DEF LiveIn, OnCpu, Entry
    <3> QED BY <1>4, <3>1, <3>2
  <2>7. Entry'
    BY <1>2, <2>3, <2>6 DEF LiveIn, OnCpu, Entry
  <2>8. Above(S)'
    <3>1. \A i \in 2 .. Depth : Waiting(cpu'.frames[i])
      BY <1>4, <1>7, <2>3
    <3>2. Switching(S)'
      BY <1>10, <2>2, <2>4 DEF Switching
    <3>3. Depth' - 1 = Depth
      BY <1>2, <2>3
    <3> QED BY <3>1, <3>2, <3>3 DEF Above
  <2>9. Nesting'
    BY <1>4, <1>10, <2>3, <2>5 DEF Nesting
  <2>10. Current'
    BY <1>1, <1>8, <2>2, <2>3, <2>4 DEF Current
  <2>11. OnCpu(S)'
    BY <1>8, <2>3, <2>7, <2>8, <2>9, <2>10 DEF OnCpu
  <2>12. current_thread' \in Threads /\ Depth' >= 1 /\ intr' \in BOOLEAN
    <3>1. Depth + 1 >= 1
      BY <1>2
    <3> QED BY <1>1, <1>2, <1>10, <2>3, <3>1
  <2> QED BY <1>1, <1>3, <2>3, <2>6, <2>11, <2>12, StackStep
<1> QED BY <1>1, <1>9, <1>10

(***************************************************************************)
(* The stores of a list operation                                          *)
(***************************************************************************)
LEMMA StoreFacts ==
  /\ \A n, v : /\ SetNext(n, v).field = "next" /\ SetPrev(n, v).field = "prev"
               /\ SetNext(n, v).node = n /\ SetPrev(n, v).node = n
               /\ SetNext(n, v).value = v /\ SetPrev(n, v).value = v
  /\ \A a, b, c, d :
       /\ Head(<<a, b, c, d>>) = a /\ Tail(<<a, b, c, d>>) = <<b, c, d>>
       /\ Head(<<b, c, d>>) = b /\ Tail(<<b, c, d>>) = <<c, d>>
       /\ Head(<<c, d>>) = c /\ Tail(<<c, d>>) = <<d>>
       /\ Head(<<d>>) = d /\ Tail(<<d>>) = <<>>
BY DEF SetNext, SetPrev

\* kmain's stores of list_add_tail: the last links the thread into the ring.
LEMMA AddStoreKeeps ==
  ASSUME Common, NEW S, NEW pend, LiveIn(S, pend), Store
  PROVE  Inv'
<1> DEFINE s == Head(Top.stores)  f == [Top EXCEPT !.stores = Tail(@)]
<1>1. /\ Top.stores # <<>> /\ cpu' = ReplaceTop(f)
      /\ UNCHANGED <<state, slice, rsp, current_thread, intr>>
  BY DEF Store
<1>2. /\ panic' = (s.node = NULL)
      /\ next' = IF s.field = "next" /\ s.node # NULL THEN [next EXCEPT ![s.node] = s.value] ELSE next
      /\ prev' = IF s.field = "prev" /\ s.node # NULL THEN [prev EXCEPT ![s.node] = s.value] ELSE prev
  BY DEF Store
<1>3. Depth = 1 /\ cpu.on = Main /\ current_thread = Main /\ Top.pc \in {"body", "hlt"} /\ ~Top.isr
  <2>1. Depth \in Nat /\ Depth >= 1
    BY TopFacts DEF Common, Typed
  <2>2. Depth = 1
    BY <1>1, <2>1, LiveTop
  <2> QED BY <1>1, <2>2, LiveTop
<1>4. /\ cpu \in Contexts /\ Top \in Frames /\ next \in Links /\ prev \in Links
      /\ state \in [Threads -> States]
  BY TopFacts DEF Common, Typed
<1>5. Top = cpu.frames[1] /\ pend = Top.stores /\ Top.pc = "body" /\ intr
  <2>1. Top = cpu.frames[1]
    BY <1>3 DEF Top
  <2> QED BY <1>3, <2>1 DEF LiveIn, Pend, OnCpu, Entry, Nesting
<1>6. f \in Frames /\ f.pc = "body" /\ ~f.isr /\ f.stores = Tail(pend)
  <2>1. Tail(Top.stores) \in Seq(Stores)
    BY <1>1, <1>4 DEF Frames
  <2> QED BY <1>3, <1>4, <1>5, <2>1 DEF Frames
<1> HIDE DEF f
<1>7. cpu' \in Contexts /\ cpu'.on = Main /\ Depth' = 1 /\ cpu'.frames[1] = f /\ Top' = f
  BY <1>1, <1>3, <1>4, <1>6, Replaced DEF Depth, ReplaceTop, Top
<1>8. Pend' = Tail(pend)
  BY <1>6, <1>7 DEF Pend
<1>9. ASSUME NEW T, Main \in T PROVE OnCpu(T)'
  <2>1. Entry' /\ Above(T)'
    BY <1>6, <1>7 DEF Entry, Above
  <2>2. Nesting' /\ Current'
    BY <1>1, <1>3, <1>5, <1>6, <1>7 DEF Nesting, Current
  <2> QED BY <1>7, <1>9, <2>1, <2>2 DEF OnCpu
<1>10. Started' = Started /\ (Calm' <=> Calm) /\ \A w : Ending(w)' <=> Ending(w)
  BY <1>1 DEF Started, Calm, Ending
<1>11. OffCpu'
  BY <1>1, <1>3, <1>7, <1>10 DEF Common, OffCpu
<1>12. PICK n \in Workers, back \in Links :
         /\ state[n] = "READY" /\ rsp[n] = Fresh(n)
         /\ \A w \in Workers \ {n} : ~Ending(w)
         /\ S = (Started \ {n}) \cup {Queue}
         /\ Chained(S, back) /\ Adding(n, back, pend)
  BY <1>1, <1>5 DEF LiveIn, Linked, Whole, AddingTo
<1> DEFINE p == back[Queue]
<1>13. /\ n \notin S /\ n # Queue /\ n \in Started /\ n \in Threads /\ n # NULL
       /\ S \subseteq Nodes /\ Queue \in S /\ Main \in S /\ Queue # NULL
  BY <1>12, StartedFacts, Distinct DEF Common
<1>14. p \in S /\ next[p] = Queue /\ p # Queue /\ p # n /\ p \in Nodes /\ p # NULL
  BY <1>12, <1>13, Distinct DEF Chained, IsRing
<1>15. s.node \in {Queue, n, p} /\ s.value \in Nodes
  BY <1>5, <1>12, <1>13, <1>14, StoreFacts, Distinct DEF Adding, Nodes
<1> HIDE DEF s
<1>16. ~panic'
  BY <1>2, <1>13, <1>14, <1>15
<1>17. next' \in Links /\ prev' \in Links
  BY <1>2, <1>4, <1>15 DEF Links
<1>18. Typed'
  BY <1>1, <1>7, <1>16, <1>17 DEF Common, Typed
<1>19. Lifecycle'
  <2> SUFFICES ASSUME NEW w \in Workers, state[w] = "NEW" PROVE next'[w] = next[w]
    BY <1>1 DEF Common, Lifecycle
  <2>1. w # n /\ w # p /\ w # Queue
    <3>1. w \notin Started /\ w # Queue
      BY Distinct DEF Started
    <3> QED BY <1>12, <1>13, <1>14, <3>1
  <2> QED BY <1>2, <1>4, <1>15, <2>1 DEF Links
<1>20. ASSUME NEW T, Main \in T, Linked(T, Tail(pend))' PROVE Inv'
  <2>1. Live'
    BY <1>8, <1>9, <1>20 DEF Live, LiveIn
  <2> QED BY <1>11, <1>18, <1>19, <2>1 DEF Inv, Common
<1>21. ASSUME \A x \in S : next'[x] = next[x], Adding(n, back, Tail(pend))'
       PROVE  Inv'
  <2>1. IsRing(S, next', back)
    BY <1>12, <1>21, RingSame DEF Chained
  <2>2. Chained(S, back)'
    BY <1>10, <1>12, <1>13, <1>21, <2>1 DEF Chained
  <2>3. AddingTo(S, Tail(pend))'
    BY <1>1, <1>10, <1>12, <1>21, <2>2 DEF AddingTo
  <2> QED BY <1>13, <1>20, <2>3 DEF Linked
<1>22. CASE /\ pend = <<SetPrev(Queue, n), SetNext(n, Queue), SetPrev(n, p), SetNext(p, n)>>
            /\ prev = back
  <2>1. /\ s = SetPrev(Queue, n)
        /\ Tail(pend) = <<SetNext(n, Queue), SetPrev(n, p), SetNext(p, n)>>
    BY <1>5, <1>22, StoreFacts DEF s
  <2>2. next' = next /\ prev' = [back EXCEPT ![Queue] = n]
    <3>1. s.field = "prev" /\ s.node = Queue /\ s.value = n
      BY <2>1, StoreFacts
    <3> QED BY <1>2, <1>13, <1>22, <3>1
  <2> QED BY <1>21, <2>1, <2>2 DEF Adding
<1>23. CASE /\ pend = <<SetNext(n, Queue), SetPrev(n, p), SetNext(p, n)>>
            /\ prev = [back EXCEPT ![Queue] = n]
  <2>1. s = SetNext(n, Queue) /\ Tail(pend) = <<SetPrev(n, p), SetNext(p, n)>>
    BY <1>5, <1>23, StoreFacts DEF s
  <2>2. next' = [next EXCEPT ![n] = Queue] /\ prev' = prev
    <3>1. s.field = "next" /\ s.node = n /\ s.value = Queue
      BY <2>1, StoreFacts
    <3> QED BY <1>2, <1>13, <3>1
  <2>3. next'[n] = Queue /\ \A x \in S : next'[x] = next[x]
    BY <1>4, <1>13, <2>2 DEF Links, Nodes
  <2> QED BY <1>21, <1>23, <2>1, <2>2, <2>3 DEF Adding
<1>24. CASE /\ pend = <<SetPrev(n, p), SetNext(p, n)>>
            /\ prev = [back EXCEPT ![Queue] = n] /\ next[n] = Queue
  <2>1. s = SetPrev(n, p) /\ Tail(pend) = <<SetNext(p, n)>>
    BY <1>5, <1>24, StoreFacts DEF s
  <2>2. next' = next /\ prev' = [prev EXCEPT ![n] = p]
    <3>1. s.field = "prev" /\ s.node = n /\ s.value = p
      BY <2>1, StoreFacts
    <3> QED BY <1>2, <1>13, <3>1
  <2>3. prev' = [back EXCEPT ![Queue] = n, ![n] = p]
    BY <1>24, <2>2
  <2> QED BY <1>21, <1>24, <2>1, <2>2, <2>3 DEF Adding
<1>25. CASE /\ pend = <<SetNext(p, n)>>
            /\ prev = [back EXCEPT ![Queue] = n, ![n] = p] /\ next[n] = Queue
  <2>1. s = SetNext(p, n) /\ Tail(pend) = <<>>
    BY <1>5, <1>25, StoreFacts DEF s
  <2>2. next' = [next EXCEPT ![p] = n] /\ prev' = prev
    <3>1. s.field = "next" /\ s.node = p /\ s.value = n
      BY <2>1, StoreFacts
    <3> QED BY <1>2, <1>14, <3>1
  <2>3. /\ next'[n] = Queue /\ next'[p] = n /\ \A x \in S \ {p} : next'[x] = next[x]
    BY <1>4, <1>13, <1>14, <1>25, <2>2 DEF Links, Nodes
  <2>4. prev'[Queue] = n /\ prev'[n] = p /\ \A x \in S \ {Queue} : prev'[x] = back[x]
    BY <1>13, <1>25, <2>2, Distinct DEF Links, Nodes
  <2>5. IsRing(S \cup {n}, next', prev')
    BY <1>12, <1>13, <2>3, <2>4, RingInsert DEF Chained
  <2>6. next'[Queue] = Main
    BY <1>12, <1>13, <1>14, <2>3 DEF Chained
  <2>7. S \cup {n} = Started \cup {Queue}
    BY <1>12, <1>13
  <2>8. Chained(S \cup {n}, prev)'
    BY <1>10, <1>12, <1>13, <2>3, <2>5, <2>6 DEF Chained
  <2>9. Linked(S \cup {n}, Tail(pend))'
    BY <1>10, <2>1, <2>7, <2>8 DEF Linked, Whole
  <2> QED BY <1>13, <1>20, <2>9
<1> QED BY <1>12, <1>22, <1>23, <1>24, <1>25 DEF Adding

(***************************************************************************)
(* A thread that ends                                                      *)
(***************************************************************************)
LEMMA TerminateKeeps ==
  ASSUME Common, NEW S, NEW pend, LiveIn(S, pend), thread_terminate
  PROVE  Inv'
<1>0. PICK t \in Workers : t = cpu.on
  BY DEF thread_terminate, WorkerAt
<1> DEFINE f == [Top EXCEPT !.pc = "terminated"]
<1>1. /\ Top.pc = "body" /\ Top.stores = <<>> /\ t \in Workers /\ Ends(t)
      /\ state' = [state EXCEPT ![current_thread] = "TERMINATED"] /\ cpu' = ReplaceTop(f)
      /\ UNCHANGED <<next, prev, slice, rsp, current_thread, intr, panic>>
  BY <1>0 DEF thread_terminate, WorkerAt, At, Ends
<1>2. Depth = 1 /\ current_thread = t /\ ~Top.isr /\ t \in S /\ t \in Started
  <2>1. Depth \in Nat /\ Depth >= 1
    BY TopFacts DEF Common, Typed
  <2>2. Depth = 1
    BY <1>1, <2>1, LiveTop
  <2> QED BY <1>0, <2>2, LiveTop
<1>3. cpu \in Contexts /\ Top \in Frames /\ state \in [Threads -> States] /\ t \in Threads /\ t # Main
  BY <1>1, TopFacts, Distinct DEF Common, Typed
<1>4. f \in Frames /\ f.pc = "terminated" /\ ~f.isr /\ f.stores = <<>>
  BY <1>1, <1>2, <1>3 DEF Frames, PCs
<1> HIDE DEF f
<1>5. cpu' \in Contexts /\ cpu'.on = t /\ Depth' = 1 /\ cpu'.frames[1] = f /\ Top' = f
  BY <1>1, <1>2, <1>3, <1>4, <1>0, Replaced DEF Depth, ReplaceTop, Top
<1>6. Ending(t)
  BY <1>1, <1>2, StartedFacts DEF Ending, Common
<1>7. Whole(S, pend)
  <2> SUFFICES ASSUME AddingTo(S, pend) PROVE FALSE
    BY DEF LiveIn, Linked
  <2>1. PICK n \in Workers : (\A w \in Workers \ {n} : ~Ending(w)) /\ S = (Started \ {n}) \cup {Queue}
    BY DEF AddingTo
  <2> QED BY <1>1, <1>2, <1>6, <2>1, Distinct
<1>8. /\ pend = <<>> /\ S = Started \cup {Queue} /\ Chained(S, prev) /\ next[t] = Queue
      /\ S \in SUBSET (Started \cup {Queue})
  BY <1>1, <1>2, <1>6, <1>7 DEF Whole, Chained
<1>9. /\ state' \in [Threads -> States] /\ state'[t] = "TERMINATED"
      /\ \A x \in Threads \ {t} : state'[x] = state[x]
  BY <1>1, <1>2, <1>3 DEF States
<1>10. Started' = Started \ {t}
  BY <1>9 DEF Started
<1>11. Calm'
  <2> SUFFICES ASSUME NEW w \in Workers, Ending(w)' PROVE FALSE
    BY DEF Calm
  <2>1. w # t /\ Ending(w)
    BY <1>9, Distinct DEF Ending
  <2>2. w \in S /\ next[w] = Queue
    BY <1>8, <2>1, StartedFacts DEF Chained, Ending, Common
  <2>3. prev[next[w]] = w /\ prev[next[t]] = t
    BY <1>2, <1>8, <2>2 DEF Chained, IsRing
  <2> QED BY <1>8, <2>1, <2>2, <2>3
<1>12. Len(rsp[Main].frames) = 2
  <2>1. Resting(rsp[Main], Main)
    BY <1>3, <1>0, StartedFacts DEF Common, OffCpu
  <2>2. rsp[Main] \in Contexts
    BY Distinct DEF Common, Typed
  <2>3. Len(rsp[Main].frames) \in Nat /\ Len(rsp[Main].frames) >= 2 /\ Len(rsp[Main].frames) <= 3
    BY <2>1, <2>2 DEF Resting, Contexts
  <2>4. Len(rsp[Main].frames) # 3
    BY <1>1, <1>3, <1>6, <1>0 DEF Common, OffCpu, Calm
  <2>5. \A n \in Nat : n >= 2 /\ n <= 3 /\ n # 3 => n = 2
    OBVIOUS
  <2> QED BY ONLY <2>3, <2>4, <2>5
<1>13. Typed'
  BY <1>1, <1>5, <1>9 DEF Common, Typed
<1>14. Lifecycle'
  BY <1>1, <1>3, <1>9, Distinct DEF Common, Lifecycle
<1>15. OffCpu'
  BY <1>1, <1>5, <1>10, <1>11, <1>0 DEF Common, OffCpu
<1>16. Pend' = <<>>
  BY <1>1, <1>3, <1>5, <1>8, <1>0 DEF LiveIn, Pend
<1>17. Before(t)'
  <2>1. Started' \cup {Queue, t} = S
    BY <1>2, <1>8, <1>10
  <2>2. \A w \in Workers : ~Ending(w)'
    BY <1>11 DEF Calm
  <2>3. IsRing(S, next', prev') /\ next'[Queue] = Main /\ next'[t] = Queue /\ Main \in S
    BY <1>1, <1>8 DEF Chained
  <2> QED BY <2>1, <2>2, <2>3 DEF Before, Chained
<1>18. DyingAs(t, <<>>)'
  <2>1. \A i \in 1 .. Depth' : ~cpu'.frames[i].isr
    BY <1>4, <1>5
  <2>2. Leaving(t, <<>>)'
    BY <1>4, <1>5, <1>17 DEF Leaving
  <2> QED BY <1>1, <1>2, <1>4, <1>5, <1>9, <1>11, <1>12, <1>16, <2>1, <2>2 DEF DyingAs
<1>19. Dying'
  BY <1>1, <1>18 DEF Dying
<1> QED BY <1>13, <1>14, <1>15, <1>19 DEF Inv, Common

\* What a thread that ends does to its stack and to the links, until the switch.
LEMMA DyingStep ==
  ASSUME Common, NEW t \in Workers, NEW pend, DyingAs(t, pend), NEW rest,
         UNCHANGED <<state, slice, rsp, intr>>, panic' = FALSE,
         next' \in Links, prev' \in Links,
         \A w \in Workers : state[w] = "NEW" => next'[w] = next[w],
         cpu' \in Contexts, cpu'.on = t, Depth' >= 1,
         \A i \in 1 .. Depth' : ~cpu'.frames[i].isr,
         current_thread' = IF Top'.pc = "switch" THEN Main ELSE t,
         Top'.stores = rest, Leaving(t, rest)'
  PROVE  Inv'
<1>1. cpu.on = t /\ t \in Threads /\ t # Main
  BY Distinct DEF DyingAs
<1>2. Typed'
  BY <1>1, Distinct DEF Common, Typed
<1>3. Lifecycle'
  BY DEF Common, Lifecycle
<1>4. Started' = Started /\ (Calm' <=> Calm)
  BY DEF Started, Calm, Ending
<1>5. OffCpu'
  BY <1>1, <1>4 DEF Common, OffCpu
<1>6. Pend' = Pend
  BY <1>1 DEF Pend
<1>7. DyingAs(t, rest)'
  BY <1>4, <1>6 DEF DyingAs
<1> QED BY <1>2, <1>3, <1>5, <1>7 DEF Inv, Common, Dying

LEMMA LastScheduleKeeps ==
  ASSUME Common, NEW t \in Workers, NEW pend, DyingAs(t, pend), terminate_calls_schedule
  PROVE  Inv'
<1> DEFINE f == [Top EXCEPT !.pc = "trampoline"]  c == ReplaceTop(f)  g == Frame("schedule", FALSE)
<1>1. /\ Top.pc = "terminated" /\ Top.stores = <<>> /\ cpu' = Push(c, g)
      /\ UNCHANGED <<next, prev, state, slice, rsp, current_thread, intr, panic>>
  BY DEF terminate_calls_schedule, WorkerAt, At
<1>2. /\ Depth = 1 /\ cpu.on = t /\ Before(t) /\ current_thread = t /\ pend = <<>> /\ ~Top.isr
  BY <1>1 DEF DyingAs, Leaving, Top
<1>3. cpu \in Contexts /\ Top \in Frames
  BY TopFacts DEF Common, Typed
<1>4. f \in Frames /\ f.pc = "trampoline" /\ ~f.isr /\ f.stores = <<>>
  BY <1>1, <1>2, <1>3 DEF Frames, PCs
<1>5. g \in Frames /\ g.pc = "schedule" /\ ~g.isr /\ g.stores = <<>>
  BY FrameFacts DEF PCs
<1> HIDE DEF f, g
<1>6. c \in Contexts /\ c.on = t /\ Len(c.frames) = 1 /\ c.frames[1] = f
  BY <1>2, <1>3, <1>4, Replaced DEF Depth, ReplaceTop
<1> HIDE DEF c
<1>7. /\ Push(c, g) \in Contexts /\ Push(c, g).on = t /\ Len(Push(c, g).frames) = 2
      /\ Push(c, g).frames[2] = g /\ Push(c, g).frames[1] = f
  <2>1. /\ Push(c, g) \in Contexts /\ Push(c, g).on = c.on
        /\ Len(Push(c, g).frames) = Len(c.frames) + 1
        /\ Push(c, g).frames[Len(c.frames) + 1] = g
        /\ \A i \in 1 .. Len(c.frames) : Push(c, g).frames[i] = c.frames[i]
    BY <1>5, <1>6, Pushed
  <2> QED BY ONLY <1>6, <2>1
<1>8. /\ cpu' \in Contexts /\ cpu'.on = t /\ Depth' = 2
      /\ Top' = g /\ cpu'.frames[1] = f /\ cpu'.frames[2] = g
  BY <1>1, <1>7 DEF Depth, Top
<1>9. Before(t)'
  BY <1>1, <1>2 DEF Before, Chained, Started, Ending
<1>10. Leaving(t, <<>>)'
  BY <1>4, <1>5, <1>8, <1>9 DEF Leaving
<1>11. \A i \in 1 .. Depth' : ~cpu'.frames[i].isr
  BY <1>4, <1>5, <1>8
<1>12. next' \in Links /\ prev' \in Links /\ panic' = FALSE
  BY <1>1 DEF Common, Typed
<1>13. current_thread' = (IF Top'.pc = "switch" THEN Main ELSE t) /\ Top'.stores = <<>> /\ Depth' >= 1
  BY <1>1, <1>2, <1>5, <1>8
<1> QED BY <1>1, <1>8, <1>10, <1>11, <1>12, <1>13, DyingStep

\* The top frame of the last schedule() replaced by its next step.
LEMMA DyingTop ==
  ASSUME Common, NEW t \in Workers, NEW pend, DyingAs(t, pend), Depth = 2,
         NEW f \in Frames, cpu' = ReplaceTop(f), ~f.isr
  PROVE  /\ cpu' \in Contexts /\ cpu'.on = t /\ Depth' = 2 /\ Depth' >= 1 /\ Top' = f
         /\ cpu'.frames[1] = cpu.frames[1]
         /\ \A i \in 1 .. Depth' : ~cpu'.frames[i].isr
<1>1. cpu \in Contexts /\ cpu.on = t /\ ~cpu.frames[1].isr
  BY DEF Common, Typed, DyingAs
<1>2. /\ cpu' \in Contexts /\ cpu'.on = t /\ Depth' = 2
      /\ cpu'.frames[2] = f /\ cpu'.frames[1] = cpu.frames[1]
  BY <1>1, Replaced, SMTT(30) DEF Below, Depth, ReplaceTop
<1>3. Top' = f
  BY <1>2 DEF Top
<1> QED BY <1>1, <1>2, <1>3

LEMMA DyingScheduleKeeps ==
  ASSUME Common, NEW t \in Workers, NEW pend, DyingAs(t, pend), schedule
  PROVE  Inv'
<1>1. Top.pc = "schedule" /\ Top.stores = <<>>
  BY DEF schedule, At
<1>2. /\ Depth = 2 /\ cpu.on = t /\ Before(t) /\ current_thread = t /\ ~Top.isr
      /\ state[t] = "TERMINATED"
      /\ cpu.frames[1].pc = "trampoline" /\ cpu.frames[1].stores = <<>>
  BY <1>1 DEF DyingAs, Leaving, Top
<1>3. next[Queue] = Main /\ next[t] = Queue /\ Main # Queue
  BY <1>2, Distinct DEF Before, Chained
<1>0. PICK dels : dels = list_del(t)
  OBVIOUS
<1> DEFINE f == [Top EXCEPT !.pc = "pick", !.old = t, !.next = Queue, !.stores = dels]
<1>4. /\ cpu' = ReplaceTop(f)
      /\ UNCHANGED <<next, prev, state, slice, rsp, current_thread, intr, panic>>
  BY <1>0, <1>2, <1>3 DEF schedule, list_empty
<1>5. /\ Top \in Frames /\ next \in Links /\ prev \in Links /\ panic = FALSE
      /\ t \in Threads /\ Threads \subseteq Nodes /\ Queue \in Nodes
  BY TopFacts, Distinct DEF Common, Typed
<1>6. dels \in Seq(Stores)
  <2> DEFINE N == Nodes \cup {NULL}
  <2>1. \A n, v \in N : SetNext(n, v) \in Stores /\ SetPrev(n, v) \in Stores
    BY DEF SetNext, SetPrev, Stores
  <2>2. prev[t] \in N /\ next[t] \in N /\ t \in N /\ NULL \in N
    BY <1>5 DEF Links
  <2> HIDE DEF N
  <2>3. \A a, b, c, d \in Stores : <<a, b, c, d>> \in Seq(Stores)
    OBVIOUS
  <2> QED BY <1>0, <2>1, <2>2, <2>3 DEF list_del
<1>7. "pick" \in PCs /\ t \in Threads \cup {NULL} /\ Queue \in Nodes \cup {NULL}
  BY <1>5 DEF PCs
<1>8. /\ f \in Frames /\ f.pc = "pick" /\ f.old = t /\ f.next = Queue /\ f.stores = dels
      /\ f.isr = Top.isr
  BY ONLY <1>5, <1>6, <1>7 DEF Frames
<1> HIDE DEF f
<1>9. /\ cpu' \in Contexts /\ cpu'.on = t /\ Depth' = 2 /\ Depth' >= 1 /\ Top' = f
      /\ cpu'.frames[1] = cpu.frames[1] /\ \A i \in 1 .. Depth' : ~cpu'.frames[i].isr
  BY <1>2, <1>4, <1>8, DyingTop
<1>10. Before(t)' /\ list_del(t)' = dels
  BY <1>0, <1>2, <1>4 DEF Before, Chained, Started, Ending, list_del
<1>11. Leaving(t, dels)'
  BY <1>2, <1>8, <1>9, <1>10 DEF Leaving, Deleting
<1>12. current_thread' = (IF Top'.pc = "switch" THEN Main ELSE t) /\ Top'.stores = dels
  BY <1>2, <1>4, <1>8, <1>9
<1> QED BY <1>4, <1>5, <1>9, <1>11, <1>12, DyingStep

LEMMA DyingPickKeeps ==
  ASSUME Common, NEW t \in Workers, NEW pend, DyingAs(t, pend), pick
  PROVE  Inv'
<1>1. Top.pc = "pick" /\ Top.stores = <<>>
  BY DEF pick, At
<1>2. /\ Depth = 2 /\ cpu.on = t /\ current_thread = t /\ ~Top.isr /\ pend = <<>>
      /\ Top.old = t /\ Top.next = Queue /\ Deleting(t, <<>>)
      /\ cpu.frames[1].pc = "trampoline" /\ cpu.frames[1].stores = <<>>
  BY <1>1 DEF DyingAs, Leaving, Top
<1>3. After
  <2>1. \A a, b, c, d : <<>> # <<a, b, c, d>> /\ <<>> # <<b, c, d>>
    OBVIOUS
  <2> QED BY <1>2, <2>1 DEF Deleting, list_del
<1>4. next[Queue] = Main /\ Main # Queue /\ Main # NULL /\ Main # t
      /\ Main \in Nodes /\ Main \in Threads
  BY <1>3, Distinct DEF After, Chained
<1> DEFINE f == [Top EXCEPT !.pc = "switch", !.next = Main]
<1>5. /\ cpu' = ReplaceTop(f) /\ current_thread' = Main
      /\ UNCHANGED <<next, prev, state, slice, rsp, intr, panic>>
  BY <1>2, <1>4 DEF pick, SkipHead
<1>6. Top \in Frames /\ next \in Links /\ prev \in Links /\ panic = FALSE
  BY TopFacts DEF Common, Typed
<1>7. /\ f \in Frames /\ f.pc = "switch" /\ f.old = t /\ f.next = Main /\ f.stores = <<>>
      /\ ~f.isr
  BY <1>1, <1>2, <1>4, <1>6 DEF Frames, PCs
<1> HIDE DEF f
<1>8. /\ cpu' \in Contexts /\ cpu'.on = t /\ Depth' = 2 /\ Depth' >= 1 /\ Top' = f
      /\ cpu'.frames[1] = cpu.frames[1] /\ \A i \in 1 .. Depth' : ~cpu'.frames[i].isr
  BY <1>2, <1>5, <1>7, DyingTop
<1>9. After'
  BY <1>3, <1>5 DEF After, Chained, Started, Ending
<1>10. Leaving(t, <<>>)'
  BY <1>2, <1>7, <1>8, <1>9 DEF Leaving
<1>11. current_thread' = (IF Top'.pc = "switch" THEN Main ELSE t) /\ Top'.stores = <<>>
  BY <1>5, <1>7, <1>8
<1> QED BY <1>5, <1>6, <1>8, <1>10, <1>11, DyingStep

\* The last switch: kmain's thread goes on, and nothing is left of the other.
LEMMA DyingSwitchKeeps ==
  ASSUME Common, NEW t \in Workers, NEW pend, DyingAs(t, pend), cpu_switch_context
  PROVE  Inv'
<1>1. Top.pc = "switch" /\ Top.stores = <<>>
  BY DEF cpu_switch_context, At
<1>2. /\ cpu.on = t /\ current_thread = Main /\ Top.old = t /\ Top.next = Main /\ After
      /\ state[t] = "TERMINATED" /\ Calm /\ Pend = <<>> /\ Len(rsp[Main].frames) = 2
      /\ t \in Threads /\ t # Main /\ Main \in Threads /\ t \notin Started
  BY <1>1, Distinct DEF DyingAs, Leaving, Started
<1> DEFINE f == [Top EXCEPT !.pc = "return"]  c == ReplaceTop(f)
<1>3. /\ rsp' = [rsp EXCEPT ![t] = c] /\ cpu' = rsp[Main]
      /\ UNCHANGED <<next, prev, state, slice, current_thread, intr, panic>>
  BY <1>2 DEF cpu_switch_context
<1>4. cpu \in Contexts /\ Top \in Frames /\ Depth >= 1 /\ rsp \in [Threads -> Contexts]
  BY TopFacts DEF Common, Typed
<1>5. f \in Frames
  BY <1>4 DEF Frames, PCs
<1> HIDE DEF f
<1>6. c \in Contexts
  BY <1>4, <1>5, Replaced DEF Depth, ReplaceTop
<1> HIDE DEF c
<1>7. rsp' \in [Threads -> Contexts] /\ \A x \in Threads \ {t} : rsp'[x] = rsp[x]
  BY <1>2, <1>3, <1>4, <1>6
<1>8. Resting(rsp[Main], Main)
  BY <1>2, StartedFacts DEF Common, OffCpu
<1>9. /\ cpu' \in Contexts /\ cpu'.on = Main /\ Depth' = 2 /\ Depth' >= 1
      /\ cpu'.frames[1].pc = "body" /\ ~cpu'.frames[1].isr /\ Waiting(cpu'.frames[2])
      /\ cpu'.frames[1].stores = <<>>
  <2>1. rsp[Main] \in Contexts /\ Pend = rsp[Main].frames[1].stores
    BY <1>2, <1>4 DEF Pend
  <2> QED BY <1>2, <1>3, <1>8, <2>1 DEF Resting, Depth
<1>10. Started' = Started /\ (Calm' <=> Calm) /\ Started \in SUBSET Threads /\ Main \in Started
  BY <1>3, StartedFacts DEF Started, Calm, Ending, Common
<1>11. Typed'
  BY <1>3, <1>7, <1>9 DEF Common, Typed
<1>12. Lifecycle'
  BY <1>2, <1>3, <1>7, Distinct DEF Common, Lifecycle
<1>13. OffCpu'
  <2> SUFFICES ASSUME NEW x \in Started \ {Main}
               PROVE  Resting(rsp'[x], x) \/ (x # Main /\ rsp'[x] = Fresh(x))
    BY <1>9, <1>10 DEF OffCpu, Resting, Waiting, Fresh, Frame
  <2>1. x # t /\ x \in Threads
    BY <1>2, <1>10
  <2> QED BY <1>2, <1>7, <2>1 DEF Common, OffCpu
<1> DEFINE S == Started \cup {Queue}
<1>14. PICK T : T = S
  OBVIOUS
<1>15. Linked(T, <<>>)'
  BY <1>2, <1>3, <1>10, <1>14 DEF Linked, Whole, After, Chained, Ending
<1>16. Pend' = <<>>
  BY <1>9 DEF Pend
<1>17. OnCpu(T)'
  <2>1. Top' = cpu'.frames[2] /\ Waiting(Top)' /\ Top'.pc # "switch"
    BY <1>9 DEF Top, Waiting
  <2>2. Entry'
    BY <1>9 DEF Entry
  <2>3. Above(T)'
    BY <1>9, <2>1 DEF Above
  <2>4. Nesting' /\ Current'
    BY <1>2, <1>3, <1>9, <1>10, <2>1 DEF Nesting, Current
  <2> QED BY <1>9, <1>10, <1>14, <2>2, <2>3, <2>4 DEF OnCpu
<1>18. Live'
  BY <1>15, <1>16, <1>17 DEF Live, LiveIn
<1> QED BY <1>11, <1>12, <1>13, <1>18 DEF Inv, Common

\* The stores of list_del: the second takes the thread out of the ring.
LEMMA DyingStoreKeeps ==
  ASSUME Common, NEW t \in Workers, NEW pend, DyingAs(t, pend), Store
  PROVE  Inv'
<1> DEFINE s == Head(Top.stores)  f == [Top EXCEPT !.stores = Tail(@)]
<1>1. /\ Top.stores # <<>> /\ cpu' = ReplaceTop(f)
      /\ UNCHANGED <<state, slice, rsp, current_thread, intr>>
  BY DEF Store
<1>2. /\ panic' = (s.node = NULL)
      /\ next' = IF s.field = "next" /\ s.node # NULL THEN [next EXCEPT ![s.node] = s.value] ELSE next
      /\ prev' = IF s.field = "prev" /\ s.node # NULL THEN [prev EXCEPT ![s.node] = s.value] ELSE prev
  BY DEF Store
<1>3. /\ Depth = 2 /\ cpu.on = t /\ current_thread = t /\ ~Top.isr /\ pend = Top.stores
      /\ Top.pc = "pick" /\ Top.old = t /\ Top.next = Queue /\ Deleting(t, pend)
      /\ cpu.frames[1].pc = "trampoline" /\ cpu.frames[1].stores = <<>>
      /\ state[t] = "TERMINATED" /\ Calm
  BY <1>1 DEF DyingAs, Leaving, Top
<1>4. /\ Top \in Frames /\ next \in Links /\ prev \in Links /\ t \in Threads /\ t # Queue
      /\ t # NULL /\ Queue # NULL /\ Queue \in Nodes /\ t \in Nodes /\ t \notin Started
      /\ Started \in SUBSET Threads /\ NULL \notin Nodes
  BY <1>3, TopFacts, StartedFacts, Distinct DEF Common, Typed, Started
<1> DEFINE rest == Tail(pend)
<1>5. /\ f \in Frames /\ f.pc = "pick" /\ f.old = t /\ f.next = Queue /\ f.stores = rest /\ ~f.isr
  <2>1. Tail(Top.stores) \in Seq(Stores)
    BY <1>1, <1>4 DEF Frames
  <2> QED BY <1>3, <1>4, <2>1 DEF Frames
<1> HIDE DEF f
<1>6. /\ cpu' \in Contexts /\ cpu'.on = t /\ Depth' = 2 /\ Depth' >= 1 /\ Top' = f
      /\ cpu'.frames[1] = cpu.frames[1] /\ \A i \in 1 .. Depth' : ~cpu'.frames[i].isr
  BY <1>1, <1>3, <1>5, DyingTop
<1>7. s = Head(pend)
  BY <1>3
<1> HIDE DEF s
<1>8. Started' = Started /\ \A w \in Workers : ~Ending(w) /\ ~Ending(w)'
  BY <1>1, <1>3 DEF Started, Calm, Ending
<1>9. ASSUME s.node \in Started \cup {Queue, t}, s.value \in Nodes \cup {NULL}, Deleting(t, rest)'
      PROVE  Inv'
  <2>1. s.node \in Nodes /\ s.node # NULL
    BY <1>4, <1>9, Distinct DEF Nodes
  <2>2. panic' = FALSE /\ next' \in Links /\ prev' \in Links
    BY <1>2, <1>4, <1>9, <2>1 DEF Links
  <2>3. ASSUME NEW w \in Workers, state[w] = "NEW" PROVE next'[w] = next[w]
    <3>1. w # s.node
      BY <1>3, <1>9, <2>3, Distinct DEF Started
    <3> QED BY <1>2, <1>4, <3>1 DEF Links
  <2>4. Leaving(t, rest)'
    BY <1>3, <1>5, <1>6, <1>9 DEF Leaving
  <2>5. current_thread' = (IF Top'.pc = "switch" THEN Main ELSE t) /\ Top'.stores = rest
    BY <1>1, <1>3, <1>5, <1>6
  <2> HIDE DEF rest
  <2> QED BY <1>1, <1>6, <2>2, <2>3, <2>4, <2>5, DyingStep
<1> DEFINE S == Started \cup {Queue, t}
<1>10. CASE Before(t) /\ pend = list_del(t)
  <2>1. PICK back \in Links : back = prev
    BY <1>4
  <2> DEFINE p == back[t]
  <2>2. IsRing(S, next, back) /\ Main \in S /\ next[Queue] = Main /\ next[t] = Queue
    BY <1>10, <2>1 DEF Before, Chained
  <2>3. /\ s = SetPrev(Queue, p)
        /\ rest = <<SetNext(p, Queue), SetNext(t, NULL), SetPrev(t, NULL)>>
    BY <1>7, <1>10, <2>1, <2>2, StoreFacts DEF list_del
  <2>4. s.field = "prev" /\ s.node = Queue /\ s.value = p
    BY <2>3, StoreFacts
  <2>5. next' = next /\ prev' = [back EXCEPT ![Queue] = p]
    BY <1>2, <1>4, <2>1, <2>4
  <2>6. Chained(Started \cup {Queue, t}, back)'
    BY <1>8, <2>2, <2>5 DEF Chained
  <2>7. Deleting(t, rest)'
    BY <2>1, <2>2, <2>3, <2>5, <2>6 DEF Deleting
  <2>8. p \in Nodes \cup {NULL}
    BY <1>4, <2>1 DEF Links
  <2> QED BY <1>9, <2>4, <2>7, <2>8
<1>11. ASSUME NEW back \in Links,
              Chained(S, back), next[t] = Queue, prev = [back EXCEPT ![Queue] = back[t]],
              pend = <<SetNext(back[t], Queue), SetNext(t, NULL), SetPrev(t, NULL)>>
       PROVE  Inv'
  <2> DEFINE p == back[t]
  <2>1. /\ IsRing(S, next, back) /\ Main \in S /\ next[Queue] = Main /\ p \in S /\ next[p] = t
        /\ p # Queue /\ p # t /\ Main # t
    BY <1>4, <1>11, Distinct DEF Chained, IsRing
  <2>2. s = SetNext(p, Queue) /\ rest = <<SetNext(t, NULL), SetPrev(t, NULL)>>
    BY <1>7, <1>11, StoreFacts
  <2>3. s.field = "next" /\ s.node = p /\ s.value = Queue
    BY <2>2, StoreFacts
  <2>4. next' = [next EXCEPT ![p] = Queue] /\ prev' = prev
    BY <1>2, <1>4, <2>1, <2>3, Distinct DEF Nodes
  <2>5. p \in Nodes
    BY <1>4, <2>1, Distinct DEF Nodes
  <2>6. /\ next'[p] = next[t] /\ \A x \in S \ {t, p} : next'[x] = next[x]
        /\ prev'[next[t]] = p /\ \A x \in S \ {t, next[t]} : prev'[x] = back[x]
    BY <1>4, <1>11, <2>4, <2>5, Distinct DEF Links, Nodes
  <2>7. IsRing(S \ {t}, next', prev')
    BY <1>4, <1>11, <2>1, <2>6, RingDelete
  <2>8. next'[Queue] = Main /\ Main \in S \ {t}
    BY <1>4, <1>11, <2>1, <2>6
  <2>9. S \ {t} = Started' \cup {Queue}
    BY <1>4, <1>8
  <2>10. After'
    BY <1>8, <2>7, <2>8, <2>9 DEF After, Chained
  <2>11. Deleting(t, rest)'
    BY <2>2, <2>10 DEF Deleting
  <2> QED BY <1>4, <1>9, <2>1, <2>3, <2>11
<1>12. CASE /\ After
            /\ pend \in {<<SetNext(t, NULL), SetPrev(t, NULL)>>, <<SetPrev(t, NULL)>>, <<>>}
  <2> DEFINE T == Started \cup {Queue}
  <2>1. IsRing(T, next, prev) /\ Main \in T /\ next[Queue] = Main
    BY <1>12 DEF After, Chained
  <2>2. /\ s.node = t /\ s.value = NULL /\ s.field \in {"next", "prev"}
        /\ rest \in {<<SetPrev(t, NULL)>>, <<>>}
    <3>1. pend # <<>>
      BY <1>1, <1>3
    <3>2. CASE pend = <<SetNext(t, NULL), SetPrev(t, NULL)>>
      <4>1. s = SetNext(t, NULL) /\ rest = <<SetPrev(t, NULL)>>
        BY <1>7, <3>2, StoreFacts
      <4> QED BY <4>1, StoreFacts
    <3>3. CASE pend = <<SetPrev(t, NULL)>>
      <4>1. s = SetPrev(t, NULL) /\ rest = <<>>
        BY <1>7, <3>3, StoreFacts
      <4> QED BY <4>1, StoreFacts
    <3> QED BY <1>12, <3>1, <3>2, <3>3
  <2>3. \A x \in T : next'[x] = next[x] /\ prev'[x] = prev[x]
    BY <1>2, <1>4, <2>2 DEF Links
  <2>4. IsRing(T, next', prev')
    BY <2>1, <2>3, RingSame
  <2>5. After'
    BY <1>8, <2>1, <2>3, <2>4 DEF After, Chained
  <2>6. Deleting(t, rest)'
    BY <2>2, <2>5 DEF Deleting
  <2> QED BY <1>9, <2>2, <2>6
<1> QED BY <1>3, <1>10, <1>11, <1>12 DEF Deleting

(***************************************************************************)
(* Every step                                                              *)
(***************************************************************************)
LEMMA StutterKeeps ==
  ASSUME Inv, UNCHANGED vars
  PROVE  Inv'
<1>1. UNCHANGED <<next, prev, state, slice, rsp, current_thread, cpu, intr, panic>>
  BY DEF vars
<1>2. Common
  BY DEF Inv
<1>3. Depth' = Depth /\ Top' = Top /\ Started' = Started /\ (Calm' <=> Calm)
  BY <1>1 DEF Depth, Top, Started, Calm, Ending
<1>4. /\ cpu' \in Contexts /\ Depth' >= 1 /\ slice' \in [Threads -> Nat] /\ intr' \in BOOLEAN
      /\ current_thread' \in Threads /\ next' \in Links /\ prev' \in Links /\ panic' = FALSE
  BY <1>1, <1>2, <1>3 DEF Common, Typed
<1>5. CASE Live
  <2>1. PICK S, pend : LiveIn(S, pend)
    BY <1>5 DEF Live
  <2>2. Entry'
    BY <1>1, <1>3, <2>1 DEF LiveIn, OnCpu, Entry
  <2>3. Switching(S)' <=> Switching(S)
    BY <1>1, <1>3 DEF Switching, SkipHead
  <2>4. Above(S)'
    BY <1>1, <1>3, <2>1, <2>3 DEF LiveIn, OnCpu, Above, Waiting
  <2>5. Nesting' /\ Current'
    BY <1>1, <1>3, <2>1 DEF LiveIn, OnCpu, Nesting, Current, Waiting
  <2>6. OnCpu(S)'
    BY <1>1, <2>1, <2>2, <2>4, <2>5 DEF LiveIn, OnCpu
  <2> QED BY <1>1, <1>2, <1>4, <2>1, <2>6, StackStep
<1>6. CASE Dying
  <2>0. PICK t \in Workers : \E pend : DyingAs(t, pend)
    BY <1>6 DEF Dying
  <2>1. PICK pend : DyingAs(t, pend)
    BY <2>0
  <2>2. \A S, back : Chained(S, back)' <=> Chained(S, back)
    BY <1>1 DEF Chained, Ending
  <2>3. Before(t)' <=> Before(t)
    BY <1>1, <1>3, <2>2 DEF Before, Chained, Ending
  <2>4. After' <=> After
    BY <1>1, <1>3, <2>2 DEF After, Chained, Ending
  <2>5. list_del(t)' = list_del(t)
    BY <1>1 DEF list_del
  <2>6. Deleting(t, pend)' <=> Deleting(t, pend)
    BY <1>1, <1>3, <2>2, <2>3, <2>4, <2>5 DEF Deleting
  <2>7. Leaving(t, pend)'
    BY <1>1, <1>3, <2>1, <2>3, <2>4, <2>6 DEF DyingAs, Leaving
  <2>8. /\ cpu'.on = t /\ Top'.stores = pend
        /\ current_thread' = IF Top'.pc = "switch" THEN Main ELSE t
        /\ \A i \in 1 .. Depth' : ~cpu'.frames[i].isr
    BY <1>1, <1>3, <2>1 DEF DyingAs
  <2>9. \A w \in Workers : state[w] = "NEW" => next'[w] = next[w]
    BY <1>1
  <2> QED BY <1>1, <1>2, <1>4, <2>1, <2>7, <2>8, <2>9, DyingStep
<1> QED BY <1>5, <1>6 DEF Inv

(***************************************************************************)
(* kmain                                                                   *)
(***************************************************************************)

\* Between two of its operations kmain has no store to make, and the ring is
\* whole.
LEMMA KmainAt ==
  ASSUME Common, Live \/ Dying, KmainReady
  PROVE  /\ Depth = 1 /\ cpu.on = Main /\ current_thread = Main /\ intr
         /\ Top = cpu.frames[1] /\ Top.pc = "body" /\ ~Top.isr /\ Top.stores = <<>>
         /\ Chained(Started \cup {Queue}, prev)
         /\ \E S : LiveIn(S, <<>>) /\ S = Started \cup {Queue}
<1>1. cpu.on = Main /\ Top.pc = "body" /\ Top.stores = <<>>
  BY DEF KmainReady, At
<1>2. PICK S, pend : LiveIn(S, pend)
  BY <1>1, Distinct DEF Live, Dying, DyingAs
<1>3. Depth = 1
  <2>1. Depth \in Nat /\ Depth >= 1
    BY TopFacts DEF Common, Typed
  <2> QED BY <1>1, <1>2, <2>1, LiveTop
<1>4. Top = cpu.frames[1] /\ ~Top.isr /\ current_thread = Main
  BY <1>1, <1>2, <1>3, LiveTop DEF Top
<1>5. pend = <<>> /\ intr
  BY <1>1, <1>2, <1>3, <1>4 DEF LiveIn, Pend, OnCpu, Nesting
<1>6. Whole(S, pend)
  <2>1. \A a, b, c, d : /\ <<>> # <<a, b, c, d>> /\ <<>> # <<b, c, d>>
                        /\ <<>> # <<c, d>> /\ <<>> # <<d>>
    OBVIOUS
  <2>2. ~AddingTo(S, pend)
    BY <1>5, <2>1 DEF AddingTo, Adding
  <2> QED BY <1>2, <2>2 DEF LiveIn, Linked
<1> QED BY <1>1, <1>2, <1>3, <1>4, <1>5, <1>6 DEF Whole

\* kmain's stack, with these stores to make.
LEMMA KmainOnCpu ==
  ASSUME Depth' = 1, cpu'.on = Main, current_thread' = Main, intr',
         cpu'.frames[1].pc = "body", ~cpu'.frames[1].isr, NEW S, Main \in S
  PROVE  OnCpu(S)'
<1>1. Top' = cpu'.frames[1]
  BY DEF Top
<1>2. Entry' /\ Above(S)'
  BY DEF Entry, Above
<1>3. Nesting' /\ Current'
  BY <1>1 DEF Nesting, Current
<1> QED BY <1>2, <1>3 DEF OnCpu

\* thread_create and thread_destroy leave alone what is linked.
LEMMA CreateKeeps ==
  ASSUME Common, Live \/ Dying, NEW t \in Workers, thread_create(t) \/ thread_destroy(t)
  PROVE  Inv'
<1>1. KmainReady /\ UNCHANGED <<current_thread, cpu, intr, panic>>
  BY DEF thread_create, thread_destroy
<1>2. /\ t \in Threads /\ t # Main /\ t # Queue /\ t \in Nodes
      /\ next \in Links /\ prev \in Links /\ state \in [Threads -> States]
      /\ rsp \in [Threads -> Contexts] /\ slice \in [Threads -> Nat]
      /\ Fresh(t) \in Contexts
  BY Distinct, FrameFacts DEF Common, Typed
<1>3. /\ state[t] \in {"UNUSED", "NEW", "TERMINATED"}
      /\ \/ state' = [state EXCEPT ![t] = "NEW"] /\ rsp' = [rsp EXCEPT ![t] = Fresh(t)]
            /\ next' = [next EXCEPT ![t] = t] /\ prev' = [prev EXCEPT ![t] = t]
            /\ \E g \in Garbage : slice' = [slice EXCEPT ![t] = g]
         \/ state' = [state EXCEPT ![t] = "UNUSED"]
            /\ UNCHANGED <<next, prev, slice, rsp>>
  BY DEF thread_create, thread_destroy
<1>4. next' \in Links /\ \A x \in Nodes \ {t} : next'[x] = next[x]
  BY <1>2, <1>3 DEF Links
<1>5. prev' \in Links /\ \A x \in Nodes \ {t} : prev'[x] = prev[x]
  BY <1>2, <1>3 DEF Links
<1>6. rsp' \in [Threads -> Contexts] /\ \A x \in Threads \ {t} : rsp'[x] = rsp[x]
  BY <1>2, <1>3
<1>7. slice' \in [Threads -> Nat]
  BY <1>2, <1>3, SchedAssumption
<1>8. /\ state' \in [Threads -> States] /\ state'[t] \in {"NEW", "UNUSED"}
      /\ \A x \in Threads \ {t} : state'[x] = state[x]
      /\ state'[t] = "NEW" => next'[t] = t /\ rsp'[t] = Fresh(t)
  BY <1>2, <1>3 DEF States, Links
<1>9. Typed'
  BY <1>1, <1>4, <1>5, <1>6, <1>7, <1>8 DEF Common, Typed, Depth
<1>10. Lifecycle'
  <2>1. state'[Main] = "RUNNING"
    BY <1>2, <1>8, Distinct DEF Common, Lifecycle
  <2>2. ASSUME NEW w \in Workers
        PROVE  /\ state'[w] # "RUNNING"
               /\ state'[w] = "NEW" => next'[w] = w /\ rsp'[w] = Fresh(w)
    <3>1. w \in Threads /\ w \in Nodes
      BY Distinct
    <3>2. CASE w = t
      BY <1>8, <3>2
    <3>3. CASE w # t
      BY <1>4, <1>6, <1>8, <3>1, <3>3 DEF Common, Lifecycle
    <3> QED BY <3>2, <3>3
  <2> QED BY <2>1, <2>2 DEF Lifecycle
<1>11. Started' = Started /\ t \notin Started
  BY <1>3, <1>8 DEF Started
<1>12. cpu.on = Main /\ Started \in SUBSET Threads /\ Main \in Started
  BY <1>1, KmainAt, StartedFacts DEF Common
<1>13. OffCpu'
  <2>1. cpu'.on = Main
    BY <1>1, <1>12
  <2> SUFFICES ASSUME NEW x \in Started \ {Main}
               PROVE  Resting(rsp'[x], x) \/ (x # Main /\ rsp'[x] = Fresh(x))
    BY <1>11, <2>1 DEF OffCpu, Resting, Waiting, Fresh, Frame
  <2>2. x # t /\ x \in Threads
    BY <1>11, <1>12
  <2> QED BY <1>6, <1>12, <2>2 DEF Common, OffCpu
<1>14. PICK S : LiveIn(S, <<>>) /\ S = Started \cup {Queue} /\ Chained(S, prev)
  BY <1>1, KmainAt
<1>15. Chained(S, prev)'
  <2>1. \A x \in S : x \in Nodes \ {t}
    BY <1>2, <1>11, <1>12, <1>14, Distinct
  <2>2. IsRing(S, next', prev')
    BY <1>4, <1>5, <1>14, <2>1, RingSame DEF Chained
  <2>3. \A w \in S \cap Workers : Ending(w)' => Ending(w)
    BY <1>8, <2>1, Distinct DEF Ending
  <2>4. Queue \in S
    BY <1>14
  <2> QED BY <1>4, <1>14, <2>1, <2>2, <2>3, <2>4 DEF Chained
<1>16. Linked(S, <<>>)'
  BY <1>11, <1>14, <1>15 DEF Linked, Whole
<1>17. Pend' = <<>>
  BY <1>1, <1>12, <1>14 DEF LiveIn, Pend
<1>18. OnCpu(S)'
  <2>1. Depth' = 1 /\ cpu'.on = Main /\ cpu'.frames[1].pc = "body" /\ ~cpu'.frames[1].isr
    BY <1>1, KmainAt DEF Depth
  <2> QED BY <1>1, <1>12, <1>14, <2>1, KmainAt, KmainOnCpu
<1>19. Live'
  BY <1>16, <1>17, <1>18 DEF Live, LiveIn
<1> QED BY <1>9, <1>10, <1>13, <1>19 DEF Inv, Common

\* thread_start of a thread that is not linked begins list_add_tail; by the
\* fence no other that is to end is linked.
LEMMA StartKeeps ==
  ASSUME Fenced, Common, Live \/ Dying, NEW t \in Workers, thread_start(t)
  PROVE  Inv'
<1> DEFINE adds == list_add_tail(t, Queue)  f == [Top EXCEPT !.stores = adds]
           again == state[t] = "TERMINATED"
<1>1. /\ KmainReady /\ state[t] # "UNUSED" /\ state' = [state EXCEPT ![t] = "READY"]
      /\ UNCHANGED <<slice, current_thread, intr, panic>>
      /\ \A u \in Workers \ {t} : ~Ending(u)
  BY DEF thread_start, Fenced, Ending
<1>2. /\ rsp' = IF again THEN [rsp EXCEPT ![t] = Fresh(t)] ELSE rsp
      /\ next' = IF again THEN [next EXCEPT ![t] = t] ELSE next
      /\ prev' = IF again THEN [prev EXCEPT ![t] = t] ELSE prev
      /\ cpu' = IF again \/ list_empty(t) THEN ReplaceTop(f) ELSE cpu
  BY DEF thread_start
<1>3. /\ t \in Threads /\ t # Main /\ t # Queue /\ t \in Nodes /\ Queue \in Nodes
      /\ next \in Links /\ prev \in Links /\ state \in [Threads -> States]
      /\ rsp \in [Threads -> Contexts] /\ Fresh(t) \in Contexts
      /\ cpu \in Contexts /\ Top \in Frames /\ panic = FALSE
  BY Distinct, FrameFacts, TopFacts DEF Common, Typed
<1>4. /\ Depth = 1 /\ cpu.on = Main /\ current_thread = Main /\ intr
      /\ Top.pc = "body" /\ ~Top.isr
      /\ Started \in SUBSET Threads /\ Main \in Started
  BY <1>1, KmainAt, StartedFacts DEF Common
<1>5. PICK S : LiveIn(S, <<>>) /\ S = Started \cup {Queue} /\ Chained(S, prev)
  BY <1>1, KmainAt
<1>6. CASE state[t] = "READY"
  <2>1. t \in S /\ Main \in S
    BY <1>3, <1>4, <1>5, <1>6 DEF Started
  <2>2. next[t] # t
    <3> SUFFICES ASSUME next[t] = t PROVE {t} = S
      BY <1>3, <2>1
    <3>1. {t} \in SUBSET S /\ {t} # {} /\ \A x \in {t} : next[x] \in {t}
      BY <2>1
    <3> QED BY <1>5, <3>1 DEF Chained, IsRing
  <2>3. cpu' = cpu /\ next' = next /\ prev' = prev /\ rsp' = rsp
    BY <1>2, <1>6, <2>2 DEF list_empty
  <2>4. state' = state
    BY <1>1, <1>3, <1>6
  <2> QED BY <1>1, <2>3, <2>4, StutterKeeps DEF Inv, vars
<1>7. CASE state[t] # "READY"
  <2>1. state[t] \in {"NEW", "TERMINATED"} /\ t \notin Started
    BY <1>1, <1>3, <1>7 DEF Common, Lifecycle, States, Started
  <2>2. cpu' = ReplaceTop(f) /\ rsp'[t] = Fresh(t)
    BY <1>2, <1>3, <2>1 DEF list_empty, Common, Lifecycle
  <2>3. next' \in Links /\ \A x \in Nodes \ {t} : next'[x] = next[x]
    BY <1>2, <1>3 DEF Links
  <2>4. prev' \in Links /\ \A x \in Nodes \ {t} : prev'[x] = prev[x]
    BY <1>2, <1>3 DEF Links
  <2>5. rsp' \in [Threads -> Contexts] /\ \A x \in Threads \ {t} : rsp'[x] = rsp[x]
    BY <1>2, <1>3
  <2>6. /\ state' \in [Threads -> States] /\ state'[t] = "READY"
        /\ \A x \in Threads \ {t} : state'[x] = state[x]
    BY <1>1, <1>3 DEF States
  <2>7. PICK pend : pend = adds
    OBVIOUS
  <2>8. pend \in Seq(Stores)
    <3> DEFINE N == Nodes \cup {NULL}
    <3>1. \A n, v \in N : SetNext(n, v) \in Stores /\ SetPrev(n, v) \in Stores
      BY DEF SetNext, SetPrev, Stores
    <3>2. prev[Queue] \in N /\ t \in N /\ Queue \in N
      BY <1>3 DEF Links
    <3> HIDE DEF N
    <3>3. \A a, b, c, d \in Stores : <<a, b, c, d>> \in Seq(Stores)
      OBVIOUS
    <3> QED BY <2>7, <3>1, <3>2, <3>3 DEF list_add_tail
  <2>9. f = [Top EXCEPT !.stores = pend]
    BY <2>7
  <2> HIDE DEF f, adds
  <2>10. f \in Frames /\ f.pc = "body" /\ ~f.isr /\ f.stores = pend
    BY <1>3, <1>4, <2>8, <2>9 DEF Frames
  <2>11. cpu' \in Contexts /\ cpu'.on = Main /\ Depth' = 1 /\ cpu'.frames[1] = f
    BY <1>3, <1>4, <2>2, <2>10, Replaced DEF Depth, ReplaceTop
  <2>12. Typed'
    BY <1>1, <2>3, <2>4, <2>5, <2>6, <2>11 DEF Common, Typed
  <2>13. Lifecycle'
    <3>1. state'[Main] = "RUNNING"
      BY <1>3, <2>6, Distinct DEF Common, Lifecycle
    <3>2. ASSUME NEW w \in Workers
          PROVE  /\ state'[w] # "RUNNING"
                 /\ state'[w] = "NEW" => next'[w] = w /\ rsp'[w] = Fresh(w)
      <4>1. w \in Threads /\ w \in Nodes
        BY Distinct
      <4>2. CASE w = t
        BY <2>6, <4>2
      <4>3. CASE w # t
        BY <2>3, <2>5, <2>6, <4>1, <4>3 DEF Common, Lifecycle
      <4> QED BY <4>2, <4>3
    <3> QED BY <3>1, <3>2 DEF Lifecycle
  <2>14. Started' = Started \cup {t}
    BY <1>3, <2>6 DEF Started
  <2>15. OffCpu'
    <3> SUFFICES ASSUME NEW x \in Started' \ {Main}
                 PROVE  Resting(rsp'[x], x) \/ (x # Main /\ rsp'[x] = Fresh(x))
      BY <2>11 DEF OffCpu, Resting, Waiting, Fresh, Frame
    <3>1. CASE x = t
      BY <1>3, <2>2, <3>1
    <3>2. CASE x # t
      BY <1>4, <2>5, <2>14, <3>2 DEF Common, OffCpu
    <3> QED BY <3>1, <3>2
  <2>16. \A x \in S : x \in Nodes \ {t}
    BY <1>3, <1>4, <1>5, <2>1, Distinct
  <2>17. PICK back \in Links : back = prev'
    BY <2>4
  <2>18. \A w \in Workers \ {t} : ~Ending(w)'
    BY <1>1, <2>6, Distinct DEF Ending
  <2>19. Chained(S, back)'
    <3>1. IsRing(S, next', back)
      BY <1>5, <2>3, <2>4, <2>16, <2>17, RingSame DEF Chained
    <3>2. Main \in S /\ Queue \in S
      BY <1>4, <1>5
    <3>3. next'[Queue] = Main
      BY <1>5, <2>3, <2>16, <3>2 DEF Chained
    <3>4. t \notin S
      BY <2>16
    <3> QED BY <2>18, <3>1, <3>2, <3>3, <3>4 DEF Chained
  <2>20. prev'[Queue] = prev[Queue]
    BY <1>3, <2>4
  <2>21. Adding(t, back, pend)'
    BY <2>7, <2>17, <2>20 DEF adds, Adding, list_add_tail
  <2>22. AddingTo(S, pend)'
    <3>1. S = (Started' \ {t}) \cup {Queue}
      BY <1>5, <2>1, <2>14
    <3> QED BY <2>2, <2>6, <2>18, <2>19, <2>21, <3>1 DEF AddingTo
  <2>23. Pend' = pend
    BY <2>10, <2>11 DEF Pend
  <2>24. OnCpu(S)'
    BY <1>1, <1>4, <1>5, <2>10, <2>11, KmainOnCpu
  <2>25. Live'
    BY <2>22, <2>23, <2>24 DEF Live, LiveIn, Linked
  <2> QED BY <2>12, <2>13, <2>15, <2>25 DEF Inv, Common
<1> QED BY <1>6, <1>7

LEMMA InitKeeps == Init => Inv
<1> SUFFICES ASSUME Init PROVE Inv
  OBVIOUS
<1> DEFINE S == {Main, Queue}
<1>1. /\ Main \in Threads /\ Main \in Nodes /\ Queue \in Nodes /\ Main # Queue
      /\ Queue \notin Threads /\ Main \notin Workers
  BY Distinct
<1>2. /\ next = [n \in Nodes |-> IF n = Queue THEN Main ELSE IF n = Main THEN Queue ELSE NULL]
      /\ prev = next
      /\ state = [t \in Threads |-> IF t = Main THEN "RUNNING" ELSE "UNUSED"]
      /\ slice = [t \in Threads |-> DEFAULT_TIME_SLICE]
      /\ rsp = [t \in Threads |-> Fresh(t)]
      /\ current_thread = Main /\ cpu = Fresh(Main) /\ intr = TRUE /\ panic = FALSE
  BY DEF Init
<1>3. /\ cpu \in Contexts /\ cpu.on = Main /\ Depth = 1
      /\ Top = cpu.frames[1] /\ Top.pc = "body" /\ ~Top.isr /\ Top.stores = <<>>
  <2>1. Depth = 1 /\ cpu.frames[1] = Frame("body", FALSE) /\ cpu \in Contexts /\ cpu.on = Main
    BY <1>1, <1>2, FrameFacts DEF Depth
  <2>2. Top = cpu.frames[1]
    BY <2>1 DEF Top
  <2> QED BY <2>1, <2>2, FrameFacts DEF PCs
<1>4. next \in Links /\ prev \in Links /\ next[Queue] = Main /\ next[Main] = Queue
  BY <1>1, <1>2 DEF Links
<1>5. state \in [Threads -> States] /\ \A t \in Threads : state[t] = IF t = Main THEN "RUNNING" ELSE "UNUSED"
  BY <1>2 DEF States
<1>6. Typed
  <2>1. slice \in [Threads -> Nat]
    BY <1>2, SchedAssumption
  <2>2. rsp \in [Threads -> Contexts]
    BY <1>2, FrameFacts
  <2> QED BY <1>1, <1>2, <1>3, <1>4, <1>5, <2>1, <2>2 DEF Typed
<1>7. Lifecycle
  BY <1>1, <1>5, Distinct DEF Lifecycle
<1>8. Started = {Main}
  BY <1>1, <1>5 DEF Started
<1>9. Calm
  BY <1>1, <1>5, Distinct DEF Calm, Ending
<1>10. OffCpu
  BY <1>3, <1>8 DEF OffCpu
<1>11. Chained(S, prev)
  <2>1. IsRing(S, next, prev)
    <3>1. \A n \in S : /\ next[n] \in S /\ prev[next[n]] = n
                       /\ prev[n] \in S /\ next[prev[n]] = n
      BY <1>2, <1>4
    <3>2. ASSUME NEW part \in SUBSET S, part # {}, \A n \in part : next[n] \in part
          PROVE  part = S
      BY <1>4, <3>2
    <3> QED BY <3>1, <3>2 DEF IsRing
  <2>2. S \cap Workers = {}
    BY <1>1, Distinct
  <2> QED BY <1>1, <1>4, <2>1, <2>2 DEF Chained
<1>12. Pend = <<>>
  BY <1>3 DEF Pend
<1>13. OnCpu(S)
  <2>1. Entry /\ Above(S) /\ Nesting /\ Current
    BY <1>2, <1>3, <1>9 DEF Entry, Above, Nesting, Current
  <2> QED BY <1>3, <2>1 DEF OnCpu
<1>14. Live
  <2>1. Linked(S, <<>>)
    BY <1>8, <1>11 DEF Linked, Whole
  <2> QED BY <1>12, <1>13, <2>1 DEF Live, LiveIn
<1> QED BY <1>6, <1>7, <1>10, <1>14 DEF Inv, Common

\* By the fence a thread that ends takes no tick, and what only one that goes
\* on may do it does not.
LEMMA NextKeeps ==
  ASSUME Fenced, Inv, [Next]_vars
  PROVE  Inv'
<1>1. Common /\ (Live \/ Dying)
  BY DEF Inv
<1>2. CASE UNCHANGED vars
  BY <1>2, StutterKeeps
<1>3. CASE Kmain
  BY <1>1, <1>3, CreateKeeps, StartKeeps DEF Kmain
<1>4. CASE Live /\ ~Kmain /\ Next
  <2>1. PICK S, pend : LiveIn(S, pend)
    BY <1>4 DEF Live
  <2>2. CASE Store
    BY <1>1, <2>1, <2>2, AddStoreKeeps
  <2>3. CASE schedule
    BY <1>1, <2>1, <2>3, ScheduleKeeps
  <2>4. CASE pick
    BY <1>1, <2>1, <2>4, PickKeeps
  <2>5. CASE cpu_switch_context
    BY <1>1, <2>1, <2>5, SwitchKeeps
  <2>6. CASE return_from_schedule
    BY <1>1, <2>1, <2>6, ReturnStepKeeps
  <2>7. CASE sched_on_tick
    BY <1>1, <2>1, <2>7, TickKeeps
  <2>8. CASE sleep_ms
    BY <1>1, <2>1, <2>8, SleepKeeps
  <2>9. CASE thread_terminate
    BY <1>1, <2>1, <2>9, TerminateKeeps
  <2>10. ~terminate_calls_schedule
    <3>1. Top.pc # "terminated"
      <4>1. Depth \in Nat /\ Depth >= 1
        BY <1>1, TopFacts DEF Common, Typed
      <4>2. Depth = 1 \/ Depth >= 2
        BY <4>1
      <4> QED BY <1>1, <2>1, <4>2, LiveTop
    <3> QED BY <3>1 DEF terminate_calls_schedule, WorkerAt, At
  <2> QED BY <1>4, <2>2, <2>3, <2>4, <2>5, <2>6, <2>7, <2>8, <2>9, <2>10
       DEF Next, Kernel, Worker
<1>5. CASE Dying /\ ~Kmain /\ Next
  <2>0. PICK t \in Workers : \E pend : DyingAs(t, pend)
    BY <1>5 DEF Dying
  <2>1. PICK pend : DyingAs(t, pend)
    BY <2>0
  <2>2. Top.pc \in {"terminated", "schedule", "pick", "switch"}
    BY <2>1 DEF DyingAs, Leaving
  <2>3. CASE Store
    BY <1>1, <2>1, <2>3, DyingStoreKeeps
  <2>4. CASE schedule
    BY <1>1, <2>1, <2>4, DyingScheduleKeeps
  <2>5. CASE pick
    BY <1>1, <2>1, <2>5, DyingPickKeeps
  <2>6. CASE cpu_switch_context
    BY <1>1, <2>1, <2>6, DyingSwitchKeeps
  <2>7. CASE terminate_calls_schedule
    BY <1>1, <2>1, <2>7, LastScheduleKeeps
  <2>8. ~return_from_schedule /\ ~sleep_ms /\ ~thread_terminate
    BY <2>2 DEF return_from_schedule, sleep_ms, thread_terminate, WorkerAt, At
  <2>9. ~sched_on_tick
    BY <2>1 DEF sched_on_tick, Fenced, DyingAs
  <2> QED BY <1>5, <2>3, <2>4, <2>5, <2>6, <2>7, <2>8, <2>9 DEF Next, Kernel, Worker
<1> QED BY <1>1, <1>2, <1>3, <1>4, <1>5

LEMMA Invariance == Fenced /\ Spec => []Inv
<1>1. Fenced /\ Inv /\ [Next]_vars => Inv'
  BY NextKeeps
<1>2. Fenced => []Fenced
  <2>1. Fenced => Fenced'
    BY DEF Fenced
  <2> QED BY <2>1, PTL
<1> QED BY InitKeeps, <1>1, <1>2, PTL DEF Spec

(***************************************************************************)
(* The properties                                                          *)
(***************************************************************************)
LEMMA InvTypeOK == Inv => TypeOK
<1> SUFFICES ASSUME Inv PROVE TypeOK
  OBVIOUS
<1>1. Typed
  BY DEF Inv, Common
<1>2. \A f \in Frames : FrameOK(f)
  BY DEF Frames, FrameOK, PCs
<1>3. \A c \in Contexts : ContextOK(c)
  BY <1>2 DEF Contexts, ContextOK
<1>4. Depth \in 1 .. 3
  <2>1. Depth \in Nat /\ Depth >= 1
    BY <1>1, TopFacts DEF Typed
  <2>2. Depth <= 3
    <3>1. CASE Live
      BY <2>1, <3>1 DEF Live, LiveIn, OnCpu, Nesting
    <3>2. CASE Dying
      BY <2>1, <3>2 DEF Dying, DyingAs, Leaving
    <3> QED BY <3>1, <3>2 DEF Inv
  <2> QED BY <2>1, <2>2
<1> QED BY <1>1, <1>3, <1>4 DEF Typed, TypeOK, Links

LEMMA InvNoFault == Inv => NoFault
<1> SUFFICES ASSUME Inv PROVE NoFault
  OBVIOUS
<1>1. Common
  BY DEF Inv
<1>2. Depth = 1 \/ Depth >= 2
  <2>1. Depth \in Nat /\ Depth >= 1
    BY <1>1, TopFacts DEF Common, Typed
  <2> QED BY <2>1
<1>3. CASE Live
  BY <1>1, <1>2, <1>3, LiveTop DEF NoFault, Live, Common, Typed
<1>4. CASE Dying
  BY <1>1, <1>4 DEF NoFault, Dying, DyingAs, Leaving, Common, Typed
<1> QED BY <1>3, <1>4 DEF Inv

\* Stores left to do are on a stack.
LEMMA InvQueueExact == Inv => QueueExact
<1> SUFFICES ASSUME Inv, Quiet
             PROVE  \E ending \in SUBSET {cpu.on} :
                      IsRing({Queue} \cup Started \cup ending, next, prev)
  BY DEF QueueExact
<1>1. Common
  BY DEF Inv
<1>2. Depth \in 1 .. Depth /\ DOMAIN cpu.frames = 1 .. Depth /\ 1 \in 1 .. Depth
  BY <1>1, TopFacts DEF Common, Typed, Contexts, Depth
<1>3. Top.stores = <<>> /\ cpu.frames[1].stores = <<>>
  BY <1>2 DEF Quiet, Pending, Top
<1>4. CASE Live
  <2>1. PICK S, pend : LiveIn(S, pend)
    BY <1>4 DEF Live
  <2>2. pend = <<>>
    <3>1. CASE cpu.on = Main
      BY <1>3, <2>1, <3>1 DEF LiveIn, Pend
    <3>2. CASE cpu.on # Main
      <4>1. Main \in Started /\ Main \in Threads \ {cpu.on}
        BY <1>1, <3>2, StartedFacts, Distinct DEF Common
      <4>2. rsp[Main] \in Contexts /\ Len(rsp[Main].frames) >= 2
        BY <1>1, <4>1 DEF Common, Typed, OffCpu, Resting
      <4>3. 1 \in DOMAIN rsp[Main].frames
        BY <4>2 DEF Contexts
      <4>4. rsp[Main].frames[1].stores = <<>>
        BY <4>1, <4>3 DEF Quiet, Pending
      <4> QED BY <2>1, <3>2, <4>4 DEF LiveIn, Pend
    <3> QED BY <3>1, <3>2
  <2>3. ~AddingTo(S, pend)
    <3>1. \A a, b, c, d : /\ <<>> # <<a, b, c, d>> /\ <<>> # <<b, c, d>>
                          /\ <<>> # <<c, d>> /\ <<>> # <<d>>
      OBVIOUS
    <3> QED BY <2>2, <3>1 DEF AddingTo, Adding
  <2>4. IsRing(Started \cup {Queue}, next, prev)
    BY <2>1, <2>3 DEF LiveIn, Linked, Whole, Chained
  <2>5. {Queue} \cup Started \cup {} = Started \cup {Queue} /\ {} \in SUBSET {cpu.on}
    OBVIOUS
  <2> QED BY <2>4, <2>5
<1>5. CASE Dying
  <2>0. PICK t \in Workers : \E pend : DyingAs(t, pend)
    BY <1>5 DEF Dying
  <2>1. PICK pend : DyingAs(t, pend)
    BY <2>0
  <2>2. pend = <<>> /\ cpu.on = t
    BY <1>3, <2>1 DEF DyingAs
  <2>3. Deleting(t, pend) => Before(t) \/ After
    <3>1. \A a, b, c : <<>> # <<a, b, c>>
      OBVIOUS
    <3> QED BY <2>2, <3>1 DEF Deleting
  <2>4. Before(t) \/ After
    BY <2>1, <2>3 DEF DyingAs, Leaving
  <2>5. /\ {Queue} \cup Started \cup {t} = Started \cup {Queue, t} /\ {t} \in SUBSET {cpu.on}
        /\ {Queue} \cup Started \cup {} = Started \cup {Queue} /\ {} \in SUBSET {cpu.on}
    BY <2>2
  <2> QED BY <2>4, <2>5 DEF Before, After, Chained
<1> QED BY <1>4, <1>5 DEF Inv

LEMMA InvOwnStacks == Inv => OwnStacks
<1> SUFFICES ASSUME Inv PROVE OwnStacks
  OBVIOUS
<1>1. Common
  BY DEF Inv
<1>2. cpu.on = IF Top.pc = "switch" THEN Top.old ELSE current_thread
  <2>1. CASE Live
    <3>1. PICK S, pend : LiveIn(S, pend)
      BY <2>1 DEF Live
    <3>2. Top.pc = "switch" => Top.old = cpu.on
      BY <1>1, <3>1, LiveTop DEF Switching
    <3> QED BY <3>1, <3>2 DEF LiveIn, OnCpu, Current
  <2>2. CASE Dying
    BY <2>2 DEF Dying, DyingAs, Leaving
  <2> QED BY <2>1, <2>2 DEF Inv
<1>3. ASSUME NEW t \in Started \ {cpu.on}
      PROVE  /\ rsp[t].on = t
             /\ rsp[t] = Fresh(t) \/ rsp[t].frames[Len(rsp[t].frames)].pc = "return"
  <2>1. t \in Threads
    BY DEF Started
  <2>2. CASE Resting(rsp[t], t)
    <3>1. rsp[t] \in Contexts
      BY <1>1, <2>1 DEF Common, Typed
    <3>2. Len(rsp[t].frames) \in 2 .. Len(rsp[t].frames) /\ rsp[t].on = t
      BY <2>2, <3>1 DEF Resting, Contexts
    <3> QED BY <2>2, <3>2 DEF Resting, Waiting
  <2>3. CASE rsp[t] = Fresh(t)
    BY <2>1, <2>3, FrameFacts
  <2> QED BY <1>1, <2>2, <2>3 DEF Common, OffCpu
<1> QED BY <1>2, <1>3 DEF OwnStacks

LEMMA InvKmainInterruptible == Inv => KmainInterruptible
BY KmainAt DEF Inv, KmainInterruptible

\* Whatever the workers do, the fields have their types and no stack grows
\* beyond the entry function, one interrupt kept waiting and one in progress:
\* ticks do not pile up frames on a thread that is switched out again and again.
THEOREM SchedTypeOK == Fenced /\ Spec => []TypeOK
BY Invariance, InvTypeOK, PTL

\* No schedule(), list operation or return of a thread's entry function leads
\* the kernel through a null link or off the end of thread_trampoline.
THEOREM SchedNoFault == Fenced /\ Spec => []NoFault
BY Invariance, InvNoFault, PTL

\* ready_queue is one ring of the threads that were started and have not ended
\* and the thread that is ending, if one is, whenever no list_add_tail or
\* list_del is half done on some stack.
THEOREM SchedQueueExact == Fenced /\ Spec => []QueueExact
BY Invariance, InvQueueExact, PTL

\* kmain is back to its own code only with interrupts enabled, though a thread
\* that ends hands its interrupt flag to the thread that follows it.
THEOREM SchedKmainInterruptible == Fenced /\ Spec => []KmainInterruptible
BY Invariance, InvKmainInterruptible, PTL

(***************************************************************************)
(* Sched implements RoundRobin. The links of ready_queue, store by store,  *)
(* are at every moment one sequence of threads, and a step of the code     *)
(* that changes it or the stack in use is a step of the abstract           *)
(* scheduler. First, the ring as a sequence.                               *)
(***************************************************************************)

\* S is a ring, and r the threads met on it from the head of ready_queue.
Listed(r, S, links) ==
  /\ r \in Seq(Threads) /\ Len(r) >= 1
  /\ \A i, j \in 1 .. Len(r) : r[i] = r[j] => i = j
  /\ S = {Queue} \cup {r[i] : i \in 1 .. Len(r)}
  /\ links[Queue] = r[1]
  /\ \A i \in 1 .. Len(r) : links[r[i]] = IF i = Len(r) THEN Queue ELSE r[i + 1]
  /\ \E back : IsRing(S, links, back)

\* A sequence of different threads is shorter than Nodes, which has the head too.
LEMMA Fits ==
  ASSUME NEW r \in Seq(Threads), \A i, j \in 1 .. Len(r) : r[i] = r[j] => i = j
  PROVE  Cardinality(Nodes) \in Nat /\ Len(r) + 1 <= Cardinality(Nodes)
<1>1. IsFiniteSet(Threads)
  BY SchedAssumption, FS_AddElement DEF Threads
<1>2. Cardinality(Nodes) = Cardinality(Threads) + 1
  <2>1. Nodes = Threads \cup {Queue} /\ Queue \notin Threads
    BY Distinct
  <2>2. Cardinality(Threads \cup {Queue}) = Cardinality(Threads) + 1
    BY <1>1, <2>1, FS_AddElement
  <2> QED BY <2>1, <2>2
<1>3. Cardinality(Threads) \in Nat
  BY <1>1, FS_CardinalityType
<1>4. IsFiniteSet(1 .. Len(r)) /\ Cardinality(1 .. Len(r)) = Len(r)
  <2>1. 1 \in Int /\ Len(r) \in Int /\ Len(r) >= 0
    OBVIOUS
  <2>2. /\ IsFiniteSet(1 .. Len(r))
        /\ Cardinality(1 .. Len(r)) = IF 1 > Len(r) THEN 0 ELSE Len(r) - 1 + 1
    BY <2>1, FS_Interval
  <2> QED BY <2>1, <2>2
<1>5. Len(r) <= Cardinality(Threads)
  <2>1. SUFFICES ASSUME Cardinality(Threads) < Len(r) PROVE FALSE
    BY <1>3
  <2>2. r \in [1 .. Len(r) -> Threads]
    OBVIOUS
  <2>3. \E i, j \in 1 .. Len(r) : i # j /\ r[i] = r[j]
    BY <1>1, <1>4, <2>1, <2>2, FS_PigeonHole
  <2> QED BY <2>3
<1> QED BY <1>2, <1>3, <1>5

\* Following the links from the head meets the threads of the ring in order.
LEMMA RingIs ==
  ASSUME NEW r, NEW S, NEW links, Listed(r, S, links)
  PROVE  RingOf(links) = r
<1> DEFINE last == Cardinality(Nodes)  k == Len(r)
           hop[i \in 1 .. last] ==
             IF i = 1 THEN links[Queue]
             ELSE LET n == hop[i - 1] IN IF n \in {Queue, NULL} THEN n ELSE links[n]
           back == {i \in 1 .. last : hop[i] = Queue}
           lap == CHOOSE i \in back : \A j \in back : i <= j
<1>0. RingOf(links) = IF back = {} THEN <<>> ELSE [i \in 1 .. lap - 1 |-> hop[i]]
  BY DEF RingOf
<1>1. /\ r \in Seq(Threads) /\ k \in Nat /\ k >= 1 /\ last \in Nat /\ k + 1 <= last
      /\ \A i \in 1 .. k : r[i] \in Threads /\ r[i] \notin {Queue, NULL}
  <2>1. r \in Seq(Threads) /\ Len(r) >= 1 /\ \A i, j \in 1 .. Len(r) : r[i] = r[j] => i = j
    BY DEF Listed
  <2>2. last \in Nat /\ k + 1 <= last
    BY <2>1, Fits
  <2>3. \A i \in 1 .. k : r[i] \in Threads
    BY <2>1
  <2>4. Queue \notin Threads /\ NULL \notin Threads
    <3>1. NULL \notin Nodes /\ Nodes = Threads \cup {Queue} /\ Queue \notin Threads
      BY Distinct
    <3> QED BY <3>1
  <2> QED BY <2>1, <2>2, <2>3, <2>4
<1>2. \A i \in 1 .. last : hop[i] = IF i = 1 THEN links[Queue]
        ELSE LET n == hop[i - 1] IN IF n \in {Queue, NULL} THEN n ELSE links[n]
  <2> DEFINE f == [i \in 1 .. last |-> IF i <= k THEN r[i] ELSE Queue]
             Hops(h) == [i \in 1 .. last |-> IF i = 1 THEN links[Queue]
               ELSE LET n == h[i - 1] IN IF n \in {Queue, NULL} THEN n ELSE links[n]]
  <2>1. ASSUME NEW i \in 1 .. last PROVE f[i] = Hops(f)[i]
    <3> HIDE DEF last
    <3>1. CASE i = 1
      BY <1>1, <3>1 DEF Listed
    <3>2. CASE i # 1
      <4>1. i - 1 \in 1 .. last /\ i <= last
        BY <1>1, <3>2
      <4>2. CASE i - 1 <= k
        <5>1. i - 1 \in 1 .. k /\ r[i - 1] \notin {Queue, NULL}
          BY <1>1, <4>1, <4>2
        <5>2. links[r[i - 1]] = IF i - 1 = k THEN Queue ELSE r[i - 1 + 1]
          BY <5>1 DEF Listed
        <5> QED BY <1>1, <3>2, <4>1, <5>1, <5>2
      <4>3. CASE i - 1 > k
        BY <1>1, <3>2, <4>1, <4>3
      <4> QED BY <1>1, <4>1, <4>2, <4>3
    <3> QED BY <3>1, <3>2
  <2>2. f = Hops(f)
    BY <2>1, Zenon
  <2>3. hop = CHOOSE h : h = Hops(h)
    OBVIOUS
  <2>4. hop = Hops(hop)
    BY <2>2, <2>3, Zenon
  <2> QED BY <2>4, Zenon
<1>3. PICK b : IsRing(S, links, b)
  BY DEF Listed
<1> HIDE DEF hop, last
<1>4. \A i \in 1 .. k : hop[i] = r[i]
  <2> DEFINE met == {Queue} \cup {r[i] : i \in {j \in 1 .. k : hop[j] = r[j]}}
  <2>1. met \in SUBSET S /\ met # {}
    BY DEF Listed
  <2>2. ASSUME NEW n \in met PROVE links[n] \in met
    <3>1. CASE n = Queue
      <4>1. hop[1] = r[1] /\ links[n] = r[1]
        BY <1>1, <1>2, <3>1 DEF Listed
      <4> QED BY <1>1, <4>1
    <3>2. CASE n # Queue
      <4>1. PICK i \in 1 .. k : hop[i] = r[i] /\ n = r[i]
        BY <3>2
      <4>2. CASE i = k
        BY <4>1, <4>2 DEF Listed
      <4>3. CASE i # k
        <5>1. i + 1 \in 1 .. k /\ i + 1 \in 1 .. last /\ i + 1 # 1 /\ i + 1 - 1 = i
          BY <1>1, <4>3
        <5>2. links[n] = r[i + 1] /\ r[i] \notin {Queue, NULL}
          BY <1>1, <4>1, <4>3 DEF Listed
        <5>3. hop[i + 1] = r[i + 1]
          BY <1>2, <4>1, <5>1, <5>2
        <5> QED BY <5>1, <5>2, <5>3
      <4> QED BY <4>2, <4>3
    <3> QED BY <3>1, <3>2
  <2>3. met = S
    BY <1>3, <2>1, <2>2 DEF IsRing
  <2>4. ASSUME NEW i \in 1 .. k PROVE hop[i] = r[i]
    <3>1. r[i] \in met /\ r[i] # Queue
      BY <1>1, <2>3 DEF Listed
    <3>2. PICK j \in 1 .. k : hop[j] = r[j] /\ r[i] = r[j]
      BY <3>1
    <3> QED BY <3>2 DEF Listed
  <2> QED BY <2>4
<1>5. hop[k + 1] = Queue
  <2>1. hop[k] = r[k] /\ r[k] \notin {Queue, NULL} /\ links[r[k]] = Queue
    BY <1>1, <1>4 DEF Listed
  <2>2. k + 1 \in 1 .. last /\ k + 1 # 1 /\ k + 1 - 1 = k
    BY <1>1
  <2> QED BY <1>2, <2>1, <2>2
<1>6. k + 1 \in back /\ \A j \in back : k + 1 <= j
  <2>1. k + 1 \in back
    BY <1>1, <1>5
  <2>2. ASSUME NEW j \in back, j < k + 1 PROVE FALSE
    <3>1. j \in 1 .. k
      BY <1>1, <2>2
    <3> QED BY <1>1, <1>4, <2>2, <3>1
  <2> QED BY <1>1, <2>1, <2>2
<1>7. lap = k + 1
  <2>1. lap \in back /\ \A j \in back : lap <= j
    BY <1>6
  <2>2. lap \in Nat
    BY <1>1, <2>1
  <2> HIDE DEF lap
  <2> QED BY <1>1, <1>6, <2>1, <2>2
<1>8. RingOf(links) = [i \in 1 .. k |-> hop[i]]
  <2>1. back # {} /\ lap - 1 = k
    BY <1>1, <1>6, <1>7
  <2> HIDE DEF back, lap
  <2> QED BY <1>0, <2>1
<1> HIDE DEF back
<1>9. [i \in 1 .. k |-> hop[i]] = r
  BY <1>1, <1>4
<1> QED BY <1>8, <1>9

\* Only what is linked on the ring decides what is on it, and in which order.
LEMMA ListedKept ==
  ASSUME NEW r, NEW S, NEW f, NEW g, Listed(r, S, f), \A x \in S : g[x] = f[x]
  PROVE  Listed(r, S, g)
<1>1. \A i \in 1 .. Len(r) : r[i] \in S
  BY DEF Listed
<1>2. Queue \in S
  BY DEF Listed
<1>3. PICK back : IsRing(S, f, back)
  BY DEF Listed
<1>4. IsRing(S, g, back)
  BY <1>3, RingSame
<1> QED BY <1>1, <1>2, <1>4 DEF Listed

\* No node is on two rings.
LEMMA SameRing ==
  ASSUME NEW S, NEW T, NEW f, NEW b, NEW c, IsRing(S, f, b), IsRing(T, f, c),
         NEW x \in S \cap T
  PROVE  S = T
<1> DEFINE both == S \cap T
<1>1. both # {} /\ \A n \in both : f[n] \in both
  BY DEF IsRing
<1>2. both = S
  BY <1>1 DEF IsRing
<1>3. both = T
  BY <1>1 DEF IsRing
<1> QED BY <1>2, <1>3

\* The last store of list_add_tail appends the thread.
LEMMA Appended ==
  ASSUME NEW r, NEW S, NEW f, Listed(r, S, f), NEW n \in Threads \ S, f[n] = Queue,
         NEW b, IsRing(S \cup {n}, [f EXCEPT ![r[Len(r)]] = n], b),
         r[Len(r)] \in DOMAIN f, n # r[Len(r)]
  PROVE  Listed(Append(r, n), S \cup {n}, [f EXCEPT ![r[Len(r)]] = n])
<1> DEFINE k == Len(r)  q == Append(r, n)  g == [f EXCEPT ![r[k]] = n]
<1>1. r \in Seq(Threads) /\ k \in Nat /\ k >= 1
  BY DEF Listed
<1>2. /\ q \in Seq(Threads) /\ Len(q) = k + 1 /\ q[k + 1] = n
      /\ \A i \in 1 .. k : q[i] = r[i]
  BY <1>1
<1>3. \A i \in 1 .. k : r[i] \in S /\ r[i] # n /\ r[i] # Queue
  BY <1>1, Distinct DEF Listed
<1>4. g[r[k]] = n /\ \A x \in S \cup {n} : x # r[k] => g[x] = f[x]
  OBVIOUS
<1> HIDE DEF q, g
<1>5. ASSUME NEW i \in 1 .. k + 1, NEW j \in 1 .. k + 1, q[i] = q[j] PROVE i = j
  <2>1. CASE i = k + 1 \/ j = k + 1
    BY <1>1, <1>2, <1>3, <1>5, <2>1
  <2>2. CASE i # k + 1 /\ j # k + 1
    <3>1. i \in 1 .. k /\ j \in 1 .. k
      BY <1>1, <2>2
    <3> QED BY <1>2, <1>5, <3>1 DEF Listed
  <2> QED BY <2>1, <2>2
<1>6. S \cup {n} = {Queue} \cup {q[i] : i \in 1 .. Len(q)}
  <2>1. \A i \in 1 .. k + 1 : i \in 1 .. k \/ i = k + 1
    BY <1>1
  <2>2. k + 1 \in 1 .. k + 1 /\ \A i \in 1 .. k : i \in 1 .. k + 1
    BY <1>1
  <2>3. {q[i] : i \in 1 .. k + 1} = {r[i] : i \in 1 .. k} \cup {n}
    BY <1>2, <2>1, <2>2
  <2> QED BY <1>2, <2>3 DEF Listed
<1>7. g[Queue] = q[1]
  <2>1. Queue # r[k] /\ Queue \in S /\ 1 \in 1 .. k
    BY <1>1, <1>3 DEF Listed
  <2> QED BY <1>2, <1>4, <2>1 DEF Listed
<1>8. ASSUME NEW i \in 1 .. k + 1
      PROVE  g[q[i]] = IF i = k + 1 THEN Queue ELSE q[i + 1]
  <2>1. CASE i = k + 1
    BY <1>2, <1>4, <2>1
  <2>2. CASE i = k
    BY <1>1, <1>2, <1>4, <2>2
  <2>3. CASE i # k /\ i # k + 1
    <3>1. i \in 1 .. k /\ i + 1 \in 1 .. k /\ k \in 1 .. k
      BY <1>1, <2>3
    <3>2. r[i] # r[k] /\ f[r[i]] = r[i + 1]
      BY <2>3, <3>1 DEF Listed
    <3> QED BY <1>2, <1>3, <1>4, <2>3, <3>1, <3>2
  <2> QED BY <2>1, <2>2, <2>3
<1>9. \E c : IsRing(S \cup {n}, g, c)
  BY DEF g
<1>10. Len(q) >= 1
  BY <1>1, <1>2
<1>11. \A i, j \in 1 .. Len(q) : q[i] = q[j] => i = j
  BY <1>2, <1>5
<1>12. \A i \in 1 .. Len(q) : g[q[i]] = IF i = Len(q) THEN Queue ELSE q[i + 1]
  BY <1>2, <1>8
<1>13. Listed(q, S \cup {n}, g)
  BY ONLY <1>2, <1>6, <1>7, <1>9, <1>10, <1>11, <1>12 DEF Listed
<1> QED BY <1>13 DEF q, g

\* The second store of list_del takes the last thread out.
LEMMA Shortened ==
  ASSUME NEW r, NEW S, NEW f, Listed(r, S, f), Len(r) >= 2,
         NEW g, g[r[Len(r) - 1]] = Queue,
         \A x \in S \ {r[Len(r)], r[Len(r) - 1]} : g[x] = f[x],
         NEW b, IsRing(S \ {r[Len(r)]}, g, b)
  PROVE  Listed(SubSeq(r, 1, Len(r) - 1), S \ {r[Len(r)]}, g)
<1> DEFINE k == Len(r)  q == SubSeq(r, 1, k - 1)
<1>1. r \in Seq(Threads) /\ k \in Nat /\ k >= 2
  BY DEF Listed
<1>2. /\ q \in Seq(Threads) /\ Len(q) = k - 1
      /\ \A i \in 1 .. k - 1 : q[i] = r[i]
  BY <1>1
<1>3. \A i \in 1 .. k : r[i] \in S /\ r[i] # Queue
  BY <1>1, Distinct DEF Listed
<1>4. k \in 1 .. k /\ k - 1 \in 1 .. k /\ \A i \in 1 .. k - 1 : i \in 1 .. k /\ i # k
  BY <1>1
<1>5. \A i \in 1 .. k - 1 : r[i] # r[k]
  BY <1>4 DEF Listed
<1> HIDE DEF q
<1>6. \A i, j \in 1 .. k - 1 : q[i] = q[j] => i = j
  BY <1>2, <1>4 DEF Listed
<1>7. S \ {r[k]} = {Queue} \cup {q[i] : i \in 1 .. Len(q)}
  <2>1. \A i \in 1 .. k : i \in 1 .. k - 1 \/ i = k
    BY <1>1
  <2>2. {q[i] : i \in 1 .. k - 1} = {r[i] : i \in 1 .. k} \ {r[k]}
    <3>1. ASSUME NEW i \in 1 .. k, r[i] # r[k] PROVE \E j \in 1 .. k - 1 : q[j] = r[i]
      <4>1. i \in 1 .. k - 1
        BY <2>1, <3>1
      <4> QED BY <1>2, <4>1
    <3>2. {r[i] : i \in 1 .. k} \ {r[k]} \subseteq {q[i] : i \in 1 .. k - 1}
      BY <3>1
    <3>3. {q[i] : i \in 1 .. k - 1} \subseteq {r[i] : i \in 1 .. k} \ {r[k]}
      BY <1>2, <1>4, <1>5
    <3> QED BY <3>2, <3>3
  <2>3. Queue # r[k]
    BY <1>3, <1>4
  <2> QED BY <1>2, <2>2, <2>3 DEF Listed
<1>8. g[Queue] = q[1]
  <2>1. 1 \in 1 .. k - 1
    BY <1>1
  <2>2. Queue \in S \ {r[k], r[k - 1]}
    BY <1>3, <1>4 DEF Listed
  <2> QED BY <1>2, <2>1, <2>2 DEF Listed
<1>9. ASSUME NEW i \in 1 .. k - 1
      PROVE  g[q[i]] = IF i = k - 1 THEN Queue ELSE q[i + 1]
  <2>1. CASE i = k - 1
    BY <1>2, <2>1
  <2>2. CASE i # k - 1
    <3>1. i + 1 \in 1 .. k - 1 /\ i \in 1 .. k /\ i # k
      BY <1>1, <2>2
    <3>2. r[i] # r[k - 1] /\ r[i] # r[k] /\ f[r[i]] = r[i + 1] /\ r[i] \in S
      BY <1>3, <1>4, <2>2, <3>1 DEF Listed
    <3> QED BY <1>2, <2>2, <3>1, <3>2
  <2> QED BY <2>1, <2>2
<1>10. Len(q) >= 1
  BY <1>1, <1>2
<1>11. \A i, j \in 1 .. Len(q) : q[i] = q[j] => i = j
  BY <1>2, <1>6
<1>12. \A i \in 1 .. Len(q) : g[q[i]] = IF i = Len(q) THEN Queue ELSE q[i + 1]
  BY <1>2, <1>9
<1>13. \E c : IsRing(S \ {r[k]}, g, c)
  OBVIOUS
<1>14. Listed(q, S \ {r[k]}, g)
  BY ONLY <1>2, <1>7, <1>8, <1>10, <1>11, <1>12, <1>13 DEF Listed
<1> QED BY <1>14 DEF q

(***************************************************************************)
(* The abstract state                                                      *)
(***************************************************************************)
Ordered == \E r, S : Listed(r, S, next)
Simulates == Ordered' /\ (RR!RRNext \/ UNCHANGED <<Ring, cpu.on, Heir>>)

LEMMA OnRing ==
  ASSUME NEW r, NEW S, NEW links, Listed(r, S, links), NEW t \in Threads
  PROVE  (\E i \in DOMAIN r : r[i] = t) <=> t \in S
<1>1. DOMAIN r = 1 .. Len(r)
  BY DEF Listed
<1>2. t # Queue
  BY Distinct, Zenon
<1>3. S = {Queue} \cup {r[i] : i \in 1 .. Len(r)}
  BY DEF Listed
<1> QED BY <1>1, <1>2, <1>3

\* The ring and the heir, before a step and after it.
LEMMA MappedNow ==
  ASSUME NEW r, NEW S, Listed(r, S, next), cpu.on \in Threads
  PROVE  /\ Ring = r
         /\ Heir = IF cpu.on \in S THEN NULL ELSE SkipHead(Top.next)
         /\ \A t \in Threads : RR!InRing(t) <=> t \in S
<1>1. Ring = r
  BY RingIs DEF Ring
<1>2. \A t \in Threads : RR!InRing(t) <=> t \in S
  BY <1>1, OnRing DEF RR!InRing
<1>3. cpu.on \in Queued <=> cpu.on \in S
  BY <1>1, OnRing DEF Queued
<1> QED BY <1>1, <1>2, <1>3 DEF Heir

LEMMA MappedThen ==
  ASSUME NEW r, NEW S, Listed(r, S, next'), cpu'.on \in Threads
  PROVE  /\ Ring' = r
         /\ Heir' = IF cpu'.on \in S THEN NULL ELSE SkipHead(Top.next)'
<1>1. Ring' = r
  BY RingIs DEF Ring
<1>2. cpu'.on \in Queued' <=> cpu'.on \in S
  BY <1>1, OnRing DEF Queued
<1> QED BY <1>1, <1>2 DEF Heir

LEMMA SuccIs ==
  ASSUME NEW r, NEW S, Listed(r, S, next), cpu.on \in Threads, NEW t \in S \cap Threads
  PROVE  /\ RR!Place(t) \in 1 .. Len(r) /\ r[RR!Place(t)] = t
         /\ RR!Succ(t) = SkipHead(next[t])
<1>1. Ring = r /\ RR!InRing(t)
  BY MappedNow
<1>2. DOMAIN r = 1 .. Len(r) /\ Len(r) \in Nat
  BY DEF Listed
<1> DEFINE p == RR!Place(t)
<1>3. p \in 1 .. Len(r) /\ r[p] = t
  BY <1>1, <1>2 DEF RR!Place, RR!InRing
<1>4. RR!Succ(t) = IF p = Len(r) THEN r[1] ELSE r[p + 1]
  BY <1>1 DEF RR!Succ
<1> HIDE DEF p
<1>5. \A i \in 1 .. Len(r) :
        r[i] # Queue /\ next[r[i]] = IF i = Len(r) THEN Queue ELSE r[i + 1]
  BY Distinct DEF Listed
<1>6. RR!Succ(t) = SkipHead(next[t])
  <2>1. CASE p = Len(r)
    <3>1. next[t] = Queue /\ next[Queue] = r[1]
      BY <1>3, <1>5, <2>1 DEF Listed
    <3> QED BY <1>4, <2>1, <3>1 DEF SkipHead
  <2>2. CASE p # Len(r)
    <3>1. p + 1 \in 1 .. Len(r)
      BY <1>2, <1>3, <2>2
    <3>2. r[p + 1] # Queue /\ next[t] = r[p + 1]
      BY <1>3, <1>5, <2>2, <3>1
    <3> QED BY <1>4, <2>2, <3>2 DEF SkipHead
  <2> QED BY <2>1, <2>2
<1> QED BY <1>3, <1>6 DEF p

\* A step that leaves the links of the ring and the stack in use alone, of a
\* thread on the ring, is no step of the abstract scheduler.
LEMMA Stays ==
  ASSUME NEW r, NEW S, Listed(r, S, next), cpu.on \in S \cap Threads, cpu'.on = cpu.on,
         \A x \in S : next'[x] = next[x]
  PROVE  Simulates
<1>1. Listed(r, S, next')
  BY ListedKept
<1>2. Ring' = Ring /\ Heir' = Heir
  BY <1>1, MappedNow, MappedThen
<1> QED BY <1>1, <1>2 DEF Simulates, Ordered

(***************************************************************************)
(* Steps of a thread on the ring                                           *)
(***************************************************************************)

\* The ring of the invariant is the one that is listed.
LEMMA LiveRing ==
  ASSUME Common, NEW S, NEW pend, LiveIn(S, pend), NEW r, NEW T, Listed(r, T, next)
  PROVE  T = S /\ cpu.on \in S \cap Threads
<1>1. \E b : IsRing(S, next, b)
  BY DEF LiveIn, Linked, Whole, AddingTo, Chained
<1>2. Queue \in S /\ Queue \in T
  BY RingFacts DEF LiveIn, Common, Listed
<1>3. T = S
  BY <1>1, <1>2, SameRing DEF Listed
<1> QED BY <1>3, LiveTop

\* schedule() up to the switch, its return, a tick and a worker's own steps.
LEMMA LiveStays ==
  ASSUME Common, NEW S, NEW pend, LiveIn(S, pend), NEW r, Listed(r, S, next),
         \/ schedule \/ pick \/ return_from_schedule \/ sched_on_tick
         \/ sleep_ms \/ thread_terminate
  PROVE  Simulates
<1>1. cpu \in Contexts
  BY DEF Common, Typed
<1>2. \A f : ReplaceTop(f).on = cpu.on /\ \A g : Push(ReplaceTop(f), g).on = cpu.on
  BY <1>1 DEF ReplaceTop, Push, Contexts
<1>3. [cpu EXCEPT !.frames = SubSeq(@, 1, Depth - 1)].on = cpu.on
  BY <1>1 DEF Contexts
<1>4. Return => next' = next /\ cpu'.on = cpu.on
  BY <1>3 DEF Return
<1>5. next' = next /\ cpu'.on = cpu.on
  <2>1. CASE schedule
    BY <1>2, <1>4, <2>1 DEF schedule
  <2>2. CASE pick
    BY <1>2, <1>4, <2>2 DEF pick, PageFault
  <2>3. CASE return_from_schedule
    BY <1>4, <2>3 DEF return_from_schedule
  <2>4. CASE sched_on_tick
    <3>1. next' = next
      BY <2>4 DEF sched_on_tick
    <3>2. \/ cpu' = ReplaceTop(Woken(Top))
          \/ cpu' = Push(ReplaceTop(Woken(Top)), Frame("schedule", TRUE))
      BY <2>4 DEF sched_on_tick
    <3> QED BY <1>2, <3>1, <3>2
  <2>5. CASE sleep_ms \/ thread_terminate
    BY <1>2, <2>5 DEF sleep_ms, thread_terminate
  <2> QED BY <2>1, <2>2, <2>3, <2>4, <2>5
<1>6. cpu.on \in S \cap Threads
  BY LiveRing
<1> QED BY <1>5, <1>6, Stays

\* The switch of a tick: the processor passes to the thread that follows.
LEMMA SwitchYields ==
  ASSUME Common, NEW S, NEW pend, LiveIn(S, pend), NEW r, Listed(r, S, next),
         cpu_switch_context
  PROVE  Simulates
<1>1. Top.pc = "switch" /\ next' = next /\ cpu' = rsp[Top.next]
  BY DEF cpu_switch_context, At
<1>2. Top.next \in S \ {Queue, cpu.on} /\ Top.next = SkipHead(next[cpu.on])
  BY <1>1, LiveTop DEF Switching
<1>3. cpu.on \in S \cap Threads
  BY LiveRing
<1>4. Top.next \in Started /\ Top.next \in Threads
  BY <1>2, RingFacts, StartedFacts DEF LiveIn, Common
<1>5. cpu'.on = Top.next
  <2>1. Inv
    BY DEF Inv, Live
  <2> QED BY <1>1, <1>2, <1>4, <2>1, InvOwnStacks DEF OwnStacks
<1>6. Listed(r, S, next')
  BY <1>1
<1>7. Ring' = Ring /\ Heir = NULL /\ Heir' = NULL
  BY <1>2, <1>3, <1>4, <1>5, <1>6, MappedNow, MappedThen
<1>8. cpu'.on = RR!Succ(cpu.on) /\ RR!InRing(cpu.on)
  BY <1>2, <1>3, <1>5, SuccIs, MappedNow
<1>9. RR!RRNext
  BY <1>7, <1>8 DEF RR!RRNext, RR!Yield
<1> QED BY <1>6, <1>9 DEF Simulates, Ordered

\* kmain creates, destroys and starts threads that are not on the ring; what
\* links a started one into it are the stores that follow.
LEMMA KmainStays ==
  ASSUME Common, Live \/ Dying, NEW r, NEW S, Listed(r, S, next), NEW t \in Workers,
         thread_create(t) \/ thread_destroy(t) \/ thread_start(t)
  PROVE  Simulates
<1>1. KmainReady
  BY DEF thread_create, thread_destroy, thread_start
<1>2. PICK T : LiveIn(T, <<>>) /\ T = Started \cup {Queue}
  BY <1>1, KmainAt
<1>3. S = T /\ cpu.on \in S \cap Threads
  BY <1>2, LiveRing
<1>4. cpu'.on = cpu.on
  <2>1. \A f : ReplaceTop(f).on = cpu.on
    BY DEF ReplaceTop, Common, Typed, Contexts
  <2> QED BY <2>1 DEF thread_create, thread_destroy, thread_start
<1>5. next' = next \/ (next' = [next EXCEPT ![t] = t] /\ state[t] \in {"UNUSED", "TERMINATED"})
  BY DEF thread_create, thread_destroy, thread_start
<1>6. state[t] \in {"UNUSED", "TERMINATED"} => t \notin S
  BY <1>2, <1>3, Distinct DEF Started
<1>7. \A x \in S : next'[x] = next[x]
  <2>1. next \in Links /\ S \subseteq Nodes
    BY <1>2, <1>3, Distinct DEF Common, Typed, Started
  <2> QED BY <1>5, <1>6, <2>1 DEF Links
<1> QED BY <1>3, <1>4, <1>7, Stays

\* What a store does to the links forward; it leaves the stack in use alone.
LEMMA StoreEffect ==
  ASSUME Common, Store
  PROVE  LET s == Head(Top.stores) IN
         /\ cpu'.on = cpu.on
         /\ s.field = "prev" => next' = next
         /\ s.field = "next" /\ s.node # NULL => next' = [next EXCEPT ![s.node] = s.value]
<1>1. \A f : ReplaceTop(f).on = cpu.on
  BY DEF ReplaceTop, Common, Typed, Contexts
<1> QED BY <1>1 DEF Store

\* The stores of list_add_tail: the thread joins at the last.
LEMMA AddStoreJoins ==
  ASSUME Common, NEW S, NEW pend, LiveIn(S, pend), NEW r, Listed(r, S, next), Store
  PROVE  Simulates
<1> DEFINE s == Head(Top.stores)
<1>1. /\ cpu'.on = cpu.on /\ (s.field = "prev" => next' = next)
      /\ s.field = "next" /\ s.node # NULL => next' = [next EXCEPT ![s.node] = s.value]
  BY StoreEffect
<1>2. Top.stores # <<>>
  BY DEF Store
<1>3. Depth = 1 /\ cpu.on = Main
  <2>1. Depth \in Nat /\ Depth >= 1
    BY TopFacts DEF Common, Typed
  <2>2. Depth = 1
    BY <1>2, <2>1, LiveTop
  <2> QED BY <1>2, <2>2, LiveTop
<1>4. pend = Top.stores
  BY <1>3 DEF LiveIn, Pend, Top
<1>5. PICK n \in Workers, back \in Links :
        S = (Started \ {n}) \cup {Queue} /\ Chained(S, back) /\ Adding(n, back, pend)
  BY <1>2, <1>4 DEF LiveIn, Linked, Whole, AddingTo
<1> DEFINE p == back[Queue]
<1>6. cpu.on \in S \cap Threads
  BY LiveRing
<1>7. n \notin S /\ n # NULL /\ n \in Threads /\ Queue \in S /\ Queue # NULL
  BY <1>5, Distinct
<1>8. p \in S /\ next[p] = Queue /\ p \in Nodes /\ p # NULL
  <2>1. p \in S /\ next[p] = Queue
    BY <1>5, <1>7 DEF Chained, IsRing
  <2> QED BY <1>5, <2>1, Distinct DEF Started
<1> HIDE DEF p, s
<1>9. ASSUME \A x \in S : next'[x] = next[x] PROVE Simulates
  BY <1>1, <1>6, <1>9, Stays
<1>10. CASE pend = <<SetPrev(Queue, n), SetNext(n, Queue), SetPrev(n, p), SetNext(p, n)>>
  <2>1. s = SetPrev(Queue, n)
    BY <1>4, <1>10, StoreFacts DEF s
  <2>2. s.field = "prev"
    BY <2>1, StoreFacts
  <2> QED BY <1>1, <1>9, <2>2
<1>11. CASE pend = <<SetNext(n, Queue), SetPrev(n, p), SetNext(p, n)>>
  <2>1. s = SetNext(n, Queue)
    BY <1>4, <1>11, StoreFacts DEF s
  <2>2. next' = [next EXCEPT ![n] = Queue]
    BY <1>1, <1>7, <2>1, StoreFacts
  <2> QED BY <1>7, <1>9, <2>2
<1>12. CASE pend = <<SetPrev(n, p), SetNext(p, n)>>
  <2>1. s = SetPrev(n, p)
    BY <1>4, <1>12, StoreFacts DEF s
  <2>2. s.field = "prev"
    BY <2>1, StoreFacts
  <2> QED BY <1>1, <1>9, <2>2
<1>13. CASE pend = <<SetNext(p, n)>> /\ next[n] = Queue
  <2>1. s = SetNext(p, n)
    BY <1>4, <1>13, StoreFacts DEF s
  <2> DEFINE g == [next EXCEPT ![p] = n]  c == [back EXCEPT ![Queue] = n, ![n] = p]
  <2>2. next' = g
    BY <1>1, <1>8, <2>1, StoreFacts
  <2>3. next \in Links /\ back \in Links /\ n \in Nodes /\ Queue \in Nodes /\ S \subseteq Nodes
    BY <1>5, Distinct DEF Common, Typed, Started
  <2>4. g[n] = Queue /\ g[p] = n /\ \A x \in S \ {p} : g[x] = next[x]
    BY <1>7, <1>8, <1>13, <2>3 DEF Links
  <2>5. c[Queue] = n /\ c[n] = p /\ \A x \in S \ {Queue} : c[x] = back[x]
    BY <1>7, <2>3 DEF Links
  <2>6. IsRing(S, next, back)
    BY <1>5 DEF Chained
  <2> HIDE DEF g, c
  <2>7. IsRing(S \cup {n}, g, c)
    BY <1>7, <2>4, <2>5, <2>6, RingInsert DEF p
  <2>8. p = r[Len(r)]
    <3>1. back[next[r[Len(r)]]] = r[Len(r)] /\ next[r[Len(r)]] = Queue
      <4>1. Len(r) \in 1 .. Len(r)
        BY DEF Listed
      <4>2. r[Len(r)] \in S /\ next[r[Len(r)]] = Queue
        BY <4>1 DEF Listed
      <4> QED BY <2>6, <4>2 DEF IsRing
    <3> QED BY <3>1 DEF p
  <2>9. Listed(Append(r, n), S \cup {n}, next')
    BY <1>7, <1>8, <1>13, <2>2, <2>3, <2>7, <2>8, Appended DEF g, Links
  <2>10. Ring = r /\ Heir = NULL /\ ~RR!InRing(n)
    BY <1>6, <1>7, MappedNow
  <2>11. Ring' = Append(r, n) /\ Heir' = NULL
    <3>1. cpu'.on \in S \cup {n} /\ cpu'.on \in Threads
      BY <1>1, <1>6
    <3>2. Ring' = Append(r, n)
      BY <2>9, <3>1, MappedThen
    <3>3. Heir' = IF cpu'.on \in S \cup {n} THEN NULL ELSE SkipHead(Top.next)'
      BY <2>9, <3>1, MappedThen
    <3> QED BY <3>1, <3>2, <3>3
  <2>12. RR!Join
    BY <1>1, <2>10, <2>11 DEF RR!Join
  <2> QED BY <2>9, <2>12 DEF Simulates, Ordered, RR!RRNext
<1> QED BY <1>5, <1>10, <1>11, <1>12, <1>13 DEF Adding, p

(***************************************************************************)
(* Steps of a thread that ends                                             *)
(***************************************************************************)

\* Until the second store of list_del the thread is the last of the ring;
\* afterwards it is not on it, and kmain's thread is its heir.
LEMMA DyingRing ==
  ASSUME Common, NEW t \in Workers, NEW pend, DyingAs(t, pend), NEW r, NEW S, Listed(r, S, next)
  PROVE  /\ cpu.on = t /\ t \in Threads
         /\ After => t \notin S /\ Main \in S
         /\ \A back : Chained(Started \cup {Queue, t}, back) => S = Started \cup {Queue, t}
<1>1. cpu.on = t /\ state[t] = "TERMINATED" /\ t \in Threads /\ t # Queue
  BY Distinct DEF DyingAs
<1>2. PICK b : IsRing(S, next, b)
  BY DEF Listed
<1>3. Queue \in S
  BY DEF Listed
<1>4. ASSUME NEW T, Queue \in T, NEW c, IsRing(T, next, c) PROVE S = T
  BY <1>2, <1>3, <1>4, SameRing
<1>5. After => S = Started \cup {Queue} /\ Main \in S
  BY <1>4 DEF After, Chained
<1>6. \A back : Chained(Started \cup {Queue, t}, back) => S = Started \cup {Queue, t}
  BY <1>4 DEF Chained
<1>7. t \notin Started
  BY <1>1 DEF Started
<1> QED BY <1>1, <1>5, <1>6, <1>7

\* A thread that has left stays out, and its heir the same.
LEMMA HeirStays ==
  ASSUME NEW r, NEW S, Listed(r, S, next), cpu.on \in Threads \ S, cpu'.on = cpu.on,
         \A x \in S : next'[x] = next[x], SkipHead(Top.next)' = SkipHead(Top.next)
  PROVE  Simulates
<1>1. Listed(r, S, next')
  BY ListedKept
<1>2. Ring' = Ring /\ Heir' = Heir
  BY <1>1, MappedNow, MappedThen
<1> QED BY <1>1, <1>2 DEF Simulates, Ordered

\* The call of the last schedule(), and that up to list_del.
LEMMA DyingStays ==
  ASSUME Common, NEW t \in Workers, NEW pend, DyingAs(t, pend), NEW r, NEW S, Listed(r, S, next),
         terminate_calls_schedule \/ schedule
  PROVE  Simulates
<1>1. Before(t)
  BY DEF terminate_calls_schedule, schedule, WorkerAt, At, DyingAs, Leaving
<1>2. cpu.on = t /\ t \in S \cap Threads
  BY <1>1, DyingRing DEF Before
<1>3. next' = next /\ cpu'.on = cpu.on
  <2>1. \A f : ReplaceTop(f).on = cpu.on /\ \A g : Push(ReplaceTop(f), g).on = cpu.on
    BY DEF ReplaceTop, Push, Common, Typed, Contexts
  <2>2. [cpu EXCEPT !.frames = SubSeq(@, 1, Depth - 1)].on = cpu.on
    BY DEF Common, Typed, Contexts
  <2>3. CASE terminate_calls_schedule
    BY <2>1, <2>3 DEF terminate_calls_schedule
  <2>4. CASE schedule
    BY <2>1, <2>2, <2>4 DEF schedule, Return
  <2> QED BY <2>3, <2>4
<1> QED BY <1>2, <1>3, Stays

\* The node read before list_del was the head: the thread after it is chosen.
LEMMA DyingPickStays ==
  ASSUME Common, NEW t \in Workers, NEW pend, DyingAs(t, pend), NEW r, NEW S, Listed(r, S, next),
         pick
  PROVE  Simulates
<1>1. Top.pc = "pick" /\ Top.stores = <<>>
  BY DEF pick, At
<1>2. Depth = 2 /\ Top.old = t /\ Top.next = Queue /\ Deleting(t, <<>>)
  BY <1>1 DEF DyingAs, Leaving
<1>3. After
  <2>1. /\ <<>> # list_del(t)
        /\ \A back : <<>> # <<SetNext(back[t], Queue), SetNext(t, NULL), SetPrev(t, NULL)>>
    BY DEF list_del
  <2> QED BY <1>2, <2>1 DEF Deleting
<1>4. cpu.on = t /\ t \in Threads /\ t \notin S /\ next[Queue] = Main
  BY <1>3, DyingRing DEF After, Chained
<1>5. Main # Queue /\ Main # t /\ Main # NULL /\ Main \in Nodes
  BY Distinct
<1> DEFINE f == [Top EXCEPT !.pc = "switch", !.next = Main]
<1>6. SkipHead(Top.next) = Main
  BY <1>2, <1>4 DEF SkipHead
<1>7. cpu' = ReplaceTop(f) /\ next' = next
  BY <1>2, <1>5, <1>6 DEF pick
<1>8. Top \in Frames /\ ~Top.isr
  BY <1>2, TopFacts DEF Common, DyingAs, Top
<1>9. f \in Frames /\ f.next = Main /\ ~f.isr
  BY <1>5, <1>8 DEF Frames, PCs
<1> HIDE DEF f
<1>10. cpu'.on = t /\ Top' = f
  BY <1>2, <1>7, <1>9, DyingTop
<1>11. SkipHead(Top.next)' = Main
  BY <1>5, <1>9, <1>10 DEF SkipHead
<1> QED BY <1>4, <1>6, <1>7, <1>10, <1>11, HeirStays

\* The switch away from a thread that has left hands over to its heir.
LEMMA SwitchHandsOver ==
  ASSUME Common, NEW t \in Workers, NEW pend, DyingAs(t, pend), NEW r, NEW S, Listed(r, S, next),
         cpu_switch_context
  PROVE  Simulates
<1>1. Top.pc = "switch" /\ next' = next /\ cpu' = rsp[Top.next]
  BY DEF cpu_switch_context, At
<1>2. Top.next = Main /\ After
  BY <1>1 DEF DyingAs, Leaving
<1>3. cpu.on = t /\ t \in Threads /\ t \notin S /\ Main \in S
  BY <1>2, DyingRing
<1>4. cpu'.on = Main
  <2>1. Inv
    BY DEF Inv, Dying
  <2>2. Main \in Started \ {cpu.on}
    BY <1>3, StartedFacts, Distinct DEF Common
  <2> QED BY <1>1, <1>2, <2>1, <2>2, InvOwnStacks DEF OwnStacks
<1>5. Main \in Threads /\ Main # Queue
  BY Distinct
<1>6. Ring = r /\ Heir = Main /\ ~RR!InRing(cpu.on)
  BY <1>2, <1>3, <1>5, MappedNow DEF SkipHead
<1>7. Listed(r, S, next')
  BY <1>1
<1>8. Ring' = r /\ Heir' = NULL
  BY <1>3, <1>4, <1>5, <1>7, MappedThen
<1>9. RR!HandOver
  BY <1>4, <1>6, <1>8 DEF RR!HandOver
<1> QED BY <1>7, <1>9 DEF Simulates, Ordered, RR!RRNext

\* The stores of list_del: the thread leaves at the second.
LEMMA DelStoreLeaves ==
  ASSUME Common, NEW t \in Workers, NEW pend, DyingAs(t, pend), NEW r, NEW S, Listed(r, S, next),
         Store
  PROVE  Simulates
<1> DEFINE s == Head(Top.stores)
<1>1. /\ cpu'.on = cpu.on /\ (s.field = "prev" => next' = next)
      /\ s.field = "next" /\ s.node # NULL => next' = [next EXCEPT ![s.node] = s.value]
  BY StoreEffect
<1>2. Top.stores # <<>>
  BY DEF Store
<1>3. /\ Depth = 2 /\ pend = Top.stores /\ Top.pc = "pick" /\ Top.next = Queue
      /\ ~Top.isr /\ Deleting(t, pend)
  BY <1>2 DEF DyingAs, Leaving, Top
<1>4. /\ cpu.on = t /\ t \in Threads /\ t # Queue /\ t # NULL /\ Queue # NULL /\ t # Main
      /\ Queue \in Nodes /\ t \in Nodes /\ next \in Links /\ t \notin Started
      /\ Started \in SUBSET Threads /\ NULL \notin Nodes /\ Queue \notin Threads
  BY DyingRing, StartedFacts, Distinct DEF Common, Typed, DyingAs, Started
<1>5. Top'.next = Queue
  <2>1. Top \in Frames
    BY TopFacts DEF Common
  <2> DEFINE f == [Top EXCEPT !.stores = Tail(@)]
  <2>2. f \in Frames /\ ~f.isr /\ f.next = Queue
    <3>1. Tail(Top.stores) \in Seq(Stores)
      BY <1>2, <2>1 DEF Frames
    <3> QED BY <1>3, <2>1, <3>1 DEF Frames
  <2>3. cpu' = ReplaceTop(f)
    BY DEF Store
  <2> HIDE DEF f
  <2>4. Top' = f
    BY <1>3, <2>2, <2>3, DyingTop
  <2> QED BY <2>2, <2>4
<1> HIDE DEF s
<1>6. CASE Before(t) /\ pend = list_del(t)
  <2>1. s = SetPrev(next[t], prev[t])
    BY <1>3, <1>6, StoreFacts DEF s, list_del
  <2>2. next' = next
    BY <1>1, <2>1, StoreFacts
  <2>3. t \in S
    BY <1>6, DyingRing DEF Before
  <2> QED BY <1>1, <1>4, <2>2, <2>3, Stays
<1>7. ASSUME NEW back \in Links, Chained(Started \cup {Queue, t}, back), next[t] = Queue,
             pend = <<SetNext(back[t], Queue), SetNext(t, NULL), SetPrev(t, NULL)>>
      PROVE  Simulates
  <2> DEFINE p == back[t]
  <2>1. S = Started \cup {Queue, t} /\ IsRing(S, next, back) /\ Main \in S /\ next[Queue] = Main
    BY <1>7, DyingRing DEF Chained
  <2>2. p \in S /\ next[p] = t /\ p # Queue /\ p # t /\ p \in Nodes /\ p # NULL
    BY <1>4, <1>7, <2>1, Distinct DEF IsRing
  <2> HIDE DEF p
  <2>3. s = SetNext(p, Queue)
    BY <1>3, <1>7, StoreFacts DEF s, p
  <2> DEFINE g == [next EXCEPT ![p] = Queue]  c == [back EXCEPT ![Queue] = p]
  <2>4. next' = g
    BY <1>1, <2>2, <2>3, StoreFacts
  <2>5. S \subseteq Nodes
    BY <1>4, <2>1, Distinct
  <2>6. /\ g[p] = Queue /\ \A x \in S \ {t, p} : g[x] = next[x]
        /\ c[Queue] = p /\ \A x \in S \ {t, Queue} : c[x] = back[x]
    BY <1>4, <1>7, <2>2, <2>5 DEF Links
  <2> HIDE DEF g, c
  <2>7. IsRing(S \ {t}, g, c)
    BY <1>4, <1>7, <2>1, <2>6, RingDelete DEF p
  <2>8. Len(r) \in Nat /\ Len(r) >= 1 /\ r \in Seq(Threads) /\ \A i \in 1 .. Len(r) : r[i] # Queue
    BY <1>4 DEF Listed
  <2>9. t = r[Len(r)]
    <3>1. PICK i \in 1 .. Len(r) : t = r[i]
      BY <1>4, <2>1 DEF Listed
    <3>2. next[r[i]] = IF i = Len(r) THEN Queue ELSE r[i + 1]
      BY DEF Listed
    <3>3. i # Len(r) => i + 1 \in 1 .. Len(r)
      BY <2>8
    <3> QED BY <1>7, <2>8, <3>1, <3>2, <3>3
  <2>10. Len(r) >= 2
    <3>1. next[Queue] = r[1]
      BY DEF Listed
    <3>2. Len(r) # 1
      BY <1>4, <2>1, <2>9, <3>1
    <3>3. \A k \in Nat : k >= 1 /\ k # 1 => k >= 2
      OBVIOUS
    <3> QED BY <2>8, <3>2, <3>3, Zenon
  <2>11. p = r[Len(r) - 1]
    <3>1. Len(r) - 1 \in 1 .. Len(r) /\ Len(r) - 1 # Len(r) /\ Len(r) - 1 + 1 = Len(r)
      <4>1. ASSUME NEW k \in Nat, k >= 2 PROVE k - 1 \in 1 .. k /\ k - 1 # k /\ k - 1 + 1 = k
        BY ONLY <4>1, k \in Nat
      <4> QED BY <2>8, <2>10, <4>1, Zenon
    <3>2. r[Len(r) - 1] \in S /\ next[r[Len(r) - 1]] = t
      BY <2>9, <3>1, Zenon DEF Listed
    <3> QED BY <2>1, <3>2 DEF IsRing, p
  <2>12. Listed(SubSeq(r, 1, Len(r) - 1), S \ {t}, g)
    BY <2>6, <2>7, <2>9, <2>10, <2>11, Shortened
  <2> DEFINE q == SubSeq(r, 1, Len(r) - 1)
  <2>13. t \in S /\ Ring = r /\ Heir = NULL /\ RR!InRing(t)
    <3>1. t \in S
      BY <2>1
    <3> QED BY <1>4, <3>1, MappedNow
  <2>14. /\ RR!Place(t) \in 1 .. Len(r) /\ r[RR!Place(t)] = t
         /\ RR!Succ(t) = Main
    BY <1>4, <1>7, <2>1, <2>13, SuccIs DEF SkipHead
  <2>15. RR!Place(t) = Len(r)
    <3>1. Len(r) \in 1 .. Len(r)
      BY <2>8
    <3> QED BY <2>9, <2>14, <3>1 DEF Listed
  <2>16. Ring' = q /\ Heir' = Main
    <3>1. Listed(q, S \ {t}, next') /\ cpu'.on = t
      BY <1>1, <1>4, <2>4, <2>12
    <3>2. Ring' = q /\ Heir' = IF cpu'.on \in S \ {t} THEN NULL ELSE SkipHead(Top.next)'
      BY <1>4, <3>1, MappedThen
    <3>3. next'[Queue] = Main
      BY <1>4, <2>1, <2>2, <2>4, <2>6
    <3>4. SkipHead(Top.next)' = Main
      BY <1>5, <3>3 DEF SkipHead
    <3> QED BY <3>1, <3>2, <3>4
  <2>17. SubSeq(r, 1, Len(r) - 1) \o SubSeq(r, Len(r) + 1, Len(r)) = q
    BY <2>8, <2>10
  <2> HIDE DEF q
  <2>18. RR!Leave
    BY <1>1, <1>4, <2>13, <2>14, <2>15, <2>16, <2>17 DEF RR!Leave
  <2> QED BY <2>4, <2>12, <2>18 DEF Simulates, Ordered, RR!RRNext
<1>8. CASE /\ After
           /\ pend \in {<<SetNext(t, NULL), SetPrev(t, NULL)>>, <<SetPrev(t, NULL)>>, <<>>}
  <2>1. t \notin S /\ Queue \in S /\ next[Queue] = Main
    BY <1>8, DyingRing DEF Listed, After, Chained
  <2>2. s = SetNext(t, NULL) \/ s = SetPrev(t, NULL)
    <3>1. pend # <<>>
      BY <1>2, <1>3
    <3> QED BY <1>3, <1>8, <3>1, StoreFacts DEF s
  <2>3. next' = next \/ next' = [next EXCEPT ![t] = NULL]
    BY <1>1, <1>4, <2>2, StoreFacts
  <2>4. S \subseteq Nodes
    BY Distinct DEF Listed
  <2>5. \A x \in S : next'[x] = next[x]
    BY <1>4, <2>1, <2>3, <2>4 DEF Links
  <2>6. SkipHead(Top.next)' = SkipHead(Top.next)
    BY <1>3, <1>5, <2>1, <2>5 DEF SkipHead
  <2> QED BY <1>1, <1>4, <2>1, <2>5, <2>6, HeirStays
<1> QED BY <1>3, <1>6, <1>7, <1>8 DEF Deleting

(***************************************************************************)
(* The refinement                                                          *)
(***************************************************************************)
LEMMA InitOrdered == Init => Ordered /\ RR!RRInit
<1> SUFFICES ASSUME Init PROVE Ordered /\ RR!RRInit
  OBVIOUS
<1> DEFINE S == {Queue, Main}  r == <<Main>>
<1>1. Main \in Threads /\ Main \in Nodes /\ Queue \in Nodes /\ Main # Queue
  BY Distinct
<1>2. next[Queue] = Main /\ next[Main] = Queue /\ prev = next /\ cpu = Fresh(Main)
  BY <1>1 DEF Init
<1>3. IsRing(S, next, prev)
  <2>1. \A n \in S : next[n] \in S /\ prev[next[n]] = n /\ prev[n] \in S /\ next[prev[n]] = n
    BY <1>2
  <2>2. ASSUME NEW part \in SUBSET S, part # {}, \A n \in part : next[n] \in part PROVE part = S
    BY <1>2, <2>2
  <2> QED BY <2>1, <2>2 DEF IsRing
<1>4. r \in Seq(Threads) /\ Len(r) = 1 /\ r[1] = Main
  BY <1>1
<1> HIDE DEF r
<1>5. Listed(r, S, next)
  <2>1. \A i \in 1 .. Len(r) : i = 1
    BY <1>4
  <2>2. 1 \in 1 .. Len(r)
    BY <1>4
  <2>3. S = {Queue} \cup {r[i] : i \in 1 .. Len(r)}
    BY <1>4, <2>1, <2>2
  <2> QED BY <1>2, <1>3, <1>4, <2>1, <2>3 DEF Listed
<1>6. cpu.on = Main
  BY <1>1, <1>2, FrameFacts
<1>7. Ring = r /\ Heir = NULL
  BY <1>1, <1>5, <1>6, MappedNow
<1> QED BY <1>5, <1>6, <1>7 DEF Ordered, RR!RRInit, r

\* Every step is a step of RoundRobin, or none.
LEMMA StepSimulates ==
  ASSUME Fenced, Inv, Ordered, [Next]_vars
  PROVE  Simulates
<1>0. PICK r, S : Listed(r, S, next)
  BY DEF Ordered
<1>1. Common /\ (Live \/ Dying)
  BY DEF Inv
<1>2. CASE UNCHANGED vars
  <2>1. next' = next /\ cpu' = cpu
    BY <1>2 DEF vars
  <2> QED BY <1>0, <2>1 DEF Simulates, Ordered, Ring, RingOf, Heir, Queued, SkipHead, Top, Depth
<1>3. CASE Kmain
  BY <1>0, <1>1, <1>3, KmainStays DEF Kmain
<1>4. CASE Live /\ ~Kmain /\ Next
  <2>1. PICK T, pend : LiveIn(T, pend)
    BY <1>4 DEF Live
  <2>2. Listed(r, T, next)
    BY <1>0, <1>1, <2>1, LiveRing
  <2>3. CASE Store
    BY <1>1, <2>1, <2>2, <2>3, AddStoreJoins
  <2>4. CASE cpu_switch_context
    BY <1>1, <2>1, <2>2, <2>4, SwitchYields
  <2>5. CASE \/ schedule \/ pick \/ return_from_schedule \/ sched_on_tick
             \/ sleep_ms \/ thread_terminate
    BY <1>1, <2>1, <2>2, <2>5, LiveStays
  <2>6. ~terminate_calls_schedule
    <3>1. Depth \in Nat /\ Depth >= 1
      BY <1>1, TopFacts DEF Common, Typed
    <3>2. Top.pc # "terminated"
      BY <1>1, <2>1, <3>1, LiveTop
    <3> QED BY <3>2 DEF terminate_calls_schedule, WorkerAt, At
  <2> QED BY <1>4, <2>3, <2>4, <2>5, <2>6 DEF Next, Kernel, Worker
<1>5. CASE Dying /\ ~Kmain /\ Next
  <2>0. PICK t \in Workers : \E pend : DyingAs(t, pend)
    BY <1>5 DEF Dying
  <2>1. PICK pend : DyingAs(t, pend)
    BY <2>0
  <2>2. Top.pc \in {"terminated", "schedule", "pick", "switch"}
    BY <2>1 DEF DyingAs, Leaving
  <2>3. CASE Store
    BY <1>0, <1>1, <2>1, <2>3, DelStoreLeaves
  <2>4. CASE schedule \/ terminate_calls_schedule
    BY <1>0, <1>1, <2>1, <2>4, DyingStays
  <2>5. CASE pick
    BY <1>0, <1>1, <2>1, <2>5, DyingPickStays
  <2>6. CASE cpu_switch_context
    BY <1>0, <1>1, <2>1, <2>6, SwitchHandsOver
  <2>7. ~return_from_schedule /\ ~sleep_ms /\ ~thread_terminate
    BY <2>2 DEF return_from_schedule, sleep_ms, thread_terminate, WorkerAt, At
  <2>8. ~sched_on_tick
    BY <2>1 DEF sched_on_tick, Fenced, DyingAs
  <2> QED BY <1>5, <2>3, <2>4, <2>5, <2>6, <2>7, <2>8 DEF Next, Kernel, Worker
<1> QED BY <1>1, <1>2, <1>3, <1>4, <1>5

\* Whatever the workers do and wherever ticks fall between the stores of
\* list_add_tail and list_del, the processor passes round the threads of the
\* ring in the order they were started: none is skipped, none comes twice, and
\* the thread that ends leaves the ring once and hands over to the one after it.
THEOREM SchedImplements == Fenced /\ Spec => Implements
<1>1. Init => Ordered /\ RR!RRInit
  BY InitOrdered
<1>2. Fenced /\ Inv /\ Ordered /\ [Next]_vars => Ordered' /\ [RR!RRNext]_(RR!rvars)
  BY StepSimulates DEF Simulates, RR!rvars
<1>3. Fenced => []Fenced
  <2>1. Fenced => Fenced'
    BY DEF Fenced
  <2> QED BY <2>1, PTL
<1>4. Fenced /\ Spec => []Inv
  BY Invariance
<1> QED BY <1>1, <1>2, <1>3, <1>4, PTL DEF Spec, Implements, RR!RRSpec
====
