---- MODULE Sched ----
(***************************************************************************)
(* Threads and the scheduler: kernel/sched/sched.c, kernel/thread/thread.c,*)
(* include/klib/list.h, cpu_switch_context.asm, thread_trampoline.asm and  *)
(* the timer interrupt that drives them (lapic_timer.c, timer.c), on the   *)
(* one processor the kernel uses.                                          *)
(*                                                                         *)
(* A context is a stack: the frames of the calls in progress. A list       *)
(* operation is the sequence of its pointer stores, made one per step, so  *)
(* that a tick can fall between any two while interrupts are enabled.      *)
(***************************************************************************)
EXTENDS Integers, Sequences, FiniteSets

CONSTANTS
  Main,                    \* the thread of kmain
  Workers,                 \* the threads kmain may create
  Program,                 \* what each worker's entry function does
  Overlap,                 \* may kmain start a thread while one that ends runs?
  LateTick,                \* may a tick be taken by a thread that is ending?
  Queue, NULL,             \* &ready_queue and the null pointer
  DEFAULT_TIME_SLICE,      \* ticks between two preemptions (10)
  Garbage                  \* values a field of fresh memory may hold

Programs == {"returns", "sleeps", "sleeps_and_returns", "spins"}

ASSUME SchedAssumption ==
  /\ IsFiniteSet(Workers) /\ Main \notin Workers /\ Queue # NULL
  /\ {Queue, NULL} \cap (Workers \cup {Main}) = {}
  /\ Program \in [Workers -> Programs]
  /\ Overlap \in BOOLEAN /\ LateTick \in BOOLEAN
  /\ DEFAULT_TIME_SLICE \in Nat \ {0} /\ Garbage \subseteq Nat

VARIABLES
  next, prev,              \* the links of ready_queue and of every sched_node
  state,                   \* thread_t.state ("UNUSED" before thread_create)
  slice,                   \* thread_t.time_slice
  rsp,                     \* thread_t.rsp: the context saved there
  current_thread,
  cpu,                     \* the context the processor is executing
  intr,                    \* RFLAGS.IF
  panic                    \* an exception has halted the kernel

vars == <<next, prev, state, slice, rsp, current_thread, cpu, intr, panic>>

Threads == Workers \cup {Main}
Nodes == Threads \cup {Queue}
States == {"UNUSED", "NEW", "READY", "RUNNING", "TERMINATED"}

\* A frame: where it is, the locals of schedule(), the stores a list operation
\* has yet to make, and whether it returns by iret.
Frame(pc, isr) == [pc |-> pc, old |-> NULL, next |-> NULL, stores |-> <<>>,
                   isr |-> isr]
Fresh(t) == [on |-> t, frames |-> <<Frame("body", FALSE)>>]

Depth == Len(cpu.frames)
Top == cpu.frames[Depth]
At(pc) == ~panic /\ Top.pc = pc /\ Top.stores = <<>>
ReplaceTop(f) == [cpu EXCEPT !.frames[Depth] = f]
Push(c, f) == [c EXCEPT !.frames = Append(@, f)]

Init ==
  /\ next = [n \in Nodes |-> IF n = Queue THEN Main ELSE IF n = Main THEN Queue ELSE NULL]
  /\ prev = next
  /\ state = [t \in Threads |-> IF t = Main THEN "RUNNING" ELSE "UNUSED"]
  /\ slice = [t \in Threads |-> DEFAULT_TIME_SLICE]
  /\ rsp = [t \in Threads |-> Fresh(t)]
  /\ current_thread = Main
  /\ cpu = Fresh(Main)
  /\ intr = TRUE
  /\ panic = FALSE

(***************************************************************************)
(* klib/list.h                                                             *)
(***************************************************************************)
SetNext(n, v) == [field |-> "next", node |-> n, value |-> v]
SetPrev(n, v) == [field |-> "prev", node |-> n, value |-> v]

\* Mutant: the node goes first.
list_add(n, head) ==
  LET f == next[head] IN
  <<SetPrev(f, n), SetNext(n, f), SetPrev(n, head), SetNext(head, n)>>

list_add_tail(n, head) ==
  LET p == prev[head] IN
  <<SetPrev(head, n), SetNext(n, head), SetPrev(n, p), SetNext(p, n)>>

\* Mutants: the node is cleared before its links are used; the node before is
\* not relinked.
list_del_cleared(n) ==
  <<SetNext(n, NULL), SetPrev(n, NULL), SetPrev(NULL, NULL), SetNext(NULL, NULL)>>
list_del_half(n) ==
  <<SetPrev(next[n], prev[n]), SetNext(n, NULL), SetPrev(n, NULL)>>

list_del(n) ==
  <<SetPrev(next[n], prev[n]), SetNext(prev[n], next[n]),
    SetNext(n, NULL), SetPrev(n, NULL)>>

list_empty(n) == next[n] = n
list_is_singular(head) == ~list_empty(head) /\ next[head] = prev[head]

\* One store of a list operation in progress; a store through NULL is a page
\* fault, which panics the kernel.
Store ==
  /\ ~panic /\ Top.stores # <<>>
  /\ LET s == Head(Top.stores) IN
     /\ panic' = (s.node = NULL)
     /\ next' = IF s.field = "next" /\ s.node # NULL
                THEN [next EXCEPT ![s.node] = s.value] ELSE next
     /\ prev' = IF s.field = "prev" /\ s.node # NULL
                THEN [prev EXCEPT ![s.node] = s.value] ELSE prev
  /\ cpu' = ReplaceTop([Top EXCEPT !.stores = Tail(@)])
  /\ UNCHANGED <<state, slice, rsp, current_thread, intr>>

(***************************************************************************)
(* schedule(), called by a thread that ends and by the timer interrupt.    *)
(***************************************************************************)

\* Mutant: the interrupt's frame is left by ret.
ReturnWithoutIret ==
  /\ cpu' = [cpu EXCEPT !.frames = SubSeq(@, 1, Depth - 1)]
  /\ UNCHANGED <<next, prev, state, slice, rsp, current_thread, intr, panic>>

\* Leave the top frame; an interrupt's frame leaves by iret, which enables
\* interrupts again (it was taken because they were).
Return ==
  /\ cpu' = [cpu EXCEPT !.frames = SubSeq(@, 1, Depth - 1)]
  /\ intr' = (intr \/ Top.isr)
  /\ UNCHANGED <<next, prev, state, slice, rsp, current_thread, panic>>

PageFault ==
  /\ panic' = TRUE
  /\ UNCHANGED <<next, prev, state, slice, rsp, current_thread, cpu, intr>>

schedule ==
  /\ At("schedule")
  /\ LET old == current_thread
         ended == state[old] = "TERMINATED"
     IN
     IF list_empty(Queue) \/ (~ended /\ list_is_singular(Queue))
     THEN Return
     ELSE /\ cpu' = ReplaceTop([Top EXCEPT !.pc = "pick", !.old = old,
                                  !.next = next[old],
                                  !.stores = IF ended THEN list_del(old) ELSE <<>>])
          /\ UNCHANGED <<next, prev, state, slice, rsp, current_thread, intr, panic>>

\* The head of the list is no thread: skip it.
SkipHead(node) == IF node = Queue THEN next[Queue] ELSE node

\* The second half: make the thread chosen current.
pick ==
  /\ At("pick")
  /\ LET node == SkipHead(Top.next) IN
     IF node = Queue \/ node = Top.old THEN Return
     ELSE IF node = NULL THEN PageFault
     ELSE /\ current_thread' = node
          /\ cpu' = ReplaceTop([Top EXCEPT !.pc = "switch", !.next = node])
          /\ UNCHANGED <<next, prev, state, slice, rsp, intr, panic>>

\* Mutant: the stack is saved in current_thread, already the next thread.
cpu_switch_context_current ==
  /\ At("switch")
  /\ rsp' = [rsp EXCEPT ![current_thread] = ReplaceTop([Top EXCEPT !.pc = "return"])]
  /\ cpu' = rsp[Top.next]
  /\ UNCHANGED <<next, prev, state, slice, current_thread, intr, panic>>

\* The stack in use is saved in old_thread->rsp, whoever's stack it is, and
\* next_thread's is loaded. RFLAGS is not part of a context: a thread that
\* runs for the first time inherits the interrupt flag of the switch.
cpu_switch_context ==
  /\ At("switch")
  /\ rsp' = [rsp EXCEPT ![Top.old] = ReplaceTop([Top EXCEPT !.pc = "return"])]
  /\ cpu' = rsp[Top.next]
  /\ UNCHANGED <<next, prev, state, slice, current_thread, intr, panic>>

return_from_schedule == At("return") /\ Return

(***************************************************************************)
(* The timer interrupt: lapic_timer_irq_handler acknowledges it and calls  *)
(* sched_on_tick through timer_tick_event, with interrupts disabled. A     *)
(* thread halted in sleep_ms is woken by any tick.                         *)
(***************************************************************************)
\* Mutant: a trap gate, which leaves the interrupt flag alone.
trap_gate == UNCHANGED intr
interrupt_gate == intr' = FALSE

Woken(f) == IF f.pc = "hlt" THEN [f EXCEPT !.pc = "body"] ELSE f

sched_on_tick ==
  /\ ~panic /\ intr
  /\ LateTick \/ state[cpu.on] # "TERMINATED"
  /\ LET t == current_thread
         left == IF slice[t] > 0 THEN slice[t] - 1 ELSE 0
         interrupted == ReplaceTop(Woken(Top))
     IN
     IF left > 0
     THEN /\ slice' = [slice EXCEPT ![t] = left]
          /\ cpu' = interrupted
          /\ UNCHANGED intr
     ELSE /\ slice' = [slice EXCEPT ![t] = DEFAULT_TIME_SLICE]
          /\ cpu' = Push(interrupted, Frame("schedule", TRUE))
          /\ interrupt_gate
  /\ UNCHANGED <<next, prev, state, rsp, current_thread, panic>>

(***************************************************************************)
(* A worker: its entry function, and the return to thread_entry_wrapper.   *)
(***************************************************************************)
WorkerAt(pc) == At(pc) /\ cpu.on \in Workers

\* Mutant: hlt without sti.
halt == UNCHANGED intr
halt_sti == intr' = TRUE

\* sleep_ms halts with "sti; hlt" until enough ticks have passed.
sleep_ms ==
  /\ WorkerAt("body") /\ Program[cpu.on] \in {"sleeps", "sleeps_and_returns"}
  /\ cpu' = ReplaceTop([Top EXCEPT !.pc = "hlt"])
  /\ halt_sti
  /\ UNCHANGED <<next, prev, state, slice, rsp, current_thread, panic>>

\* thread_terminate(get_current_thread()), up to the call of schedule().
thread_terminate ==
  /\ WorkerAt("body") /\ Program[cpu.on] \in {"returns", "sleeps_and_returns"}
  /\ state' = [state EXCEPT ![current_thread] = "TERMINATED"]
  /\ cpu' = ReplaceTop([Top EXCEPT !.pc = "terminated"])
  /\ UNCHANGED <<next, prev, slice, rsp, current_thread, intr, panic>>

terminate_calls_schedule ==
  /\ WorkerAt("terminated")
  /\ cpu' = Push(ReplaceTop([Top EXCEPT !.pc = "trampoline"]),
                 Frame("schedule", FALSE))
  /\ UNCHANGED <<next, prev, state, slice, rsp, current_thread, intr, panic>>

(***************************************************************************)
(* kmain: creates, starts and destroys workers between its keystrokes.     *)
(***************************************************************************)
KmainReady == At("body") /\ cpu.on = Main

thread_create(t) ==
  /\ KmainReady /\ state[t] = "UNUSED"
  /\ \E g \in Garbage : slice' = [slice EXCEPT ![t] = g]   \* never initialised
  /\ rsp' = [rsp EXCEPT ![t] = Fresh(t)]
  /\ state' = [state EXCEPT ![t] = "NEW"]
  /\ next' = [next EXCEPT ![t] = t]
  /\ prev' = [prev EXCEPT ![t] = t]
  /\ UNCHANGED <<current_thread, cpu, intr, panic>>

Ends(t) == Program[t] \in {"returns", "sleeps_and_returns"}

thread_start(t) ==
  /\ KmainReady /\ state[t] # "UNUSED"
  /\ Overlap \/ \A u \in Workers \ {t} : state[u] = "READY" => ~Ends(u)
  /\ LET again == state[t] = "TERMINATED" IN
     /\ rsp' = IF again THEN [rsp EXCEPT ![t] = Fresh(t)] ELSE rsp
     /\ next' = IF again THEN [next EXCEPT ![t] = t] ELSE next
     /\ prev' = IF again THEN [prev EXCEPT ![t] = t] ELSE prev
     /\ cpu' = IF again \/ list_empty(t)
               THEN ReplaceTop([Top EXCEPT !.stores = list_add_tail(t, Queue)])
               ELSE cpu
  /\ state' = [state EXCEPT ![t] = "READY"]
  /\ UNCHANGED <<slice, current_thread, intr, panic>>

thread_destroy(t) ==
  /\ KmainReady /\ state[t] \in {"NEW", "TERMINATED"}
  /\ state' = [state EXCEPT ![t] = "UNUSED"]
  /\ UNCHANGED <<next, prev, slice, rsp, current_thread, cpu, intr, panic>>

Kmain == \E t \in Workers : thread_create(t) \/ thread_start(t) \/ thread_destroy(t)
Worker == sleep_ms \/ thread_terminate \/ terminate_calls_schedule
Kernel == Store \/ schedule \/ pick \/ cpu_switch_context \/ return_from_schedule

Next == Kernel \/ sched_on_tick \/ Worker \/ Kmain

Spec == Init /\ [][Next]_vars

\* With interrupts disabled the processor simply goes on; with interrupts
\* enabled, a tick comes once in a millisecond, so a thread that gets the
\* processor again and again makes progress between ticks, in an interrupt's
\* frame or in its own. The timer goes on ticking.
Step == Kernel \/ Worker
Fairness ==
  /\ WF_vars(~intr /\ Step) /\ WF_vars(sched_on_tick)
  /\ \A t \in Threads : SF_vars(cpu.on = t /\ intr /\ Step)
FairSpec == Spec /\ Fairness

(***************************************************************************)
(* Properties                                                              *)
(***************************************************************************)
FrameOK(f) ==
  /\ f.pc \in {"body", "hlt", "terminated", "trampoline", "schedule", "pick",
              "switch", "return"}
  /\ f.old \in Threads \cup {NULL} /\ f.next \in Nodes \cup {NULL}
  /\ f.isr \in BOOLEAN
ContextOK(c) == c.on \in Threads /\ \A i \in DOMAIN c.frames : FrameOK(c.frames[i])

\* Type invariant. A stack holds at most the entry function, the schedule() of
\* its end, and one interrupt.
TypeOK ==
  /\ next \in [Nodes -> Nodes \cup {NULL}] /\ prev \in [Nodes -> Nodes \cup {NULL}]
  /\ state \in [Threads -> States]
  /\ slice \in [Threads -> Nat]
  /\ current_thread \in Threads
  /\ ContextOK(cpu) /\ \A t \in Threads : ContextOK(rsp[t])
  /\ Depth \in 1 .. 3
  /\ intr \in BOOLEAN /\ panic \in BOOLEAN

\* No thread makes the kernel follow a null link or fall off the end of
\* thread_trampoline, where nothing follows the call of the wrapper: a terminated
\* thread is removed from the ready queue and the next thread selected, once.
NoFault == ~panic /\ Top.pc # "trampoline"

\* The threads met by following the links from the head of ready_queue to the
\* head again; none, if they do not lead back.
RingOf(links) ==
  LET last == Cardinality(Nodes)
      hop[i \in 1 .. last] ==
        IF i = 1 THEN links[Queue]
        ELSE LET n == hop[i - 1] IN IF n \in {Queue, NULL} THEN n ELSE links[n]
      back == {i \in 1 .. last : hop[i] = Queue}
  IN  IF back = {} THEN <<>>
      ELSE LET lap == CHOOSE i \in back : \A j \in back : i <= j
           IN  [i \in 1 .. lap - 1 |-> hop[i]]
Ring == RingOf(next)
Queued == LET r == Ring IN {r[i] : i \in DOMAIN r}

\* The list operations in progress, on whatever stack.
Pending(c) == \E i \in DOMAIN c.frames : c.frames[i].stores # <<>>
Quiet == ~Pending(cpu) /\ \A t \in Threads \ {cpu.on} : ~Pending(rsp[t])

\* Whenever no list operation is in progress, the ready queue is a circular
\* doubly linked list: every link is matched by the link back.
Circular == Quiet =>
  \A n \in Queued \cup {Queue} :
    next[n] \in Nodes /\ prev[next[n]] = n /\ prev[n] \in Nodes /\ next[prev[n]] = n

\* The threads that were started and have not ended.
Started == {t \in Threads : state[t] \in {"READY", "RUNNING"}}

\* The nodes of S are linked in one ring: the links forward and back are each
\* other's inverse on S, and following them from anywhere meets all of S.
IsRing(S, forward, back) ==
  /\ \A n \in S : /\ forward[n] \in S /\ back[forward[n]] = n
                  /\ back[n] \in S /\ forward[back[n]] = n
  /\ \A part \in SUBSET S :
       part # {} /\ (\A n \in part : forward[n] \in part) => part = S

\* Whenever no list operation is in progress, ready_queue and the threads that
\* were started and have not ended are one ring, which nothing else is in but
\* a thread that is ending.
QueueExact == Quiet =>
  \E ending \in SUBSET {cpu.on} : IsRing({Queue} \cup Started \cup ending, next, prev)

\* The processor runs the current thread's stack, except between the two
\* halves of a switch, and every other thread that was started and has not
\* ended has its own stack saved, at its start or inside schedule().
OwnStacks ==
  /\ cpu.on = IF Top.pc = "switch" THEN Top.old ELSE current_thread
  /\ \A t \in Started \ {cpu.on} :
       /\ rsp[t].on = t
       /\ rsp[t] = Fresh(t) \/ rsp[t].frames[Len(rsp[t].frames)].pc = "return"

\* kmain never runs with interrupts disabled, whoever it was resumed by: a thread
\* that never slept ends with them disabled, but kmain was left inside an interrupt
\* and its iret enables them. The comment at main.c:23 says that keyboard input does
\* not work after such a thread; the code here gives no reason why it should not.
KmainInterruptible == KmainReady => intr

\* The scheduler is preemptive: kmain gets the processor again and again,
\* whatever the other threads do.
KmainKeepsRunning == []<>(KmainReady)

\* A thread in the ready queue gets the processor, or leaves the queue.
EveryoneRuns == \A t \in Workers : t \in Queued ~> (cpu.on = t \/ t \notin Queued)

\* sched.c implements RoundRobin: the links are the ring, the stack in use is
\* the thread running, and the node read before list_del is the heir.
Heir == IF cpu.on \in Queued THEN NULL ELSE SkipHead(Top.next)
RR == INSTANCE RoundRobin WITH ring <- Ring, cur <- cpu.on, heir <- Heir, None <- NULL
Implements == RR!RRSpec
====
