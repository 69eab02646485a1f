---- MODULE Keyboard ----
(***************************************************************************)
(* The keyboard driver, drivers/keyboard.c: the interrupt handler that     *)
(* turns scancodes into characters, and keyboard_getchar, which any number *)
(* of threads may be inside. The two share a pool of events on two lists   *)
(* and have nothing but the interrupt flag to keep apart.                  *)
(*                                                                         *)
(* The keyboard itself (the user's hands, typematic repeat, the buffer in  *)
(* front of port 0x60) is the environment. The thread switch is that of    *)
(* Sched, seen from here: any other reader, whenever a tick can be taken.  *)
(***************************************************************************)
EXTENDS Integers, Sequences, FiniteSets

CONSTANTS
  KBD_BUFFER_SIZE,         \* events in kbd_pool (128)
  Letters, Modifiers,      \* keys with a character; keys without one (Ctrl)
  Shifts, Caps, Esc,       \* scancodes 0x2A and 0x36, 0x3A, 0x01
  Repeating,               \* the keys the user holds until they repeat
  WireSize,                \* scancodes the keyboard can hold back
  Fingers,                 \* bound: keys the user holds at a time
  Readers,                 \* threads that call keyboard_getchar
  None

Events == 1 .. KBD_BUFFER_SIZE      \* kbd_pool
Keys == Letters \cup Modifiers \cup Shifts \cup {Caps, Esc}
Chars == [key : Letters, upper : BOOLEAN]

ASSUME KeyboardAssumption ==
  /\ Letters \cap Modifiers = {} /\ (Letters \cup Modifiers) \cap Shifts = {}
  /\ Caps # Esc /\ {Caps, Esc} \cap (Letters \cup Modifiers \cup Shifts) = {}
  /\ Repeating \subseteq Keys /\ WireSize \in Nat \ {0}
  /\ KBD_BUFFER_SIZE \in Nat \ {0} /\ Letters # {}
  /\ None \notin Events \cup Keys \cup Chars

VARIABLES
  kbd_free_list, kbd_pending_list,     \* sequences of events
  evt,                                 \* kbd_event.c of each event
  shift_pressed, caps_lock, scancode_down,
  intr,                                \* RFLAGS.IF: "off" or "on"
  pc, node, c,                         \* keyboard_getchar of each reader
  running,                             \* the reader that has the processor
  panic,
  held, repeats, capsOn, wire,         \* the user and the keyboard
  meant                                \* history: the case the user typed

driver == <<kbd_free_list, kbd_pending_list, evt, shift_pressed, caps_lock,
            scancode_down, meant>>
reader == <<pc, node, c, running>>
keyboard == <<held, repeats, capsOn, wire>>
vars == <<driver, reader, keyboard, intr, panic>>

Init ==
  /\ kbd_free_list = [i \in Events |-> i] /\ kbd_pending_list = <<>>
  /\ evt \in [Events -> {[key |-> CHOOSE k \in Letters : TRUE, upper |-> FALSE]}]
  /\ meant = [e \in Events |-> FALSE]
  /\ shift_pressed = FALSE /\ caps_lock = FALSE
  /\ scancode_down = [k \in Letters \cup Modifiers |-> FALSE]
  /\ intr = "on" /\ panic = FALSE
  /\ pc = [p \in Readers |-> "cli"] /\ running \in Readers
  /\ node = [p \in Readers |-> None] /\ c = [p \in Readers |-> None]
  /\ held = {} /\ repeats = None /\ capsOn = FALSE /\ wire = <<>>

(***************************************************************************)
(* The user and the keyboard. A make code is sent when a key goes down and *)
(* again while it repeats, which only the last key pressed does; a break   *)
(* code when it goes up. A user who outruns the keyboard's own buffer is   *)
(* left out: the buffer never overflows.                                   *)
(***************************************************************************)
Code(k, make, first) ==
  [key |-> k, make |-> make, first |-> first,
   upper |-> (held \cap Shifts # {}) # capsOn]

Room == Len(wire) < WireSize /\ ~panic

Press(k) ==
  /\ Room /\ k \notin held /\ Cardinality(held) < Fingers
  /\ held' = held \cup {k} /\ repeats' = k
  /\ capsOn' = (capsOn # (k = Caps))
  /\ wire' = Append(wire, Code(k, TRUE, TRUE))
  /\ UNCHANGED <<driver, reader, intr, panic>>

Repeat ==
  /\ Room /\ repeats \in Repeating
  /\ wire' = Append(wire, Code(repeats, TRUE, FALSE))
  /\ UNCHANGED <<driver, reader, intr, panic, held, repeats, capsOn>>

Release(k) ==
  /\ Room /\ k \in held
  /\ held' = held \ {k} /\ repeats' = IF repeats = k THEN None ELSE repeats
  /\ wire' = Append(wire, Code(k, FALSE, FALSE))
  /\ UNCHANGED <<driver, reader, intr, panic, capsOn>>

User == Repeat \/ \E k \in Keys : Press(k) \/ Release(k)

(***************************************************************************)
(* keyboard_irq_handler. Interrupts stay disabled in it (interrupt gate),  *)
(* so it is one step; it is taken between two instructions with IF set.    *)
(***************************************************************************)

\* Mutant: a key that is down is not remembered.
forget_make(code) == UNCHANGED scancode_down
set_scancode_down(code) == scancode_down' = [scancode_down EXCEPT ![code.key] = code.make]

\* Mutant: a shifted letter stays upper case under caps lock.
shift_or_caps == shift_pressed \/ caps_lock
shift_xor_caps == shift_pressed # caps_lock

\* The character of a scancode in the two tables, None where they have 0.
ascii(code) ==
  IF code.key \in Letters THEN [key |-> code.key, upper |-> shift_xor_caps] ELSE None

\* Mutant: the last character typed is the first read.
list_add(list, e) == <<e>> \o list
list_add_tail(list, e) == Append(list, e)

\* Mutant: a key without a character (0 in the tables) is stored too.
store_any(ch) == kbd_free_list # <<>>
can_store(ch) == ch # None /\ kbd_free_list # <<>>

store_char(code) ==
  LET ch == ascii(code)
      e == Head(kbd_free_list)
  IN
  IF can_store(ch)
  THEN /\ kbd_free_list' = Tail(kbd_free_list)
       /\ evt' = [evt EXCEPT ![e] = ch]
       /\ meant' = [meant EXCEPT ![e] = code.upper]
       /\ kbd_pending_list' = list_add_tail(kbd_pending_list, e)
  ELSE UNCHANGED <<kbd_free_list, evt, meant, kbd_pending_list>>

set_shift(code) == shift_pressed' = code.make

lists == <<kbd_free_list, kbd_pending_list, evt, meant>>

keyboard_process_scancode(code) ==
  CASE code.key \in Shifts ->
         set_shift(code) /\ UNCHANGED <<lists, caps_lock, scancode_down>>
    [] code.key = Caps ->
         \* its break code clears an entry nothing reads
         /\ caps_lock' = (caps_lock # code.make)
         /\ UNCHANGED <<lists, shift_pressed, scancode_down>>
    [] code.key \in Letters \cup Modifiers ->
         /\ set_scancode_down(code)
         /\ UNCHANGED <<shift_pressed, caps_lock>>
         /\ IF code.make /\ ~scancode_down[code.key]
            THEN store_char(code)
            ELSE UNCHANGED lists
    [] OTHER -> UNCHANGED <<lists, shift_pressed, caps_lock, scancode_down>>

keyboard_irq_handler ==
  /\ ~panic /\ intr = "on" /\ wire # <<>>
  /\ LET code == Head(wire) IN
     IF code.key = Esc /\ code.make
     THEN panic' = TRUE /\ UNCHANGED driver
     ELSE keyboard_process_scancode(code) /\ UNCHANGED panic
  /\ wire' = Tail(wire)
  /\ UNCHANGED <<reader, intr, held, repeats, capsOn>>

(***************************************************************************)
(* keyboard_getchar, an instruction that matters at a time.                *)
(***************************************************************************)
Goto(p, from, to) ==
  /\ ~panic /\ running = p /\ pc[p] = from
  /\ pc' = [pc EXCEPT ![p] = to]
  /\ UNCHANGED <<running, keyboard, evt, meant, shift_pressed, caps_lock, scancode_down>>

\* Mutant: cli is left out.
no_cli == UNCHANGED intr
cli == intr' = "off"

\* enable_interrupts is a function of another file: the instruction that sti
\* still shields is its ret, and the pause of a retry is after it.
sti == intr' = "on"

disable_interrupts(p) ==
  /\ Goto(p, "cli", "check")
  /\ cli
  /\ UNCHANGED <<kbd_free_list, kbd_pending_list, node, c, panic>>

check(p) ==
  /\ IF kbd_pending_list # <<>>
     THEN Goto(p, "check", "unlink") /\ node' = [node EXCEPT ![p] = Head(kbd_pending_list)]
     ELSE Goto(p, "check", "sti_retry") /\ UNCHANGED node
  /\ UNCHANGED <<intr, kbd_free_list, kbd_pending_list, c, panic>>

\* An event is on a list; a list without an event that is on it once.
On(list, e) == \E i \in DOMAIN list : list[i] = e
Without(list, e) ==
  LET at == CHOOSE i \in DOMAIN list : list[i] = e
  IN  IF On(list, e) THEN [i \in 1 .. Len(list) - 1 |-> list[IF i < at THEN i ELSE i + 1]]
      ELSE list

\* list_del unlinks the node from the list it is on; on none, its links are
\* null and the kernel faults.
unlink(p) ==
  /\ Goto(p, "unlink", "read")
  /\ kbd_free_list' = Without(kbd_free_list, node[p])
  /\ kbd_pending_list' = Without(kbd_pending_list, node[p])
  /\ panic' = ~(On(kbd_free_list, node[p]) \/ On(kbd_pending_list, node[p]))
  /\ UNCHANGED <<intr, node, c>>

read(p) ==
  /\ Goto(p, "read", "put_back")
  /\ c' = [c EXCEPT ![p] = evt[node[p]]]
  /\ UNCHANGED <<intr, kbd_free_list, kbd_pending_list, node, panic>>

put_back(p) ==
  /\ Goto(p, "put_back", "sti")
  /\ kbd_free_list' = Append(kbd_free_list, node[p])
  /\ node' = [node EXCEPT ![p] = None]
  /\ UNCHANGED <<intr, kbd_pending_list, c, panic>>

\* Mutant: only a reader that has found an event enables them again.
enable_if_found(p) ==
  /\ \/ Goto(p, "sti", "return") /\ sti
     \/ Goto(p, "sti_retry", "cli") /\ UNCHANGED intr
  /\ UNCHANGED <<kbd_free_list, kbd_pending_list, node, c, panic>>
enable_interrupts(p) ==
  /\ Goto(p, "sti", "return") \/ Goto(p, "sti_retry", "cli")
  /\ sti
  /\ UNCHANGED <<kbd_free_list, kbd_pending_list, node, c, panic>>

return(p) ==
  /\ Goto(p, "return", "cli")
  /\ c' = [c EXCEPT ![p] = None]
  /\ UNCHANGED <<intr, kbd_free_list, kbd_pending_list, node, panic>>

keyboard_getchar(p) ==
  \/ disable_interrupts(p) \/ check(p) \/ unlink(p) \/ read(p) \/ put_back(p)
  \/ enable_interrupts(p) \/ return(p)

\* A timer tick gives the processor to another reader.
preempt ==
  /\ ~panic /\ intr = "on"
  /\ running' \in Readers \ {running}
  /\ UNCHANGED <<driver, pc, node, c, keyboard, intr, panic>>

Halted == panic /\ UNCHANGED vars

Getchar == \E p \in Readers : keyboard_getchar(p)
Next == User \/ keyboard_irq_handler \/ Getchar \/ preempt \/ Halted

Spec == Init /\ [][Next]_vars

\* The processor goes on executing whichever reader runs, and takes the
\* keyboard's interrupt when it is pending and recognised again and again.
\* Nothing is assumed of the user, nor of the scheduler.
FairSpec == Spec /\ WF_vars(Getchar) /\ SF_vars(keyboard_irq_handler)

(***************************************************************************)
(* Properties                                                              *)
(***************************************************************************)

\* Type invariant: an event holds a character of the tables, never the 0 of a
\* key without one.
TypeOK ==
  /\ kbd_free_list \in Seq(Events) /\ kbd_pending_list \in Seq(Events)
  /\ evt \in [Events -> Chars] /\ meant \in [Events -> BOOLEAN]
  /\ shift_pressed \in BOOLEAN /\ caps_lock \in BOOLEAN
  /\ scancode_down \in [Letters \cup Modifiers -> BOOLEAN]
  /\ intr \in {"off", "on"} /\ panic \in BOOLEAN
  /\ pc \in [Readers -> {"cli", "check", "unlink", "read", "put_back", "sti",
                         "return", "sti_retry"}]
  /\ node \in [Readers -> Events \cup {None}] /\ c \in [Readers -> Chars \cup {None}]
  /\ running \in Readers
  /\ wire \in Seq([key : Keys, make : BOOLEAN, first : BOOLEAN, upper : BOOLEAN])
  /\ held \subseteq Keys /\ repeats \in Keys \cup {None} /\ capsOn \in BOOLEAN

\* Each event is in one place, once: free, pending, or taken by a single reader,
\* the one between list_del and list_add_tail; two readers never unlink the
\* same event.
Taken == {p \in Readers : pc[p] \in {"read", "put_back"}}
Once(list) == \A i, j \in DOMAIN list : list[i] = list[j] => i = j
PoolExact ==
  /\ Once(kbd_free_list) /\ Once(kbd_pending_list)
  /\ \A p, q \in Taken : node[p] = node[q] => p = q
  /\ \A e \in Events :
       LET free == On(kbd_free_list, e)
           pending == On(kbd_pending_list, e)
           taken == \E p \in Taken : node[p] = e
       IN  (free \/ pending \/ taken) /\ ~(free /\ pending) /\ ~(free /\ taken) /\ ~(pending /\ taken)

\* Every character waiting has the case the user typed: that of shift and caps
\* lock at the press, however late the interrupt came. (With one shift key,
\* and caps lock not held until it repeats.)
Meant == \A i \in DOMAIN kbd_pending_list :
  LET e == kbd_pending_list[i] IN evt[e].upper = meant[e]

\* A character is typed by a press, once, and never by a key that repeats; and
\* a press is lost only when KBD_BUFFER_SIZE characters wait to be read.
OncePerPress == [][
  LET code == Head(wire) IN
  keyboard_irq_handler =>
    (Len(kbd_pending_list') = Len(kbd_pending_list) + 1
       <=> code.first /\ code.key \in Letters /\ Len(kbd_pending_list) < KBD_BUFFER_SIZE)]_vars

\* The driver implements the queue of characters: pending events are the
\* queue; a reader has its character from list_del on.
Q == INSTANCE CharQueue WITH
       Size <- KBD_BUFFER_SIZE,
       queue <- [i \in DOMAIN kbd_pending_list |-> evt[kbd_pending_list[i]]],
       got <- [p \in Readers |-> IF pc[p] = "read" THEN evt[node[p]] ELSE c[p]]
Implements == Q!QSpec

\* Every character is read in the end, whoever the readers are and however the
\* processor goes from one to another, unless ESC has halted the kernel.
EveryCharRead == \A e \in Events :
  On(kbd_pending_list, e) ~> (panic \/ ~On(kbd_pending_list, e))

\* The keyboard is never held up for ever: readers that poll leave a gap for
\* its interrupt.
KeyboardServed == (Len(wire) = WireSize) ~> (panic \/ Len(wire) < WireSize)
====
