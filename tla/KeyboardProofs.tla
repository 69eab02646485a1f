---- MODULE KeyboardProofs ----
(***************************************************************************)
(* Proofs about Keyboard for every size of the pool, every set of keys and *)
(* any number of readers: that the interrupt flag is enough to keep the    *)
(* readers and the interrupt handler apart.                                *)
(***************************************************************************)
EXTENDS Keyboard, SequenceTheorems, TLAPS

(***************************************************************************)
(* Lists                                                                   *)
(***************************************************************************)

\* list_add_tail adds one event, behind all others.
LEMMA AppendFacts ==
  ASSUME NEW S, NEW list \in Seq(S), NEW e \in S
  PROVE  /\ Append(list, e) \in Seq(S)
         /\ \A x : On(Append(list, e), x) <=> On(list, x) \/ x = e
         /\ Once(list) /\ ~On(list, e) => Once(Append(list, e))
<1> DEFINE new == Append(list, e)
<1>1. new \in Seq(S) /\ DOMAIN new = 1 .. Len(list) + 1 /\ DOMAIN list = 1 .. Len(list)
      /\ Len(list) \in Nat
  OBVIOUS
<1>2. \A i \in 1 .. Len(list) : new[i] = list[i]
  OBVIOUS
<1>3. new[Len(list) + 1] = e
  OBVIOUS
<1> HIDE DEF new
<1>4. \A x : On(new, x) <=> On(list, x) \/ x = e
  BY <1>1, <1>2, <1>3 DEF On
<1>5. Once(list) /\ ~On(list, e) => Once(new)
  BY <1>1, <1>2, <1>3 DEF On, Once
<1> QED BY <1>1, <1>4, <1>5 DEF new

\* Taking the first event off a list takes that event and no other.
LEMMA TailFacts ==
  ASSUME NEW S, NEW list \in Seq(S), list # <<>>
  PROVE  /\ Head(list) \in S /\ Tail(list) \in Seq(S) /\ Len(Tail(list)) = Len(list) - 1
         /\ On(list, Head(list))
         /\ \A x : On(list, x) <=> x = Head(list) \/ On(Tail(list), x)
         /\ Once(list) => Once(Tail(list)) /\ ~On(Tail(list), Head(list))
<1> DEFINE rest == Tail(list)
<1>1. /\ Len(list) \in Nat /\ Len(list) >= 1 /\ DOMAIN list = 1 .. Len(list)
      /\ rest \in Seq(S) /\ Len(rest) = Len(list) - 1 /\ DOMAIN rest = 1 .. Len(list) - 1
      /\ Head(list) = list[1] /\ list[1] \in S
  OBVIOUS
<1>2. \A i \in 1 .. Len(list) - 1 : rest[i] = list[i + 1]
  OBVIOUS
<1> HIDE DEF rest
<1>3. On(list, Head(list))
  BY <1>1 DEF On
<1>4. \A x : On(rest, x) => On(list, x)
  <2>1. \A i \in 1 .. Len(list) - 1 : i + 1 \in 1 .. Len(list)
    BY <1>1
  <2> QED BY <1>1, <1>2, <2>1 DEF On
<1>5. \A x : On(list, x) => x = Head(list) \/ On(rest, x)
  <2> SUFFICES ASSUME NEW i \in 1 .. Len(list), i # 1 PROVE On(rest, list[i])
    BY <1>1 DEF On
  <2>1. i - 1 \in 1 .. Len(list) - 1 /\ (i - 1) + 1 = i
    BY <1>1
  <2>2. rest[i - 1] = list[i]
    BY <1>2, <2>1
  <2> QED BY <1>1, <2>1, <2>2 DEF On
<1>6. ASSUME Once(list) PROVE Once(rest) /\ ~On(rest, Head(list))
  <2>1. \A i \in 1 .. Len(list) - 1 : i + 1 \in 1 .. Len(list) /\ i + 1 # 1
    BY <1>1
  <2>2. \A i, j \in 1 .. Len(list) - 1 : i + 1 = j + 1 => i = j
    BY <1>1
  <2>3. Once(rest)
    BY <1>1, <1>2, <1>6, <2>1, <2>2 DEF Once
  <2>4. ASSUME NEW i \in 1 .. Len(list) - 1 PROVE rest[i] # Head(list)
    <3>1. list[i + 1] # list[1]
      BY <1>1, <1>6, <2>1 DEF Once
    <3> QED BY <1>1, <1>2, <3>1
  <2> QED BY <1>1, <2>3, <2>4 DEF On
<1> QED BY <1>1, <1>3, <1>4, <1>5, <1>6 DEF rest

\* list_del of the first event of a list leaves the rest, and a list the event
\* is not on is left alone.
LEMMA WithoutFacts ==
  ASSUME NEW S, NEW list \in Seq(S), NEW e
  PROVE  /\ ~On(list, e) => Without(list, e) = list
         /\ list # <<>> /\ Once(list) /\ e = Head(list) => Without(list, e) = Tail(list)
<1>1. ~On(list, e) => Without(list, e) = list
  BY DEF Without
<1>2. ASSUME list # <<>>, Once(list), e = Head(list)
      PROVE  Without(list, e) = Tail(list)
  <2> DEFINE at == CHOOSE i \in DOMAIN list : list[i] = e
  <2>1. Len(list) \in Nat /\ Len(list) >= 1 /\ DOMAIN list = 1 .. Len(list) /\ list[1] = e
    BY <1>2
  <2>2. at \in DOMAIN list /\ list[at] = e
    BY <2>1
  <2>3. at = 1
    BY <1>2, <2>1, <2>2 DEF Once
  <2>4. Without(list, e) = [i \in 1 .. Len(list) - 1 |-> list[IF i < at THEN i ELSE i + 1]]
    BY <2>1 DEF Without, On
  <2> DEFINE shorter == [i \in 1 .. Len(list) - 1 |-> list[IF i < at THEN i ELSE i + 1]]
  <2> HIDE DEF at
  <2>5. \A i \in 1 .. Len(list) - 1 : shorter[i] = list[i + 1] /\ list[i + 1] \in S
    BY <2>1, <2>3
  <2>6. shorter \in Seq(S) /\ Len(shorter) = Len(list) - 1
    <3>1. DOMAIN shorter = 1 .. Len(list) - 1 /\ Len(list) - 1 \in Nat
      BY <2>1
    <3>2. shorter \in [1 .. Len(list) - 1 -> S]
      BY <2>5
    <3> QED BY <3>1, <3>2
  <2>7. /\ Tail(list) \in Seq(S) /\ Len(Tail(list)) = Len(list) - 1
        /\ \A i \in 1 .. Len(list) - 1 : Tail(list)[i] = list[i + 1]
    BY <1>2
  <2>8. shorter = Tail(list)
    <3>1. \A i \in 1 .. Len(shorter) : shorter[i] = Tail(list)[i]
      BY <2>5, <2>6, <2>7
    <3> HIDE DEF shorter
    <3> QED BY <2>6, <2>7, <3>1, SeqEqual
  <2> QED BY <2>4, <2>8
<1> QED BY <1>1, <1>2

(***************************************************************************)
(* The inductive invariant                                                 *)
(***************************************************************************)

\* From cli to sti a reader has the processor to itself.
Inside == {"check", "unlink", "read", "put_back", "sti", "sti_retry"}
Critical == \A p \in Readers : pc[p] \in Inside => running = p /\ intr = "off"

\* The event a reader is about to unlink is still the first that waits, and
\* the one it has unlinked is an event.
Selected == \A p \in Readers :
  /\ pc[p] = "unlink" => kbd_pending_list # <<>> /\ node[p] = Head(kbd_pending_list)
  /\ p \in Taken => node[p] \in Events

\* No event is lost.
Counted ==
  Len(kbd_free_list) + Len(kbd_pending_list) + (IF Taken = {} THEN 0 ELSE 1) = KBD_BUFFER_SIZE

\* A reader has a character from reading its event until it returns.
InHand == \A p \in Readers : c[p] # None <=> pc[p] \in {"put_back", "sti", "return"}

PoolInv == TypeOK /\ PoolExact /\ Critical /\ Selected /\ Counted /\ InHand

pool == <<kbd_free_list, kbd_pending_list, evt, meant>>
decoder == <<shift_pressed, caps_lock, scancode_down>>

LEMMA CharsAreSome == None \notin Events /\ None \notin Chars /\ None \notin Keys
BY KeyboardAssumption

LEMMA PoolInit == Init => PoolInv
<1> SUFFICES ASSUME Init PROVE PoolInv
  OBVIOUS
<1> USE KeyboardAssumption
<1>1. /\ kbd_free_list \in Seq(Events) /\ Len(kbd_free_list) = KBD_BUFFER_SIZE
      /\ DOMAIN kbd_free_list = Events /\ \A i \in Events : kbd_free_list[i] = i
      /\ kbd_pending_list = <<>> /\ kbd_pending_list \in Seq(Events)
  BY DEF Init, Events
<1>2. Taken = {}
  BY DEF Init, Taken
<1>3. TypeOK
  <2>1. evt \in [Events -> Chars]
    <3> DEFINE some == CHOOSE k \in Letters : TRUE
    <3>1. some \in Letters
      OBVIOUS
    <3>2. evt \in [Events -> {[key |-> some, upper |-> FALSE]}]
      BY DEF Init
    <3> HIDE DEF some
    <3>3. [key |-> some, upper |-> FALSE] \in Chars
      BY <3>1 DEF Chars
    <3> QED BY <3>2, <3>3
  <2>2. /\ meant \in [Events -> BOOLEAN] /\ scancode_down \in [Letters \cup Modifiers -> BOOLEAN]
        /\ node \in [Readers -> Events \cup {None}] /\ c \in [Readers -> Chars \cup {None}]
    BY DEF Init
  <2>3. wire \in Seq([key : Keys, make : BOOLEAN, first : BOOLEAN, upper : BOOLEAN])
    BY DEF Init
  <2>4. held \subseteq Keys /\ repeats \in Keys \cup {None} /\ capsOn \in BOOLEAN
    BY DEF Init
  <2>5. /\ shift_pressed \in BOOLEAN /\ caps_lock \in BOOLEAN /\ panic \in BOOLEAN
        /\ intr \in {"off", "on"} /\ running \in Readers
        /\ pc \in [Readers -> {"cli", "check", "unlink", "read", "put_back", "sti",
                               "return", "sti_retry"}]
    BY DEF Init
  <2> QED BY <1>1, <2>1, <2>2, <2>3, <2>4, <2>5 DEF TypeOK
<1>4. PoolExact
  <2>1. \A e \in Events : On(kbd_free_list, e)
    BY <1>1 DEF On
  <2>2. \A e \in Events : ~On(kbd_pending_list, e)
    BY <1>1 DEF On
  <2>3. Once(kbd_free_list) /\ Once(kbd_pending_list)
    BY <1>1 DEF Once
  <2> QED BY <1>2, <2>1, <2>2, <2>3 DEF PoolExact
<1>5. Critical /\ Selected /\ InHand
  BY <1>2 DEF Init, Critical, Selected, InHand, Inside
<1>6. Counted
  BY <1>1, <1>2 DEF Counted
<1> QED BY <1>3, <1>4, <1>5, <1>6 DEF PoolInv

\* While interrupts are enabled no reader holds an event, and a reader that has
\* disabled them is the only one inside.
LEMMA Alone ==
  ASSUME PoolInv
  PROVE  /\ intr # "off" => Taken = {} /\ \A p \in Readers : pc[p] \notin Inside
         /\ \A p \in Readers : pc[p] \in Inside => \A q \in Readers \ {p} : pc[q] \notin Inside
BY DEF PoolInv, Critical, Taken, Inside

(***************************************************************************)
(* The user and the interrupt                                              *)
(***************************************************************************)
Codes == [key : Keys, make : BOOLEAN, first : BOOLEAN, upper : BOOLEAN]

LEMMA UserKeeps ==
  ASSUME PoolInv, User
  PROVE  PoolInv'
<1> USE DEF PoolInv
<1>1. UNCHANGED <<driver, reader, intr, panic>>
  BY DEF User, Press, Repeat, Release
<1>2. /\ wire' \in Seq(Codes) /\ held' \subseteq Keys
      /\ repeats' \in Keys \cup {None} /\ capsOn' \in BOOLEAN
  <2> USE KeyboardAssumption, CharsAreSome DEF TypeOK, Codes
  <2>1. \A k \in Keys, m, f \in BOOLEAN : Code(k, m, f) \in Codes
    BY DEF Code
  <2>2. \A code \in Codes : Append(wire, code) \in Seq(Codes)
    OBVIOUS
  <2>3. ASSUME NEW k \in Keys, Press(k) PROVE <1>2!:
    BY <2>1, <2>2, <2>3 DEF Press
  <2>4. ASSUME NEW k \in Keys, Release(k) PROVE <1>2!:
    BY <2>1, <2>2, <2>4 DEF Release
  <2>5. ASSUME Repeat PROVE <1>2!:
    BY <2>1, <2>2, <2>5 DEF Repeat
  <2> QED BY <2>3, <2>4, <2>5 DEF User
<1>3. TypeOK'
  BY <1>1, <1>2 DEF TypeOK, driver, reader, Codes
<1>4. (PoolExact /\ Critical /\ Selected /\ Counted /\ InHand)'
  BY <1>1 DEF driver, reader, PoolExact, Critical, Selected, Counted, InHand, Taken, On, Once
<1> QED BY <1>3, <1>4

\* A character stored moves one event from the free list to the other.
LEMMA StoreKeeps ==
  ASSUME PoolInv, NEW code \in Codes, code.key \in Letters \cup Modifiers,
         Taken = {}, UNCHANGED reader, store_char(code)
  PROVE  /\ kbd_free_list' \in Seq(Events) /\ kbd_pending_list' \in Seq(Events)
         /\ evt' \in [Events -> Chars] /\ meant' \in [Events -> BOOLEAN]
         /\ PoolExact' /\ Counted'
<1> USE DEF PoolInv
<1>1. Taken' = {} /\ Taken = {}
  BY DEF reader, Taken
<1>2. CASE ~can_store(ascii(code))
  BY <1>1, <1>2 DEF store_char, TypeOK, PoolExact, Counted, Once, On
<1>3. CASE can_store(ascii(code))
  <2> DEFINE e == Head(kbd_free_list)
  <2>1. kbd_free_list # <<>> /\ ascii(code) \in Chars
    BY <1>3 DEF can_store, ascii, Chars, shift_xor_caps, TypeOK
  <2>2. /\ kbd_free_list' = Tail(kbd_free_list) /\ kbd_pending_list' = Append(kbd_pending_list, e)
        /\ evt' = [evt EXCEPT ![e] = ascii(code)] /\ meant' = [meant EXCEPT ![e] = code.upper]
    BY <1>3 DEF store_char, list_add_tail
  <2>3. kbd_free_list \in Seq(Events) /\ kbd_pending_list \in Seq(Events)
    BY DEF TypeOK
  <2>4. /\ e \in Events /\ kbd_free_list' \in Seq(Events) /\ Len(kbd_free_list') = Len(kbd_free_list) - 1
        /\ On(kbd_free_list, e) /\ ~On(kbd_free_list', e) /\ Once(kbd_free_list')
        /\ \A x : On(kbd_free_list, x) <=> x = e \/ On(kbd_free_list', x)
    BY <2>1, <2>2, <2>3, TailFacts DEF PoolExact
  <2> HIDE DEF e
  <2>5. ~On(kbd_pending_list, e)
    BY <2>4 DEF PoolExact
  <2>6. /\ kbd_pending_list' \in Seq(Events) /\ Len(kbd_pending_list') = Len(kbd_pending_list) + 1
        /\ Once(kbd_pending_list')
        /\ \A x : On(kbd_pending_list', x) <=> On(kbd_pending_list, x) \/ x = e
    BY <2>2, <2>3, <2>4, <2>5, AppendFacts DEF PoolExact
  <2>7. evt' \in [Events -> Chars] /\ meant' \in [Events -> BOOLEAN]
    BY <2>1, <2>2, <2>4 DEF TypeOK, Codes
  <2>8. PoolExact'
    BY <1>1, <2>4, <2>5, <2>6 DEF PoolExact
  <2>9. Counted'
    BY <1>1, <2>3, <2>4, <2>6 DEF Counted
  <2> QED BY <2>4, <2>6, <2>7, <2>8, <2>9
<1> QED BY <1>2, <1>3

LEMMA IrqKeeps ==
  ASSUME PoolInv, keyboard_irq_handler
  PROVE  PoolInv'
<1> USE DEF PoolInv
<1> DEFINE code == Head(wire)
<1>1. /\ wire # <<>> /\ wire \in Seq(Codes) /\ code \in Codes /\ wire' \in Seq(Codes)
  <2>1. wire # <<>> /\ wire \in Seq(Codes) /\ wire' = Tail(wire)
    BY DEF keyboard_irq_handler, TypeOK, Codes
  <2> QED BY <2>1, TailFacts
<1>2. Taken = {} /\ UNCHANGED <<reader, intr, held, repeats, capsOn>>
  BY Alone DEF keyboard_irq_handler
<1>3. Taken' = {}
  BY <1>2 DEF Taken, reader
<1> HIDE DEF code
<1>4. panic' \in BOOLEAN
  BY DEF keyboard_irq_handler, TypeOK
<1>5. /\ kbd_free_list' \in Seq(Events) /\ kbd_pending_list' \in Seq(Events)
      /\ evt' \in [Events -> Chars] /\ meant' \in [Events -> BOOLEAN]
      /\ PoolExact' /\ Counted'
      /\ shift_pressed' \in BOOLEAN /\ caps_lock' \in BOOLEAN
      /\ scancode_down' \in [Letters \cup Modifiers -> BOOLEAN]
  <2>1. ASSUME UNCHANGED pool
        PROVE  /\ kbd_free_list' \in Seq(Events) /\ kbd_pending_list' \in Seq(Events)
               /\ evt' \in [Events -> Chars] /\ meant' \in [Events -> BOOLEAN]
               /\ PoolExact' /\ Counted'
    BY <1>2, <1>3, <2>1 DEF pool, TypeOK, PoolExact, Counted, Once, On
  <2>2. CASE UNCHANGED driver
    BY <2>1, <2>2 DEF driver, pool, TypeOK
  <2>3. CASE keyboard_process_scancode(code)
    <3>1. CASE code.key \in Shifts
      <4>1. shift_pressed' = code.make /\ UNCHANGED <<pool, caps_lock, scancode_down>>
        <5>1. set_shift(code) /\ UNCHANGED <<lists, caps_lock, scancode_down>>
          BY <2>3, <3>1, KeyboardAssumption, SMT DEF keyboard_process_scancode, set_shift
        <5> QED BY <5>1 DEF set_shift, lists, pool
      <4>2. shift_pressed' \in BOOLEAN
        BY <1>1, <4>1 DEF Codes
      <4> QED BY <2>1, <4>1, <4>2 DEF TypeOK
    <3>2. CASE code.key \notin Shifts /\ code.key = Caps
      <4>1. caps_lock' = (caps_lock # code.make) /\ UNCHANGED <<pool, shift_pressed, scancode_down>>
        <5>1. /\ caps_lock' = (caps_lock # code.make)
              /\ UNCHANGED <<lists, shift_pressed, scancode_down>>
          BY <2>3, <3>2, KeyboardAssumption, Zenon DEF keyboard_process_scancode
        <5> QED BY <5>1 DEF lists, pool
      <4>2. caps_lock' \in BOOLEAN
        BY <4>1
      <4> QED BY <2>1, <4>1, <4>2 DEF TypeOK
    <3>3. CASE code.key \notin Shifts /\ code.key # Caps /\ code.key \in Letters \cup Modifiers
      <4>1. /\ set_scancode_down(code) /\ UNCHANGED <<shift_pressed, caps_lock>>
            /\ UNCHANGED lists \/ store_char(code)
        BY <2>3, <3>3 DEF keyboard_process_scancode
      <4>2. scancode_down' \in [Letters \cup Modifiers -> BOOLEAN]
        BY <1>1, <3>3, <4>1 DEF set_scancode_down, TypeOK, Codes
      <4> QED BY <1>1, <1>2, <2>1, <3>3, <4>1, <4>2, StoreKeeps DEF lists, pool, TypeOK
    <3>4. CASE code.key \notin Shifts /\ code.key # Caps /\ code.key \notin Letters \cup Modifiers
      BY <2>1, <2>3, <3>4 DEF keyboard_process_scancode, lists, pool, TypeOK
    <3> QED BY <3>1, <3>2, <3>3, <3>4
  <2> QED BY <2>2, <2>3 DEF keyboard_irq_handler, code
<1>6. TypeOK'
  BY <1>1, <1>2, <1>4, <1>5 DEF TypeOK, reader, Codes
<1>7. (Critical /\ Selected /\ InHand)'
  <2>1. \A p \in Readers : pc[p] \notin Inside
    BY Alone DEF keyboard_irq_handler
  <2> QED BY <1>2, <1>3, <2>1 DEF reader, Critical, Selected, InHand, Inside
<1> QED BY <1>5, <1>6, <1>7

(***************************************************************************)
(* The readers                                                             *)
(***************************************************************************)
Labels == Inside \cup {"cli", "return"}

\* What every instruction of keyboard_getchar leaves alone, and where it leads.
LEMMA GotoFacts ==
  ASSUME PoolInv, NEW p \in Readers, NEW from \in Labels, NEW to \in Labels, Goto(p, from, to)
  PROVE  /\ ~panic /\ running = p /\ running' = running /\ pc[p] = from
         /\ pc'[p] = to /\ \A q \in Readers \ {p} : pc'[q] = pc[q]
         /\ pc' \in [Readers -> Labels]
         /\ UNCHANGED <<keyboard, evt, meant, decoder>>
<1>1. pc \in [Readers -> Labels]
  BY DEF PoolInv, TypeOK, Labels, Inside
<1> QED BY <1>1 DEF Goto, decoder

\* An instruction that moves no event: p alone may have changed its place.
LEMMA StaysKeeps ==
  ASSUME PoolInv, NEW p \in Readers, NEW from \in Labels, NEW to \in Labels, Goto(p, from, to),
         UNCHANGED <<kbd_free_list, kbd_pending_list, panic>>,
         from \in {"read", "put_back"} <=> to \in {"read", "put_back"},
         from \in {"read", "put_back"} => node'[p] = node[p],
         node' \in [Readers -> Events \cup {None}], c' \in [Readers -> Chars \cup {None}],
         \A q \in Readers \ {p} : node'[q] = node[q] /\ c'[q] = c[q],
         c'[p] # None <=> to \in {"put_back", "sti", "return"},
         to = "unlink" => kbd_pending_list # <<>> /\ node'[p] = Head(kbd_pending_list),
         intr' \in {"off", "on"},
         to \in Inside => intr' = "off",
         intr' # "off" => from \in Inside \/ intr # "off"
  PROVE  PoolInv'
<1> USE GotoFacts DEF PoolInv
<1>1. Taken' = Taken /\ \A q \in Taken : node'[q] = node[q]
  BY DEF Taken
<1>2. TypeOK'
  <2>1. pc' \in [Readers -> Labels]
    OBVIOUS
  <2> QED BY <2>1 DEF TypeOK, keyboard, decoder, Labels, Inside
<1>3. PoolExact' /\ Counted'
  BY <1>1 DEF PoolExact, Counted, On, Once
<1>4. Critical'
  BY Alone DEF Critical, TypeOK
<1>5. Selected'
  BY <1>1 DEF Selected, TypeOK
<1>6. InHand'
  BY DEF InHand, TypeOK
<1> QED BY <1>2, <1>3, <1>4, <1>5, <1>6

\* list_del takes the first event that waits off its list, and nothing else.
LEMMA UnlinkKeeps ==
  ASSUME PoolInv, NEW p \in Readers, unlink(p)
  PROVE  /\ PoolInv'
         /\ kbd_pending_list # <<>> /\ kbd_pending_list' = Tail(kbd_pending_list)
         /\ node'[p] = Head(kbd_pending_list)
<1> USE DEF PoolInv
<1> DEFINE e == node[p]
<1>1. /\ running = p /\ running' = running /\ pc[p] = "unlink"
      /\ pc'[p] = "read" /\ (\A q \in Readers \ {p} : pc'[q] = pc[q])
      /\ pc' \in [Readers -> Labels]
      /\ UNCHANGED <<keyboard, evt, meant, decoder, node, c>>
  BY GotoFacts DEF unlink, Labels, Inside
<1>2. intr = "off" /\ intr' = "off"
  BY <1>1 DEF Critical, Inside, unlink
<1>3. Taken = {} /\ Taken' = {p}
  BY <1>1, Alone DEF Taken, Inside
<1>4. kbd_pending_list # <<>> /\ e = Head(kbd_pending_list)
  BY <1>1 DEF Selected
<1>5. kbd_free_list \in Seq(Events) /\ kbd_pending_list \in Seq(Events)
  BY DEF TypeOK
<1>6. /\ e \in Events /\ On(kbd_pending_list, e) /\ ~On(kbd_free_list, e)
  BY <1>4, <1>5, TailFacts DEF PoolExact
<1>7. kbd_free_list' = kbd_free_list /\ kbd_pending_list' = Tail(kbd_pending_list)
      /\ panic' \in BOOLEAN
  BY <1>4, <1>5, <1>6, WithoutFacts DEF unlink, PoolExact
<1>8. /\ kbd_pending_list' \in Seq(Events) /\ Len(kbd_pending_list') = Len(kbd_pending_list) - 1
      /\ ~On(kbd_pending_list', e) /\ Once(kbd_pending_list')
      /\ \A x : On(kbd_pending_list, x) <=> x = e \/ On(kbd_pending_list', x)
  BY <1>4, <1>5, <1>7, TailFacts DEF PoolExact
<1> HIDE DEF e
<1>9. TypeOK'
  BY <1>1, <1>2, <1>5, <1>7, <1>8 DEF TypeOK, keyboard, decoder, Labels, Inside
<1>10. PoolExact'
  <2>1. \A x : (\E q \in Taken' : node'[q] = x) <=> x = e
    BY <1>1, <1>3 DEF e
  <2>2. \A x : ~\E q \in Taken : node[q] = x
    BY <1>3
  <2> QED BY <1>3, <1>6, <1>7, <1>8, <2>1, <2>2 DEF PoolExact
<1>11. Counted'
  BY <1>3, <1>5, <1>7, <1>8 DEF Counted
<1>12. Critical'
  BY <1>1, <1>2, Alone DEF Critical, Inside
<1>13. Selected' /\ InHand'
  BY <1>1, <1>3, <1>6, Alone DEF Selected, InHand, Inside, e
<1> QED BY <1>1, <1>4, <1>7, <1>9, <1>10, <1>11, <1>12, <1>13 DEF e

\* list_add_tail puts the reader's event back on the free list.
LEMMA PutBackKeeps ==
  ASSUME PoolInv, NEW p \in Readers, put_back(p)
  PROVE  PoolInv'
<1> USE DEF PoolInv
<1> DEFINE e == node[p]
<1>1. /\ running = p /\ running' = running /\ pc[p] = "put_back"
      /\ pc'[p] = "sti" /\ (\A q \in Readers \ {p} : pc'[q] = pc[q])
      /\ pc' \in [Readers -> Labels]
      /\ UNCHANGED <<keyboard, evt, meant, decoder, kbd_pending_list, c, panic>>
  BY GotoFacts DEF put_back, Labels, Inside
<1>2. intr = "off" /\ intr' = "off"
  BY <1>1 DEF Critical, Inside, put_back
<1>3. Taken = {p} /\ Taken' = {}
  BY <1>1, Alone DEF Taken, Inside
<1>4. e \in Events /\ ~On(kbd_free_list, e) /\ ~On(kbd_pending_list, e)
  BY <1>3 DEF Selected, PoolExact
<1>5. kbd_free_list \in Seq(Events) /\ kbd_pending_list \in Seq(Events)
  BY DEF TypeOK
<1>6. kbd_free_list' = Append(kbd_free_list, e) /\ node' = [node EXCEPT ![p] = None]
  BY DEF put_back
<1>7. /\ kbd_free_list' \in Seq(Events) /\ Len(kbd_free_list') = Len(kbd_free_list) + 1
      /\ Once(kbd_free_list')
      /\ \A x : On(kbd_free_list', x) <=> On(kbd_free_list, x) \/ x = e
  BY <1>4, <1>5, <1>6, AppendFacts DEF PoolExact
<1> HIDE DEF e
<1>8. TypeOK'
  BY <1>1, <1>2, <1>6, <1>7 DEF TypeOK, keyboard, decoder, Labels, Inside
<1>9. PoolExact'
  <2>1. \A x : (\E q \in Taken : node[q] = x) <=> x = e
    BY <1>3 DEF e
  <2>2. \A x : ~\E q \in Taken' : node'[q] = x
    BY <1>3
  <2> QED BY <1>1, <1>3, <1>4, <1>7, <2>1, <2>2 DEF PoolExact, On, Once
<1>10. Counted'
  BY <1>1, <1>3, <1>5, <1>7 DEF Counted
<1>11. Critical'
  BY <1>1, <1>2, Alone DEF Critical, Inside
<1>12. Selected' /\ InHand'
  BY <1>1, <1>3, <1>6, Alone DEF Selected, InHand, Inside, TypeOK
<1> QED BY <1>8, <1>9, <1>10, <1>11, <1>12

LEMMA GetcharKeeps ==
  ASSUME PoolInv, NEW p \in Readers, keyboard_getchar(p)
  PROVE  PoolInv'
<1> USE DEF Labels, Inside
<1>0. /\ intr \in {"off", "on"}
      /\ node \in [Readers -> Events \cup {None}] /\ c \in [Readers -> Chars \cup {None}]
      /\ (c[p] # None <=> pc[p] \in {"put_back", "sti", "return"})
      /\ (pc[p] \in Inside => intr = "off")
  BY DEF PoolInv, TypeOK, InHand, Critical
<1>1. CASE disable_interrupts(p)
  <2>1. Goto(p, "cli", "check") /\ pc[p] = "cli" /\ intr' = "off"
        /\ UNCHANGED <<kbd_free_list, kbd_pending_list, node, c, panic>>
    BY <1>1 DEF disable_interrupts, cli, Goto
  <2> QED BY <1>0, <2>1, StaysKeeps
<1>2. CASE check(p)
  <2>1. pc[p] = "check" /\ intr' = "off" /\ UNCHANGED <<kbd_free_list, kbd_pending_list, c, panic>>
    BY <1>0, <1>2 DEF check, Goto
  <2>2. CASE kbd_pending_list # <<>>
    <3>1. Goto(p, "check", "unlink") /\ node' = [node EXCEPT ![p] = Head(kbd_pending_list)]
      BY <1>2, <2>2 DEF check
    <3>2. Head(kbd_pending_list) \in Events
      BY <2>2, TailFacts DEF PoolInv, TypeOK
    <3>3. node' \in [Readers -> Events \cup {None}] /\ node'[p] = Head(kbd_pending_list)
          /\ \A q \in Readers \ {p} : node'[q] = node[q]
      BY <1>0, <3>1, <3>2
    <3> QED BY <1>0, <2>1, <2>2, <3>1, <3>3, StaysKeeps
  <2>3. CASE kbd_pending_list = <<>>
    <3>1. Goto(p, "check", "sti_retry") /\ UNCHANGED node
      BY <1>2, <2>3 DEF check
    <3> QED BY <1>0, <2>1, <3>1, StaysKeeps
  <2> QED BY <2>2, <2>3
<1>3. CASE unlink(p)
  BY <1>3, UnlinkKeeps
<1>4. CASE read(p)
  <2>1. Goto(p, "read", "put_back") /\ pc[p] = "read" /\ intr' = "off"
        /\ c' = [c EXCEPT ![p] = evt[node[p]]]
        /\ UNCHANGED <<kbd_free_list, kbd_pending_list, node, panic>>
    BY <1>0, <1>4 DEF read, Goto
  <2>2. evt[node[p]] \in Chars /\ evt[node[p]] # None
    <3>1. node[p] \in Events
      BY <2>1 DEF PoolInv, Selected, Taken
    <3>2. evt \in [Events -> Chars]
      BY DEF PoolInv, TypeOK
    <3> QED BY <3>1, <3>2, CharsAreSome
  <2>3. /\ c' \in [Readers -> Chars \cup {None}] /\ c'[p] # None
        /\ \A q \in Readers \ {p} : c'[q] = c[q]
    BY <1>0, <2>1, <2>2
  <2> QED BY <1>0, <2>1, <2>3, StaysKeeps
<1>5. CASE put_back(p)
  BY <1>5, PutBackKeeps
<1>6. CASE enable_interrupts(p)
  <2>1. pc[p] \in {"sti", "sti_retry"} /\ intr' = "on"
        /\ UNCHANGED <<kbd_free_list, kbd_pending_list, node, c, panic>>
    BY <1>0, <1>6 DEF enable_interrupts, sti, Goto
  <2>2. \/ Goto(p, "sti", "return") /\ pc[p] = "sti"
        \/ Goto(p, "sti_retry", "cli") /\ pc[p] = "sti_retry"
    BY <1>6 DEF enable_interrupts, Goto
  <2> QED BY <1>0, <2>1, <2>2, StaysKeeps
<1>7. CASE return(p)
  <2>1. Goto(p, "return", "cli") /\ pc[p] = "return" /\ c' = [c EXCEPT ![p] = None]
        /\ UNCHANGED <<kbd_free_list, kbd_pending_list, node, panic>>
    BY <1>7 DEF return, Goto
  <2>2. intr' \in {"off", "on"} /\ (intr' # "off" => intr # "off")
    BY <1>0, <1>7 DEF return
  <2>3. /\ c' \in [Readers -> Chars \cup {None}] /\ c'[p] = None
        /\ \A q \in Readers \ {p} : c'[q] = c[q]
    BY <1>0, <2>1
  <2> QED BY <1>0, <2>1, <2>2, <2>3, StaysKeeps
<1> QED BY <1>1, <1>2, <1>3, <1>4, <1>5, <1>6, <1>7 DEF keyboard_getchar

(***************************************************************************)
(* Safety                                                                  *)
(***************************************************************************)
LEMMA PoolStep == PoolInv /\ [Next]_vars => PoolInv'
<1> SUFFICES ASSUME PoolInv, [Next]_vars PROVE PoolInv'
  OBVIOUS
<1>1. CASE User
  BY <1>1, UserKeeps
<1>2. CASE keyboard_irq_handler
  BY <1>2, IrqKeeps
<1>3. CASE Getchar
  BY <1>3, GetcharKeeps DEF Getchar
<1>4. CASE preempt
  <2>1. /\ UNCHANGED <<driver, pc, node, c, keyboard, intr, panic>> /\ running' \in Readers
        /\ intr = "on"
    BY <1>4 DEF preempt
  <2>2. TypeOK'
    BY <2>1 DEF PoolInv, TypeOK, driver, keyboard
  <2>3. Critical'
    BY <2>1, Alone DEF Critical
  <2>4. UNCHANGED <<kbd_free_list, kbd_pending_list, evt, meant, pc, node, c>>
    BY <2>1 DEF driver
  <2>5. PoolExact'
    BY <2>4 DEF PoolInv, PoolExact, Taken, On, Once
  <2>6. Selected' /\ Counted' /\ InHand'
    BY <2>4 DEF PoolInv, Selected, Counted, InHand, Taken, On, Once
  <2> QED BY <2>2, <2>3, <2>5, <2>6 DEF PoolInv
<1>5. CASE UNCHANGED vars
  <2>1. UNCHANGED <<driver, reader, keyboard, intr, panic>>
    BY <1>5 DEF vars
  <2>2. TypeOK'
    BY <2>1 DEF driver, reader, keyboard, PoolInv, TypeOK
  <2>3. UNCHANGED <<kbd_free_list, kbd_pending_list, evt, meant, pc, node, c, running, intr>>
    BY <2>1 DEF driver, reader
  <2>4. PoolExact'
    BY <2>3 DEF PoolInv, PoolExact, Taken, On, Once
  <2>5. Critical' /\ Selected' /\ Counted' /\ InHand'
    BY <2>3 DEF PoolInv, Critical, Selected, Counted, InHand, Taken, On, Once
  <2> QED BY <2>2, <2>4, <2>5 DEF PoolInv
<1> QED BY <1>1, <1>2, <1>3, <1>4, <1>5 DEF Next, Halted

\* Every variable of the driver keeps its type: no event holds the 0 of a key
\* without a character.
THEOREM KeyboardTypeOK == Spec => []TypeOK
<1>1. PoolInv => TypeOK
  BY DEF PoolInv
<1> QED BY <1>1, PoolInit, PoolStep, PTL DEF Spec

\* Each event of kbd_pool is free, pending or a single reader's, and once,
\* whatever instruction of keyboard_getchar an interrupt or a tick falls on.
THEOREM KeyboardPoolExact == Spec => []PoolExact
<1>1. PoolInv => PoolExact
  BY DEF PoolInv
<1> QED BY <1>1, PoolInit, PoolStep, PTL DEF Spec

(***************************************************************************)
(* keyboard.c implements CharQueue                                         *)
(***************************************************************************)
Waits == [i \in DOMAIN kbd_pending_list |-> evt[kbd_pending_list[i]]]
Got == [p \in Readers |-> IF pc[p] = "read" THEN evt[node[p]] ELSE c[p]]

LEMMA ImplementsInit == Init => Q!QInit
BY DEF Init, Q!QInit

\* The characters of a list of events are a sequence as long as it.
LEMMA CharsOf ==
  ASSUME NEW list \in Seq(Events), NEW f \in [Events -> Chars]
  PROVE  LET w == [i \in DOMAIN list |-> f[list[i]]] IN
         /\ w \in Seq(Chars) /\ Len(w) = Len(list)
         /\ \A i \in 1 .. Len(list) : w[i] = f[list[i]]
<1> DEFINE w == [i \in DOMAIN list |-> f[list[i]]]
<1>1. /\ Len(list) \in Nat /\ DOMAIN list = 1 .. Len(list)
      /\ \A i \in 1 .. Len(list) : f[list[i]] \in Chars
  OBVIOUS
<1>2. w \in [1 .. Len(list) -> Chars]
  BY <1>1
<1> QED BY <1>1, <1>2

LEMMA WaitsFacts ==
  ASSUME PoolInv
  PROVE  /\ Waits \in Seq(Chars) /\ Len(Waits) = Len(kbd_pending_list)
         /\ \A i \in 1 .. Len(kbd_pending_list) : Waits[i] = evt[kbd_pending_list[i]]
BY CharsOf DEF PoolInv, TypeOK, Waits

LEMMA WaitsFactsNext ==
  ASSUME PoolInv'
  PROVE  /\ Waits' \in Seq(Chars) /\ Len(Waits') = Len(kbd_pending_list')
         /\ \A i \in 1 .. Len(kbd_pending_list') : Waits'[i] = evt'[kbd_pending_list'[i]]
BY CharsOf DEF PoolInv, TypeOK, Waits

\* Storing a character is the queue's step of that character: there is room in
\* the queue as long as an event is free.
LEMMA TypeStep ==
  ASSUME PoolInv, PoolInv', NEW code \in Codes, Taken = {}, UNCHANGED reader,
         \A p \in Readers : pc[p] \notin Inside,
         store_char(code), can_store(ascii(code))
  PROVE  Q!Type(ascii(code))
<1> DEFINE e == Head(kbd_free_list)
           ch == ascii(code)
<1>1. /\ kbd_free_list # <<>> /\ kbd_free_list' = Tail(kbd_free_list)
      /\ kbd_pending_list' = Append(kbd_pending_list, e)
      /\ evt' = [evt EXCEPT ![e] = ch]
  BY DEF store_char, list_add_tail, can_store
<1>2. /\ kbd_free_list \in Seq(Events) /\ kbd_pending_list \in Seq(Events)
      /\ evt \in [Events -> Chars] /\ evt' \in [Events -> Chars]
  BY DEF PoolInv, TypeOK
<1>3. e \in Events /\ Len(kbd_free_list) >= 1 /\ ~On(kbd_pending_list, e)
  BY <1>1, <1>2, TailFacts DEF PoolInv, PoolExact
<1>4. ch \in Chars
  BY DEF ascii, can_store, PoolInv, TypeOK, Chars, shift_xor_caps
<1> HIDE DEF e, ch
<1>5. Len(Waits) < KBD_BUFFER_SIZE
  BY <1>2, <1>3, WaitsFacts, KeyboardAssumption DEF PoolInv, Counted
<1>6. Waits' = Append(Waits, ch)
  <2> DEFINE n == Len(kbd_pending_list)
             new == Waits'
  <2>1. n \in Nat /\ Len(kbd_pending_list') = n + 1 /\ kbd_pending_list'[n + 1] = e
        /\ \A i \in 1 .. n : /\ i \in 1 .. n + 1 /\ kbd_pending_list'[i] = kbd_pending_list[i]
                             /\ kbd_pending_list[i] \in Events /\ kbd_pending_list[i] # e
    BY <1>1, <1>2, <1>3 DEF On
  <2>2. new \in Seq(Chars) /\ Len(new) = n + 1
        /\ \A i \in 1 .. n + 1 : new[i] = evt'[kbd_pending_list'[i]]
    BY <2>1, WaitsFactsNext
  <2>3. Waits \in Seq(Chars) /\ Len(Waits) = n /\ \A i \in 1 .. n : Waits[i] = evt[kbd_pending_list[i]]
    BY WaitsFacts
  <2> HIDE DEF new, n
  <2>4. new[n + 1] = ch
    BY <1>1, <1>2, <1>3, <2>1, <2>2
  <2>5. \A i \in 1 .. n : new[i] = Waits[i]
    BY <1>1, <1>2, <1>3, <2>1, <2>2, <2>3
  <2>6. /\ Append(Waits, ch) \in Seq(Chars) /\ Len(Append(Waits, ch)) = n + 1
        /\ Append(Waits, ch)[n + 1] = ch
        /\ \A i \in 1 .. n : Append(Waits, ch)[i] = Waits[i]
    BY <1>4, <2>1, <2>3
  <2>7. \A i \in 1 .. Len(new) : new[i] = Append(Waits, ch)[i]
    BY <2>1, <2>2, <2>4, <2>5, <2>6
  <2>8. new = Append(Waits, ch)
    BY <2>2, <2>6, <2>7, SeqEqual
  <2> QED BY <2>8 DEF new
<1>7. Got' = Got
  BY DEF Got, reader, Inside
<1> QED BY <1>5, <1>6, <1>7 DEF Q!Type, Waits, Got, ch

\* list_del takes the first character for a reader that has none.
LEMMA TakeStep ==
  ASSUME PoolInv, PoolInv', NEW p \in Readers, unlink(p)
  PROVE  Q!Take(p)
<1>1. /\ kbd_pending_list # <<>> /\ kbd_pending_list' = Tail(kbd_pending_list)
      /\ node'[p] = Head(kbd_pending_list) /\ node' = node
  BY UnlinkKeeps DEF unlink
<1>2. /\ pc[p] = "unlink" /\ pc'[p] = "read" /\ (\A q \in Readers \ {p} : pc'[q] = pc[q])
      /\ evt' = evt /\ c' = c
  BY GotoFacts DEF unlink, Labels, Inside
<1>3. /\ kbd_pending_list \in Seq(Events) /\ evt \in [Events -> Chars]
      /\ kbd_pending_list' \in Seq(Events)
  BY DEF PoolInv, TypeOK
<1> DEFINE n == Len(kbd_pending_list)
           new == Waits'
<1>4. n \in Nat /\ n >= 1 /\ Len(kbd_pending_list') = n - 1
      /\ \A i \in 1 .. n - 1 : i + 1 \in 1 .. n /\ kbd_pending_list'[i] = kbd_pending_list[i + 1]
  BY <1>1, <1>3
<1>5. Waits \in Seq(Chars) /\ Len(Waits) = n /\ \A i \in 1 .. n : Waits[i] = evt[kbd_pending_list[i]]
  BY WaitsFacts
<1>6. new \in Seq(Chars) /\ Len(new) = n - 1
      /\ \A i \in 1 .. n - 1 : new[i] = evt[kbd_pending_list'[i]]
  BY <1>2, <1>4, WaitsFactsNext
<1> HIDE DEF new, n
<1>7. Waits # <<>> /\ Head(Waits) = evt[node[p]]
  <2>1. Waits # <<>> /\ Head(Waits) = Waits[1] /\ Waits[1] = evt[kbd_pending_list[1]]
    BY <1>4, <1>5
  <2>2. Head(kbd_pending_list) = kbd_pending_list[1]
    BY <1>1, <1>3
  <2> QED BY <1>1, <2>1, <2>2
<1>8. new = Tail(Waits)
  <2>1. Tail(Waits) \in Seq(Chars) /\ Len(Tail(Waits)) = n - 1
        /\ \A i \in 1 .. n - 1 : Tail(Waits)[i] = Waits[i + 1]
    BY <1>4, <1>5, <1>7
  <2>2. \A i \in 1 .. Len(new) : new[i] = Tail(Waits)[i]
    BY <1>4, <1>5, <1>6, <2>1
  <2> QED BY <1>6, <2>1, <2>2, SeqEqual
<1>9. Got[p] = None /\ Got' = [Got EXCEPT ![p] = evt[node[p]]]
  <2>1. Got[p] = None
    BY <1>2 DEF Got, PoolInv, InHand
  <2>2. \A q \in Readers \ {p} : Got'[q] = Got[q]
    BY <1>1, <1>2 DEF Got
  <2>3. Got'[p] = evt[node[p]]
    BY <1>1, <1>2 DEF Got
  <2>4. Got' = [q \in Readers |-> Got'[q]] /\ Got = [q \in Readers |-> Got[q]]
    BY DEF Got
  <2> QED BY <2>1, <2>2, <2>3, <2>4
<1> QED BY <1>7, <1>8, <1>9 DEF Q!Take, Waits, Got, new

LEMMA IrqStep ==
  ASSUME PoolInv, PoolInv', keyboard_irq_handler
  PROVE  (\E ch \in Chars : Q!Type(ch)) \/ UNCHANGED <<Waits, Got>>
<1> DEFINE code == Head(wire)
<1>1. wire # <<>> /\ wire \in Seq(Codes) /\ code \in Codes
  <2>1. wire # <<>> /\ wire \in Seq(Codes)
    BY DEF keyboard_irq_handler, PoolInv, TypeOK, Codes
  <2> QED BY <2>1, TailFacts
<1>2. Taken = {} /\ (\A p \in Readers : pc[p] \notin Inside) /\ UNCHANGED reader
  BY Alone DEF keyboard_irq_handler
<1> HIDE DEF code
<1>3. ASSUME UNCHANGED <<kbd_pending_list, evt>> PROVE UNCHANGED <<Waits, Got>>
  BY <1>2, <1>3 DEF Waits, Got, reader
<1>4. UNCHANGED <<kbd_pending_list, evt>> \/ (store_char(code) /\ code.key \in Letters \cup Modifiers)
  <2>1. CASE UNCHANGED driver
    BY <2>1 DEF driver
  <2>2. CASE keyboard_process_scancode(code)
    BY <2>2 DEF keyboard_process_scancode, lists
  <2> QED BY <2>1, <2>2 DEF keyboard_irq_handler, code
<1>5. CASE store_char(code) /\ can_store(ascii(code))
  <2>1. ascii(code) \in Chars
    BY <1>5 DEF ascii, can_store, PoolInv, TypeOK, Chars, shift_xor_caps
  <2>2. Q!Type(ascii(code))
    BY <1>1, <1>2, <1>5, TypeStep
  <2> QED BY <2>1, <2>2 DEF Q!Type
<1>6. CASE store_char(code) /\ ~can_store(ascii(code))
  BY <1>3, <1>6 DEF store_char
<1> QED BY <1>3, <1>4, <1>5, <1>6

LEMMA GetcharStep ==
  ASSUME PoolInv, PoolInv', NEW p \in Readers, keyboard_getchar(p)
  PROVE  (\E q \in Readers : Q!Take(q) \/ Q!Hand(q)) \/ UNCHANGED <<Waits, Got>>
<1>1. CASE unlink(p)
  BY <1>1, TakeStep
<1>2. CASE return(p)
  <2>1. /\ pc[p] = "return" /\ pc'[p] = "cli" /\ (\A q \in Readers \ {p} : pc'[q] = pc[q])
        /\ evt' = evt /\ kbd_pending_list' = kbd_pending_list /\ node' = node
        /\ c' = [c EXCEPT ![p] = None] /\ c \in [Readers -> Chars \cup {None}]
    BY <1>2, GotoFacts DEF return, Labels, Inside, PoolInv, TypeOK
  <2>2. Got[p] # None
    BY <2>1 DEF Got, PoolInv, InHand
  <2>3. Got' = [Got EXCEPT ![p] = None]
    <3>1. Got'[p] = None /\ \A q \in Readers \ {p} : Got'[q] = Got[q]
      BY <2>1 DEF Got
    <3>2. Got' = [q \in Readers |-> Got'[q]] /\ Got = [q \in Readers |-> Got[q]]
      BY DEF Got
    <3> QED BY <3>1, <3>2
  <2>4. Waits' = Waits
    BY <2>1 DEF Waits
  <2>5. Q!Hand(p)
    BY <2>2, <2>3, <2>4 DEF Q!Hand, Waits, Got
  <2> QED BY <2>5
<1>3. CASE read(p)
  <2>1. /\ pc[p] = "read" /\ pc'[p] = "put_back" /\ (\A q \in Readers \ {p} : pc'[q] = pc[q])
        /\ evt' = evt /\ kbd_pending_list' = kbd_pending_list /\ node' = node
        /\ c' = [c EXCEPT ![p] = evt[node[p]]] /\ c \in [Readers -> Chars \cup {None}]
    BY <1>3, GotoFacts DEF read, Labels, Inside, PoolInv, TypeOK
  <2>2. \A q \in Readers : Got'[q] = Got[q]
    BY <2>1 DEF Got
  <2>3. Got' = [q \in Readers |-> Got'[q]] /\ Got = [q \in Readers |-> Got[q]]
    BY DEF Got
  <2> QED BY <2>1, <2>2, <2>3 DEF Waits
<1>4. CASE put_back(p)
  <2>1. /\ pc[p] = "put_back" /\ pc'[p] = "sti" /\ (\A q \in Readers \ {p} : pc'[q] = pc[q])
        /\ evt' = evt /\ kbd_pending_list' = kbd_pending_list /\ c' = c
        /\ node' = [node EXCEPT ![p] = None] /\ node \in [Readers -> Events \cup {None}]
    BY <1>4, GotoFacts DEF put_back, Labels, Inside, PoolInv, TypeOK
  <2> QED BY <2>1 DEF Waits, Got
<1>5. CASE check(p)
  <2>1. /\ pc[p] = "check" /\ pc'[p] # "read" /\ (\A q \in Readers \ {p} : pc'[q] = pc[q])
        /\ (\A q \in Readers \ {p} : node'[q] = node[q])
        /\ evt' = evt /\ kbd_pending_list' = kbd_pending_list /\ c' = c
    BY <1>5, GotoFacts DEF check, Labels, Inside, PoolInv, TypeOK
  <2> QED BY <2>1 DEF Waits, Got
<1>6. CASE disable_interrupts(p) \/ enable_interrupts(p)
  <2>1. /\ pc[p] # "read" /\ pc'[p] # "read" /\ (\A q \in Readers \ {p} : pc'[q] = pc[q])
        /\ evt' = evt /\ kbd_pending_list' = kbd_pending_list /\ c' = c /\ node' = node
    BY <1>6, GotoFacts DEF disable_interrupts, enable_interrupts, Labels, Inside
  <2> QED BY <2>1 DEF Waits, Got
<1> QED BY <1>1, <1>2, <1>3, <1>4, <1>5, <1>6 DEF keyboard_getchar

\* The driver is a queue of at most KBD_BUFFER_SIZE characters, in the order of
\* the interrupts, each given to one reader: every step of the handler and of
\* the readers is one of the queue's, or one it does not see.
THEOREM KeyboardImplements == Spec => Implements
<1>1. PoolInv /\ PoolInv' /\ [Next]_vars => [Q!QNext]_(Q!vars)
  <2> SUFFICES ASSUME PoolInv, PoolInv', [Next]_vars
               PROVE  Q!QNext \/ UNCHANGED <<Waits, Got>>
    BY DEF Q!vars, Waits, Got
  <2>1. CASE User \/ preempt
    BY <2>1 DEF User, Press, Repeat, Release, preempt, driver, reader, Waits, Got
  <2>2. CASE keyboard_irq_handler
    BY <2>2, IrqStep DEF Q!QNext
  <2>3. CASE Getchar
    BY <2>3, GetcharStep DEF Getchar, Q!QNext
  <2>4. CASE UNCHANGED vars
    BY <2>4 DEF vars, driver, reader, Waits, Got
  <2> QED BY <2>1, <2>2, <2>3, <2>4 DEF Next, Halted
<1> QED BY <1>1, ImplementsInit, PoolInit, PoolStep, PTL DEF Spec, Implements, Q!QSpec

(***************************************************************************)
(* One character per press                                                 *)
(***************************************************************************)
Typing == Letters \cup Modifiers

\* A code of k on a wire w: the first, the last, and two in a row.
FirstOf(w, k, i) == w[i].key = k /\ \A m \in DOMAIN w : m < i => w[m].key # k
LastOf(w, k, i) == w[i].key = k /\ \A m \in DOMAIN w : m > i => w[m].key # k
InARow(w, k, i, j) ==
  /\ i < j /\ w[i].key = k /\ w[j].key = k
  /\ \A m \in DOMAIN w : i < m /\ m < j => w[m].key # k

\* A make code is the first of a press exactly when the state of its key before
\* it, in the driver or by the code before, is up; the state after the last is
\* what the user does.
FollowsKey(w, k, down, pressed) ==
  /\ \A i \in DOMAIN w : w[i].key = k /\ w[i].first => w[i].make
  /\ \A i \in DOMAIN w : FirstOf(w, k, i) /\ w[i].make => (w[i].first <=> ~down[k])
  /\ \A i, j \in DOMAIN w : InARow(w, k, i, j) /\ w[j].make => (w[j].first <=> ~w[i].make)
  /\ \A i \in DOMAIN w : LastOf(w, k, i) => (w[i].make <=> k \in pressed)
  /\ (\A i \in DOMAIN w : w[i].key # k) => (down[k] <=> k \in pressed)

Follows == \A k \in Typing : FollowsKey(wire, k, scancode_down, held)
Holds == repeats = None \/ repeats \in held
PressInv == Follows /\ Holds

LEMMA PressInit == Init => PressInv
<1> SUFFICES ASSUME Init PROVE PressInv
  OBVIOUS
<1>1. wire = <<>> /\ held = {} /\ repeats = None
  BY DEF Init
<1>2. \A k \in Typing : ~scancode_down[k]
  BY DEF Init, Typing
<1> QED BY <1>1, <1>2 DEF PressInv, Follows, FollowsKey, Holds

\* A code sent keeps the two in step.
LEMMA SentFollows ==
  ASSUME NEW w \in Seq(Codes), NEW code \in Codes, NEW k, NEW down, down[k] \in BOOLEAN,
         NEW before, NEW after,
         FollowsKey(w, k, down, before),
         code.key # k => (k \in after <=> k \in before),
         code.key = k => /\ code.first => code.make
                         /\ code.make <=> k \in after
                         /\ code.make => (code.first <=> k \notin before)
  PROVE  FollowsKey(Append(w, code), k, down, after)
<1> DEFINE n == Len(w)
           new == Append(w, code)
<1>1. /\ n \in Nat /\ DOMAIN w = 1 .. n /\ DOMAIN new = 1 .. n + 1
      /\ new[n + 1] = code /\ \A i \in 1 .. n : new[i] = w[i]
  OBVIOUS
<1> HIDE DEF n, new
<1>2. \A i \in 1 .. n + 1 : new[i].key = k /\ new[i].first => new[i].make
  BY <1>1 DEF FollowsKey
<1>3. ASSUME NEW i \in 1 .. n + 1, FirstOf(new, k, i), new[i].make
      PROVE  new[i].first <=> ~down[k]
  <2>1. CASE i \in 1 .. n
    BY <1>1, <1>3, <2>1 DEF FollowsKey, FirstOf
  <2>2. CASE i = n + 1
    <3>1. \A m \in DOMAIN w : w[m].key # k
      BY <1>1, <1>3, <2>2 DEF FirstOf
    <3>2. down[k] <=> k \in before
      BY <3>1 DEF FollowsKey
    <3>3. new[i] = code /\ code.key = k /\ code.make
      BY <1>1, <1>3, <2>2 DEF FirstOf
    <3>4. code.first <=> k \notin before
      BY <3>3
    <3>5. new[i].first <=> code.first
      BY <3>3
    <3> QED BY <3>2, <3>4, <3>5
  <2> QED BY <1>1, <2>1, <2>2
<1>4. ASSUME NEW i \in 1 .. n + 1, NEW j \in 1 .. n + 1, InARow(new, k, i, j), new[j].make
      PROVE  new[j].first <=> ~new[i].make
  <2>1. i \in 1 .. n
    BY <1>1, <1>4 DEF InARow
  <2>2. CASE j \in 1 .. n
    BY <1>1, <1>4, <2>1, <2>2 DEF FollowsKey, InARow
  <2>3. CASE j = n + 1
    <3>1. LastOf(w, k, i)
      BY <1>1, <1>4, <2>1, <2>3 DEF InARow, LastOf
    <3>2. w[i].make <=> k \in before
      BY <1>1, <2>1, <3>1 DEF FollowsKey
    <3>3. new[i] = w[i] /\ new[j] = code /\ code.key = k /\ code.make
      BY <1>1, <1>4, <2>1, <2>3 DEF InARow
    <3>4. code.first <=> k \notin before
      BY <3>3
    <3>5. (new[j].first <=> code.first) /\ (new[i].make <=> w[i].make)
      BY <3>3
    <3> QED BY <3>2, <3>4, <3>5
  <2> QED BY <1>1, <2>2, <2>3
<1>5. ASSUME NEW i \in 1 .. n + 1, LastOf(new, k, i)
      PROVE  new[i].make <=> k \in after
  <2>1. CASE i = n + 1
    <3>1. new[i] = code /\ code.key = k
      BY <1>1, <1>5, <2>1 DEF LastOf
    <3>2. code.make <=> k \in after
      BY <3>1
    <3>3. new[i].make <=> code.make
      BY <3>1
    <3> QED BY <3>2, <3>3
  <2>2. CASE i \in 1 .. n
    <3>1. LastOf(w, k, i) /\ code.key # k
      BY <1>1, <1>5, <2>2 DEF LastOf
    <3> QED BY <1>1, <2>2, <3>1 DEF FollowsKey
  <2> QED BY <1>1, <2>1, <2>2
<1>6. (\A i \in 1 .. n + 1 : new[i].key # k) => (down[k] <=> k \in after)
  BY <1>1 DEF FollowsKey
<1> QED BY <1>1, <1>2, <1>3, <1>4, <1>5, <1>6 DEF FollowsKey, new

\* So does a code handled, when the driver notes it.
LEMMA HandledFollows ==
  ASSUME NEW w \in Seq(Codes), w # <<>>, NEW k, NEW before, NEW after, NEW pressed,
         before[k] \in BOOLEAN, after[k] \in BOOLEAN,
         FollowsKey(w, k, before, pressed),
         after[k] <=> IF Head(w).key = k THEN Head(w).make ELSE before[k]
  PROVE  FollowsKey(Tail(w), k, after, pressed)
<1> DEFINE n == Len(w)
           new == Tail(w)
<1>1. /\ n \in Nat /\ n >= 1 /\ DOMAIN w = 1 .. n /\ DOMAIN new = 1 .. n - 1
      /\ Head(w) = w[1] /\ \A i \in 1 .. n - 1 : new[i] = w[i + 1] /\ i + 1 \in 1 .. n
  OBVIOUS
<1> HIDE DEF n, new
<1>2. \A i \in 1 .. n - 1 : new[i].key = k /\ new[i].first => new[i].make
  BY <1>1 DEF FollowsKey
<1>3. \A m \in 2 .. n : m - 1 \in 1 .. n - 1 /\ new[m - 1] = w[m]
  BY <1>1
<1>4. ASSUME NEW i \in 1 .. n - 1, FirstOf(new, k, i), new[i].make
      PROVE  new[i].first <=> ~after[k]
  <2>1. ASSUME NEW m \in 2 .. n, m < i + 1 PROVE w[m].key # k
    <3>1. m - 1 \in DOMAIN new /\ m - 1 < i /\ new[m - 1] = w[m]
      BY <1>1, <1>3, <2>1
    <3> QED BY <1>4, <3>1 DEF FirstOf
  <2>2. CASE w[1].key = k
    <3>1. InARow(w, k, 1, i + 1)
      BY <1>1, <1>4, <2>1, <2>2 DEF InARow, FirstOf
    <3>2. 1 \in DOMAIN w /\ i + 1 \in DOMAIN w
      BY <1>1
    <3> QED BY <1>1, <1>4, <2>2, <3>1, <3>2 DEF FollowsKey
  <2>3. CASE w[1].key # k
    <3>1. FirstOf(w, k, i + 1)
      BY <1>1, <1>4, <2>1, <2>3 DEF FirstOf
    <3> QED BY <1>1, <1>4, <2>3, <3>1 DEF FollowsKey
  <2> QED BY <2>2, <2>3
<1>5. ASSUME NEW i \in 1 .. n - 1, NEW j \in 1 .. n - 1, InARow(new, k, i, j), new[j].make
      PROVE  new[j].first <=> ~new[i].make
  <2>1. ASSUME NEW m \in DOMAIN w, i + 1 < m, m < j + 1 PROVE w[m].key # k
    <3>1. m - 1 \in DOMAIN new /\ i < m - 1 /\ m - 1 < j /\ new[m - 1] = w[m]
      BY <1>1, <1>3, <2>1
    <3> QED BY <1>5, <3>1 DEF InARow
  <2>2. InARow(w, k, i + 1, j + 1)
    BY <1>1, <1>5, <2>1 DEF InARow
  <2> QED BY <1>1, <1>5, <2>2 DEF FollowsKey
<1>6. ASSUME NEW i \in 1 .. n - 1, LastOf(new, k, i)
      PROVE  new[i].make <=> k \in pressed
  <2>1. ASSUME NEW m \in DOMAIN w, m > i + 1 PROVE w[m].key # k
    <3>1. m - 1 \in DOMAIN new /\ m - 1 > i /\ new[m - 1] = w[m]
      BY <1>1, <1>3, <2>1
    <3> QED BY <1>6, <3>1 DEF LastOf
  <2>2. LastOf(w, k, i + 1)
    BY <1>1, <1>6, <2>1 DEF LastOf
  <2> QED BY <1>1, <2>2 DEF FollowsKey
<1>7. ASSUME \A i \in 1 .. n - 1 : new[i].key # k
      PROVE  after[k] <=> k \in pressed
  <2>1. \A m \in 2 .. n : w[m].key # k
    BY <1>3, <1>7
  <2>2. CASE w[1].key = k
    <3>1. LastOf(w, k, 1)
      BY <1>1, <2>1, <2>2 DEF LastOf
    <3> QED BY <1>1, <2>2, <3>1 DEF FollowsKey
  <2>3. CASE w[1].key # k
    <3>1. \A m \in DOMAIN w : w[m].key # k
      BY <1>1, <2>1, <2>3
    <3> QED BY <1>1, <2>3, <3>1 DEF FollowsKey
  <2> QED BY <2>2, <2>3
<1> QED BY <1>1, <1>2, <1>4, <1>5, <1>6, <1>7 DEF FollowsKey, new

LEMMA PressStep ==
  ASSUME PoolInv, PressInv, [Next]_vars
  PROVE  PressInv'
<1> USE KeyboardAssumption
<1>1. /\ wire \in Seq(Codes) /\ held \subseteq Keys /\ Typing \subseteq Keys
      /\ scancode_down \in [Typing -> BOOLEAN]
  BY DEF PoolInv, TypeOK, Codes, Typing, Keys
<1>2. ASSUME User PROVE PressInv'
  <2>1. UNCHANGED scancode_down
    BY <1>2 DEF User, Press, Repeat, Release, driver
  <2>2. ASSUME NEW code \in Codes, wire' = Append(wire, code),
               \A k \in Typing : code.key # k => (k \in held' <=> k \in held),
               code.key \in Typing => /\ code.first => code.make
                                      /\ code.make <=> code.key \in held'
                                      /\ code.make => (code.first <=> code.key \notin held)
        PROVE  Follows'
    <3> SUFFICES ASSUME NEW k \in Typing
                 PROVE  FollowsKey(Append(wire, code), k, scancode_down, held')
      BY <2>1, <2>2 DEF Follows
    <3>1. FollowsKey(wire, k, scancode_down, held)
      BY DEF PressInv, Follows
    <3>2. scancode_down[k] \in BOOLEAN
      BY <1>1
    <3>3. code.key # k => (k \in held' <=> k \in held)
      BY <2>2
    <3>4. code.key = k => /\ code.first => code.make
                          /\ code.make <=> k \in held'
                          /\ code.make => (code.first <=> k \notin held)
      BY <2>2
    <3> HIDE KeyboardAssumption
    <3> QED BY <1>1, <2>2, <3>1, <3>2, <3>3, <3>4, SentFollows
  <2>3. ASSUME NEW k \in Keys, Press(k) PROVE PressInv'
    <3>1. /\ Code(k, TRUE, TRUE) \in Codes /\ wire' = Append(wire, Code(k, TRUE, TRUE))
          /\ k \notin held /\ held' = held \cup {k} /\ repeats' = k
      BY <2>3 DEF Press, Code, Codes, PoolInv, TypeOK
    <3>2. Code(k, TRUE, TRUE).key = k /\ Code(k, TRUE, TRUE).first /\ Code(k, TRUE, TRUE).make
      BY DEF Code
    <3>3. Follows'
      BY <2>2, <3>1, <3>2
    <3> QED BY <3>1, <3>3 DEF PressInv, Holds
  <2>4. ASSUME NEW k \in Keys, Release(k) PROVE PressInv'
    <3>1. /\ Code(k, FALSE, FALSE) \in Codes /\ wire' = Append(wire, Code(k, FALSE, FALSE))
          /\ held' = held \ {k} /\ repeats' = IF repeats = k THEN None ELSE repeats
      BY <2>4 DEF Release, Code, Codes, PoolInv, TypeOK
    <3>2. Code(k, FALSE, FALSE).key = k /\ ~Code(k, FALSE, FALSE).first /\ ~Code(k, FALSE, FALSE).make
      BY DEF Code
    <3>3. Follows'
      BY <2>2, <3>1, <3>2
    <3> QED BY <3>1, <3>3 DEF PressInv, Holds
  <2>5. ASSUME Repeat PROVE PressInv'
    <3> DEFINE code == Code(repeats, TRUE, FALSE)
    <3>1. repeats \in Keys /\ repeats \in held
      BY <2>5 DEF Repeat, PressInv, Holds
    <3>2. code \in Codes /\ wire' = Append(wire, code) /\ UNCHANGED <<held, repeats>>
      BY <2>5, <3>1 DEF Repeat, Code, Codes, PoolInv, TypeOK
    <3>3. code.key = repeats /\ ~code.first /\ code.make
      BY DEF Code
    <3> HIDE DEF code
    <3>4. Follows'
      BY <2>2, <3>1, <3>2, <3>3
    <3> QED BY <3>2, <3>4 DEF PressInv, Holds
  <2> QED BY <1>2, <2>3, <2>4, <2>5 DEF User
<1>3. ASSUME keyboard_irq_handler PROVE PressInv'
  <2> DEFINE code == Head(wire)
  <2>1. wire # <<>> /\ wire' = Tail(wire) /\ UNCHANGED <<held, repeats>>
    BY <1>3 DEF keyboard_irq_handler
  <2>2. code \in Codes
    BY <1>1, <2>1, TailFacts
  <2>3. ASSUME NEW k \in Typing
        PROVE  scancode_down'[k] <=> IF code.key = k THEN code.make ELSE scancode_down[k]
    <3>1. CASE code.key = Esc /\ code.make /\ UNCHANGED driver
      BY <3>1 DEF driver, Typing
    <3>2. CASE keyboard_process_scancode(code)
      <4>1. CASE code.key \notin Typing
        <5>1. UNCHANGED scancode_down
          BY <3>2, <4>1 DEF keyboard_process_scancode, Typing
        <5> QED BY <4>1, <5>1
      <4>2. CASE code.key \in Typing
        <5>1. scancode_down' = [scancode_down EXCEPT ![code.key] = code.make]
          BY <3>2, <4>2 DEF keyboard_process_scancode, set_scancode_down, Typing
        <5> QED BY <1>1, <4>2, <5>1
      <4> QED BY <4>1, <4>2
    <3> QED BY <1>3, <3>1, <3>2 DEF keyboard_irq_handler
  <2> HIDE DEF code
  <2>4. Follows'
    <3> SUFFICES ASSUME NEW k \in Typing
                 PROVE  FollowsKey(Tail(wire), k, scancode_down', held)
      BY <2>1 DEF Follows
    <3>1. FollowsKey(wire, k, scancode_down, held)
      BY DEF PressInv, Follows
    <3>2. scancode_down[k] \in BOOLEAN /\ scancode_down'[k] \in BOOLEAN
      <4>1. scancode_down' \in [Typing -> BOOLEAN]
        BY IrqKeeps, <1>3 DEF PoolInv, TypeOK, Typing
      <4> QED BY <1>1, <4>1
    <3> QED BY <1>1, <2>1, <2>3, <3>1, <3>2, HandledFollows DEF code
  <2> QED BY <2>1, <2>4 DEF PressInv, Holds
<1>4. ASSUME UNCHANGED <<wire, scancode_down, held, repeats>> PROVE PressInv'
  BY <1>4 DEF PressInv, Follows, Holds
<1>5. CASE Getchar
  <2>1. UNCHANGED <<keyboard, scancode_down>>
    BY <1>5 DEF Getchar, keyboard_getchar, disable_interrupts, check, unlink, read, put_back,
       enable_interrupts, return, Goto
  <2> QED BY <1>4, <2>1 DEF keyboard
<1>6. CASE preempt \/ Halted \/ UNCHANGED vars
  BY <1>4, <1>6 DEF preempt, Halted, vars, driver, keyboard
<1> QED BY <1>2, <1>3, <1>5, <1>6 DEF Next

\* A character is stored for the first make code of a press, once, and for no
\* other code; a press is lost only when every event of the pool waits.
THEOREM KeyboardOncePerPress == Spec => OncePerPress
<1>1. PoolInv /\ PressInv /\ [Next]_vars =>
        [LET code == Head(wire) IN
         keyboard_irq_handler =>
           (Len(kbd_pending_list') = Len(kbd_pending_list) + 1
             <=> code.first /\ code.key \in Letters /\ Len(kbd_pending_list) < KBD_BUFFER_SIZE)]_vars
  <2> DEFINE code == Head(wire)
  <2> SUFFICES ASSUME PoolInv, PressInv, keyboard_irq_handler
               PROVE  Len(kbd_pending_list') = Len(kbd_pending_list) + 1
                        <=> code.first /\ code.key \in Letters /\ Len(kbd_pending_list) < KBD_BUFFER_SIZE
    OBVIOUS
  <2> USE KeyboardAssumption
  <2>1. wire # <<>> /\ wire \in Seq(Codes) /\ code \in Codes /\ Head(wire) = wire[1] /\ 1 \in DOMAIN wire
    <3>1. wire # <<>> /\ wire \in Seq(Codes)
      BY DEF keyboard_irq_handler, PoolInv, TypeOK, Codes
    <3> QED BY <3>1, TailFacts
  <2>2. kbd_free_list \in Seq(Events) /\ kbd_pending_list \in Seq(Events)
    BY DEF PoolInv, TypeOK
  <2>3. kbd_free_list # <<>> <=> Len(kbd_pending_list) < KBD_BUFFER_SIZE
    <3>1. Len(kbd_free_list) + Len(kbd_pending_list) = KBD_BUFFER_SIZE
      BY <2>2, Alone DEF PoolInv, Counted, keyboard_irq_handler
    <3> QED BY <2>2, <3>1
  <2>4. ASSUME kbd_pending_list' = kbd_pending_list
        PROVE  ~(Len(kbd_pending_list') = Len(kbd_pending_list) + 1)
    BY <2>2, <2>4
  <2>5. CASE code.key \in Letters
    <3>1. /\ code.first => code.make
          /\ code.make => (code.first <=> ~scancode_down[code.key])
      <4>1. FollowsKey(wire, code.key, scancode_down, held)
        BY <2>5 DEF PressInv, Follows, Typing
      <4>2. FirstOf(wire, code.key, 1)
        BY <2>1 DEF FirstOf
      <4> QED BY <2>1, <4>1, <4>2 DEF FollowsKey
    <3>2. IF code.make /\ ~scancode_down[code.key] THEN store_char(code) ELSE UNCHANGED lists
      BY <2>5 DEF keyboard_irq_handler, keyboard_process_scancode
    <3>3. CASE code.make /\ ~scancode_down[code.key] /\ kbd_free_list # <<>>
      <4>1. can_store(ascii(code))
        <5>1. ascii(code) \in Chars
          BY <2>5 DEF ascii, Chars, shift_xor_caps, PoolInv, TypeOK
        <5> QED BY <3>3, <5>1 DEF can_store
      <4>2. kbd_pending_list' = Append(kbd_pending_list, Head(kbd_free_list))
        BY <3>2, <3>3, <4>1 DEF store_char, list_add_tail
      <4>3. Len(kbd_pending_list') = Len(kbd_pending_list) + 1
        BY <2>2, <3>3, <4>2
      <4> QED BY <2>3, <2>5, <3>1, <3>3, <4>3
    <3>4. CASE ~(code.make /\ ~scancode_down[code.key] /\ kbd_free_list # <<>>)
      <4>1. kbd_pending_list' = kbd_pending_list
        BY <3>2, <3>4 DEF store_char, can_store, lists
      <4> QED BY <2>3, <2>4, <3>1, <3>4, <4>1
    <3> QED BY <3>3, <3>4
  <2>6. CASE code.key \notin Letters
    <3>1. kbd_pending_list' = kbd_pending_list
      <4>1. CASE UNCHANGED driver
        BY <4>1 DEF driver
      <4>2. CASE keyboard_process_scancode(code)
        <5>1. ~can_store(ascii(code))
          BY <2>6 DEF can_store, ascii
        <5> QED BY <4>2, <5>1 DEF keyboard_process_scancode, store_char, lists
      <4> QED BY <4>1, <4>2 DEF keyboard_irq_handler
    <3> QED BY <2>4, <2>6, <3>1
  <2> QED BY <2>5, <2>6
<1> QED BY <1>1, PressStep, PressInit, PoolInit, PoolStep, PTL DEF Spec, OncePerPress

(***************************************************************************)
(* The case of what is typed. The driver learns of shift and caps lock     *)
(* late: shift and caps are the places on the wire at which the driver     *)
(* will believe them on when it comes there.                               *)
(***************************************************************************)
Yes(flag) == flag = TRUE
Foreseen(w, shift, caps, pressed, locked, hands, on) ==
  /\ 1 \in shift <=> Yes(pressed)
  /\ 1 \in caps <=> Yes(locked)
  /\ \A i \in DOMAIN w :
       /\ w[i].key \in Shifts => (i + 1 \in shift <=> Yes(w[i].make))
       /\ w[i].key \notin Shifts => (i + 1 \in shift <=> i \in shift)
       /\ w[i].key = Caps /\ Yes(w[i].make) => (i + 1 \in caps <=> i \notin caps)
       /\ ~(w[i].key = Caps /\ Yes(w[i].make)) => (i + 1 \in caps <=> i \in caps)
       /\ Yes(w[i].upper) <=> ~(i \in shift <=> i \in caps)
  /\ Len(w) + 1 \in shift <=> hands \cap Shifts # {}
  /\ Len(w) + 1 \in caps <=> Yes(on)
Foresees(w, pressed, locked, hands, on) ==
  \E shift, caps \in SUBSET Nat : Foreseen(w, shift, caps, pressed, locked, hands, on)
CaseInv == Meant /\ Foresees(wire, shift_pressed, caps_lock, held, capsOn)

LEMMA CaseInit == Init => CaseInv
<1> SUFFICES ASSUME Init PROVE CaseInv
  OBVIOUS
<1>1. /\ wire = <<>> /\ held = {} /\ shift_pressed = FALSE /\ caps_lock = FALSE /\ capsOn = FALSE
      /\ kbd_pending_list = <<>>
  BY DEF Init
<1>2. Foreseen(wire, {}, {}, shift_pressed, caps_lock, held, capsOn)
  BY <1>1 DEF Foreseen, Yes
<1> QED BY <1>1, <1>2 DEF CaseInv, Foresees, Meant

\* A code sent is seen when the driver comes to it.
LEMMA SentForeseen ==
  ASSUME NEW w \in Seq(Codes), NEW code \in Codes, NEW pressed, NEW locked,
         NEW hands, NEW on, NEW handsAfter, NEW onAfter,
         Foresees(w, pressed, locked, hands, on),
         Yes(code.upper) <=> ~(hands \cap Shifts # {} <=> Yes(on)),
         code.key \in Shifts => (handsAfter \cap Shifts # {} <=> Yes(code.make)),
         code.key \notin Shifts => (handsAfter \cap Shifts # {} <=> hands \cap Shifts # {}),
         code.key = Caps /\ Yes(code.make) => (Yes(onAfter) <=> ~Yes(on)),
         ~(code.key = Caps /\ Yes(code.make)) => (Yes(onAfter) <=> Yes(on))
  PROVE  Foresees(Append(w, code), pressed, locked, handsAfter, onAfter)
<1>1. PICK shift, caps \in SUBSET Nat : Foreseen(w, shift, caps, pressed, locked, hands, on)
  BY DEF Foresees
<1> DEFINE n == Len(w)
           new == Append(w, code)
           downAt == {i \in 1 .. n + 2 : IF i = n + 2 THEN handsAfter \cap Shifts # {} ELSE i \in shift}
           onAt == {i \in 1 .. n + 2 : IF i = n + 2 THEN Yes(onAfter) ELSE i \in caps}
<1>2. /\ n \in Nat /\ DOMAIN w = 1 .. n /\ DOMAIN new = 1 .. n + 1 /\ Len(new) = n + 1
      /\ new[n + 1] = code /\ \A i \in 1 .. n : new[i] = w[i]
  OBVIOUS
<1>3. /\ n + 2 \in downAt <=> handsAfter \cap Shifts # {}
      /\ n + 2 \in onAt <=> Yes(onAfter)
      /\ \A i \in 1 .. n + 1 : (i \in downAt <=> i \in shift) /\ (i \in onAt <=> i \in caps)
      /\ downAt \in SUBSET Nat /\ onAt \in SUBSET Nat
  BY <1>2
<1> HIDE DEF n, new, downAt, onAt
<1>4. /\ n + 1 \in shift <=> hands \cap Shifts # {}
      /\ n + 1 \in caps <=> Yes(on)
      /\ 1 \in shift <=> Yes(pressed)
      /\ 1 \in caps <=> Yes(locked)
  BY <1>1 DEF Foreseen, n
<1>5. ASSUME NEW i \in 1 .. n
      PROVE  /\ new[i].key \in Shifts => (i + 1 \in downAt <=> Yes(new[i].make))
             /\ new[i].key \notin Shifts => (i + 1 \in downAt <=> i \in downAt)
             /\ new[i].key = Caps /\ Yes(new[i].make) => (i + 1 \in onAt <=> i \notin onAt)
             /\ ~(new[i].key = Caps /\ Yes(new[i].make)) => (i + 1 \in onAt <=> i \in onAt)
             /\ Yes(new[i].upper) <=> ~(i \in downAt <=> i \in onAt)
  <2>1. new[i] = w[i] /\ i \in DOMAIN w /\ i \in 1 .. n + 1 /\ i + 1 \in 1 .. n + 1
    BY <1>2
  <2> QED BY <1>1, <1>3, <2>1 DEF Foreseen
<1>6. /\ new[n + 1].key \in Shifts => ((n + 1) + 1 \in downAt <=> Yes(new[n + 1].make))
      /\ new[n + 1].key \notin Shifts => ((n + 1) + 1 \in downAt <=> n + 1 \in downAt)
      /\ new[n + 1].key = Caps /\ Yes(new[n + 1].make) => ((n + 1) + 1 \in onAt <=> n + 1 \notin onAt)
      /\ ~(new[n + 1].key = Caps /\ Yes(new[n + 1].make)) => ((n + 1) + 1 \in onAt <=> n + 1 \in onAt)
      /\ Yes(new[n + 1].upper) <=> ~(n + 1 \in downAt <=> n + 1 \in onAt)
  <2>1. (n + 1) + 1 = n + 2 /\ n + 1 \in 1 .. n + 1 /\ new[n + 1] = code
    BY <1>2
  <2> QED BY <1>3, <1>4, <2>1
<1>7. Foreseen(new, downAt, onAt, pressed, locked, handsAfter, onAfter)
  <2>1. \A i \in DOMAIN new : i \in 1 .. n \/ i = n + 1
    BY <1>2
  <2>2. 1 \in 1 .. n + 1 /\ (n + 1) + 1 = n + 2
    BY <1>2
  <2> QED BY <1>2, <1>3, <1>4, <1>5, <1>6, <2>1, <2>2 DEF Foreseen
<1> QED BY <1>3, <1>7 DEF Foresees, new

\* A code handled is what was foreseen of it.
LEMMA HandledForeseen ==
  ASSUME NEW w \in Seq(Codes), w # <<>>, NEW pressed, NEW locked,
         NEW pressedAfter, NEW lockedAfter, NEW hands, NEW on,
         Foresees(w, pressed, locked, hands, on),
         w[1].key \in Shifts => (Yes(pressedAfter) <=> Yes(w[1].make)),
         w[1].key \notin Shifts => (Yes(pressedAfter) <=> Yes(pressed)),
         w[1].key = Caps /\ Yes(w[1].make) => (Yes(lockedAfter) <=> ~Yes(locked)),
         ~(w[1].key = Caps /\ Yes(w[1].make)) => (Yes(lockedAfter) <=> Yes(locked))
  PROVE  /\ Foresees(Tail(w), pressedAfter, lockedAfter, hands, on)
         /\ Yes(w[1].upper) <=> ~(Yes(pressed) <=> Yes(locked))
<1>1. PICK shift, caps \in SUBSET Nat : Foreseen(w, shift, caps, pressed, locked, hands, on)
  BY DEF Foresees
<1> DEFINE n == Len(w)
           new == Tail(w)
           downAt == {i \in 1 .. n : i + 1 \in shift}
           onAt == {i \in 1 .. n : i + 1 \in caps}
<1>2. /\ n \in Nat /\ n >= 1 /\ DOMAIN w = 1 .. n /\ DOMAIN new = 1 .. n - 1
      /\ Len(new) = n - 1 /\ \A i \in 1 .. n - 1 : new[i] = w[i + 1] /\ i + 1 \in 1 .. n
  OBVIOUS
<1>3. /\ downAt \in SUBSET Nat /\ onAt \in SUBSET Nat
      /\ \A i \in 1 .. n : (i \in downAt <=> i + 1 \in shift) /\ (i \in onAt <=> i + 1 \in caps)
  BY <1>2
<1> HIDE DEF n, new, downAt, onAt
<1>4. /\ n + 1 \in shift <=> hands \cap Shifts # {}
      /\ n + 1 \in caps <=> Yes(on)
      /\ 1 \in shift <=> Yes(pressed)
      /\ 1 \in caps <=> Yes(locked)
  BY <1>1 DEF Foreseen, n
<1>5. /\ w[1].key \in Shifts => (1 + 1 \in shift <=> Yes(w[1].make))
      /\ w[1].key \notin Shifts => (1 + 1 \in shift <=> 1 \in shift)
      /\ w[1].key = Caps /\ Yes(w[1].make) => (1 + 1 \in caps <=> 1 \notin caps)
      /\ ~(w[1].key = Caps /\ Yes(w[1].make)) => (1 + 1 \in caps <=> 1 \in caps)
      /\ Yes(w[1].upper) <=> ~(1 \in shift <=> 1 \in caps)
  <2>1. 1 \in DOMAIN w
    BY <1>2
  <2> QED BY <1>1, <2>1 DEF Foreseen
<1>6. (1 \in downAt <=> Yes(pressedAfter)) /\ (1 \in onAt <=> Yes(lockedAfter))
  <2>1. 1 \in 1 .. n
    BY <1>2
  <2> QED BY <1>3, <1>4, <1>5, <2>1
<1>7. ASSUME NEW i \in 1 .. n - 1
      PROVE  /\ new[i].key \in Shifts => (i + 1 \in downAt <=> Yes(new[i].make))
             /\ new[i].key \notin Shifts => (i + 1 \in downAt <=> i \in downAt)
             /\ new[i].key = Caps /\ Yes(new[i].make) => (i + 1 \in onAt <=> i \notin onAt)
             /\ ~(new[i].key = Caps /\ Yes(new[i].make)) => (i + 1 \in onAt <=> i \in onAt)
             /\ Yes(new[i].upper) <=> ~(i \in downAt <=> i \in onAt)
  <2>1. new[i] = w[i + 1] /\ i + 1 \in DOMAIN w /\ i \in 1 .. n /\ i + 1 \in 1 .. n
    BY <1>2
  <2> QED BY <1>1, <1>3, <2>1 DEF Foreseen
<1>8. Foreseen(new, downAt, onAt, pressedAfter, lockedAfter, hands, on)
  <2>1. n \in 1 .. n /\ Len(new) + 1 = n
    BY <1>2
  <2>2. /\ Len(new) + 1 \in downAt <=> hands \cap Shifts # {}
        /\ Len(new) + 1 \in onAt <=> Yes(on)
    BY <1>3, <1>4, <2>1
  <2> QED BY <1>2, <1>6, <1>7, <2>2 DEF Foreseen
<1>9. Foresees(new, pressedAfter, lockedAfter, hands, on)
  BY <1>3, <1>8 DEF Foresees
<1> QED BY <1>4, <1>5, <1>9 DEF new

\* What the user does, with one shift key and a caps lock that does not repeat,
\* changes the case of what comes after it alone.
LEMMA UserForeseen ==
  ASSUME PoolInv, PressInv, CaseInv, User,
         \A s, t \in Shifts : s = t, Caps \notin Repeating
  PROVE  Foresees(wire', shift_pressed, caps_lock, held', capsOn')
<1> USE KeyboardAssumption
<1>1. /\ wire \in Seq(Codes) /\ held \subseteq Keys /\ capsOn \in BOOLEAN
      /\ Foresees(wire, shift_pressed, caps_lock, held, capsOn)
  BY DEF PoolInv, TypeOK, Codes, CaseInv
<1>2. ASSUME NEW k, NEW make \in BOOLEAN, NEW first
      PROVE  /\ Code(k, make, first).key = k /\ Code(k, make, first).make = make
             /\ Yes(Code(k, make, first).upper)
                  <=> ~(held \cap Shifts # {} <=> Yes(capsOn))
  BY <1>1 DEF Code, Yes
<1>3. \A k \in Keys, make, first \in BOOLEAN : Code(k, make, first) \in Codes
  BY <1>1 DEF Code, Codes
<1>4. ASSUME NEW k \in Keys, Press(k)
      PROVE  Foresees(wire', shift_pressed, caps_lock, held', capsOn')
  <2> DEFINE code == Code(k, TRUE, TRUE)
  <2>1. /\ wire' = Append(wire, code) /\ held' = held \cup {k}
        /\ capsOn' = (capsOn # (k = Caps))
    BY <1>4 DEF Press
  <2>2. /\ code \in Codes /\ code.key = k /\ Yes(code.make)
        /\ Yes(code.upper) <=> ~(held \cap Shifts # {} <=> Yes(capsOn))
    BY <1>2, <1>3 DEF Yes
  <2> HIDE DEF code
  <2>3. /\ k \in Shifts => held' \cap Shifts # {}
        /\ k \notin Shifts => (held' \cap Shifts # {} <=> held \cap Shifts # {})
    BY <2>1
  <2>4. /\ k = Caps => (Yes(capsOn') <=> ~Yes(capsOn))
        /\ k # Caps => (Yes(capsOn') <=> Yes(capsOn))
    BY <1>1, <2>1 DEF Yes
  <2> QED BY ONLY <1>1, <2>1, <2>2, <2>3, <2>4, SentForeseen
<1>5. ASSUME NEW k \in Keys, Release(k)
      PROVE  Foresees(wire', shift_pressed, caps_lock, held', capsOn')
  <2> DEFINE code == Code(k, FALSE, FALSE)
  <2>1. /\ wire' = Append(wire, code) /\ held' = held \ {k} /\ capsOn' = capsOn
    BY <1>5 DEF Release
  <2>2. /\ code \in Codes /\ code.key = k /\ code.make = FALSE
        /\ Yes(code.upper) <=> ~(held \cap Shifts # {} <=> Yes(capsOn))
    BY <1>2, <1>3
  <2> HIDE DEF code
  <2>3. /\ k \in Shifts => held' \cap Shifts = {}
        /\ k \notin Shifts => (held' \cap Shifts # {} <=> held \cap Shifts # {})
    BY <2>1
  <2>4. ~Yes(code.make)
    BY <2>2 DEF Yes
  <2> QED BY ONLY <1>1, <2>1, <2>2, <2>3, <2>4, SentForeseen
<1>6. ASSUME Repeat
      PROVE  Foresees(wire', shift_pressed, caps_lock, held', capsOn')
  <2> DEFINE code == Code(repeats, TRUE, FALSE)
  <2>1. /\ wire' = Append(wire, code) /\ held' = held /\ capsOn' = capsOn
        /\ repeats # Caps /\ repeats \in Keys /\ repeats \in held
    BY <1>6, CharsAreSome DEF Repeat, PressInv, Holds
  <2>2. /\ code \in Codes /\ code.key = repeats /\ Yes(code.make)
        /\ Yes(code.upper) <=> ~(held \cap Shifts # {} <=> Yes(capsOn))
    BY <1>2, <1>3, <2>1 DEF Yes
  <2> HIDE DEF code
  <2>3. repeats \in Shifts => held' \cap Shifts # {}
    BY <2>1
  <2> QED BY ONLY <1>1, <2>1, <2>2, <2>3, SentForeseen
<1> QED BY <1>4, <1>5, <1>6 DEF User

\* A character stored has the case foreseen, and the others keep theirs.
LEMMA IrqCase ==
  ASSUME PoolInv, CaseInv, keyboard_irq_handler
  PROVE  CaseInv'
<1> USE KeyboardAssumption
<1> DEFINE code == Head(wire)
<1>1. /\ wire # <<>> /\ wire \in Seq(Codes) /\ code = wire[1] /\ code \in Codes
      /\ wire' = Tail(wire) /\ held' = held /\ capsOn' = capsOn
  <2>1. wire # <<>> /\ wire \in Seq(Codes) /\ wire' = Tail(wire) /\ held' = held /\ capsOn' = capsOn
    BY DEF keyboard_irq_handler, PoolInv, TypeOK, Codes
  <2> QED BY <2>1, TailFacts
<1>2. /\ shift_pressed \in BOOLEAN /\ caps_lock \in BOOLEAN
      /\ Foresees(wire, shift_pressed, caps_lock, held, capsOn)
      /\ code.make \in BOOLEAN /\ code.upper \in BOOLEAN
  BY <1>1 DEF PoolInv, TypeOK, CaseInv, Codes
<1>3. \/ code.key = Esc /\ UNCHANGED driver
      \/ keyboard_process_scancode(code)
  BY DEF keyboard_irq_handler
<1> HIDE DEF code
<1>4. /\ code.key \in Shifts => (Yes(shift_pressed') <=> Yes(code.make))
      /\ code.key \notin Shifts => (Yes(shift_pressed') <=> Yes(shift_pressed))
  <2>1. CASE code.key = Esc /\ UNCHANGED driver
    BY <2>1 DEF driver
  <2>2. CASE keyboard_process_scancode(code)
    BY <2>2 DEF keyboard_process_scancode, set_shift
  <2> QED BY <1>3, <2>1, <2>2
<1>5. /\ code.key = Caps /\ Yes(code.make) => (Yes(caps_lock') <=> ~Yes(caps_lock))
      /\ ~(code.key = Caps /\ Yes(code.make)) => (Yes(caps_lock') <=> Yes(caps_lock))
  <2>1. CASE code.key = Esc /\ UNCHANGED driver
    BY <2>1 DEF driver
  <2>2. CASE keyboard_process_scancode(code) /\ code.key # Caps
    BY <2>2 DEF keyboard_process_scancode
  <2>3. CASE keyboard_process_scancode(code) /\ code.key = Caps
    <3>1. caps_lock' = (caps_lock # code.make)
      BY <2>3 DEF keyboard_process_scancode
    <3> QED BY <1>2, <2>3, <3>1 DEF Yes
  <2> QED BY <1>3, <2>1, <2>2, <2>3
<1>6. /\ Foresees(wire', shift_pressed', caps_lock', held', capsOn')
      /\ Yes(code.upper) <=> ~(Yes(shift_pressed) <=> Yes(caps_lock))
  <2>1. /\ wire[1].key \in Shifts => (Yes(shift_pressed') <=> Yes(wire[1].make))
        /\ wire[1].key \notin Shifts => (Yes(shift_pressed') <=> Yes(shift_pressed))
        /\ wire[1].key = Caps /\ Yes(wire[1].make) => (Yes(caps_lock') <=> ~Yes(caps_lock))
        /\ ~(wire[1].key = Caps /\ Yes(wire[1].make)) => (Yes(caps_lock') <=> Yes(caps_lock))
    BY <1>1, <1>4, <1>5
  <2>2. /\ Foresees(Tail(wire), shift_pressed', caps_lock', held, capsOn)
        /\ Yes(wire[1].upper) <=> ~(Yes(shift_pressed) <=> Yes(caps_lock))
    <3>1. Foresees(wire, shift_pressed, caps_lock, held, capsOn)
      BY <1>2
    <3> QED BY ONLY <1>1, <2>1, <3>1, HandledForeseen
  <2> QED BY <1>1, <2>2
<1>7. Meant'
  <2>1. \/ UNCHANGED <<kbd_pending_list, evt, meant>>
        \/ store_char(code) /\ code.key \in Letters \cup Modifiers
    BY <1>3 DEF keyboard_process_scancode, lists, driver
  <2>2. CASE UNCHANGED <<kbd_pending_list, evt, meant>>
    BY <2>2 DEF CaseInv, Meant
  <2>3. CASE store_char(code) /\ can_store(ascii(code))
    <3> DEFINE e == Head(kbd_free_list)
    <3>1. /\ kbd_pending_list' = Append(kbd_pending_list, e)
          /\ evt' = [evt EXCEPT ![e] = ascii(code)] /\ meant' = [meant EXCEPT ![e] = code.upper]
          /\ kbd_free_list # <<>> /\ ascii(code) # None
      BY <2>3 DEF store_char, list_add_tail, can_store
    <3>2. /\ kbd_pending_list \in Seq(Events) /\ kbd_free_list \in Seq(Events)
          /\ evt \in [Events -> Chars] /\ meant \in [Events -> BOOLEAN]
      BY DEF PoolInv, TypeOK
    <3>3. e \in Events /\ ~On(kbd_pending_list, e)
      BY <3>1, <3>2, TailFacts DEF PoolInv, PoolExact
    <3>4. ascii(code).upper = (shift_pressed # caps_lock)
      BY <3>1 DEF ascii, shift_xor_caps
    <3> HIDE DEF e
    <3>5. evt'[e].upper = meant'[e]
      <4>1. evt'[e] = ascii(code) /\ meant'[e] = code.upper
        BY <3>1, <3>2, <3>3
      <4>2. (shift_pressed # caps_lock) = code.upper
        BY <1>2, <1>6 DEF Yes
      <4> QED BY <3>4, <4>1, <4>2
    <3>6. ASSUME NEW i \in DOMAIN kbd_pending_list'
          PROVE  evt'[kbd_pending_list'[i]].upper = meant'[kbd_pending_list'[i]]
      <4>1. CASE i \in DOMAIN kbd_pending_list
        <5>1. kbd_pending_list'[i] = kbd_pending_list[i] /\ kbd_pending_list[i] \in Events
          BY <3>1, <3>2, <4>1
        <5>2. kbd_pending_list[i] # e
          BY <3>3, <4>1 DEF On
        <5> QED BY <3>1, <3>2, <4>1, <5>1, <5>2 DEF CaseInv, Meant
      <4>2. CASE i \notin DOMAIN kbd_pending_list
        <5>1. kbd_pending_list'[i] = e
          BY <3>1, <3>2, <4>2
        <5> QED BY <3>5, <5>1
      <4> QED BY <4>1, <4>2
    <3> QED BY <3>6 DEF Meant
  <2>4. CASE store_char(code) /\ ~can_store(ascii(code))
    BY <2>4 DEF store_char, CaseInv, Meant
  <2> QED BY <2>1, <2>2, <2>3, <2>4
<1> QED BY <1>6, <1>7 DEF CaseInv

LEMMA CaseStep ==
  ASSUME PoolInv, PressInv, CaseInv, [Next]_vars,
         \A s, t \in Shifts : s = t, Caps \notin Repeating
  PROVE  CaseInv'
<1>1. CASE User
  <2>1. UNCHANGED driver
    BY <1>1 DEF User, Press, Repeat, Release
  <2>2. Meant'
    BY <2>1 DEF driver, CaseInv, Meant
  <2>3. Foresees(wire', shift_pressed, caps_lock, held', capsOn')
    BY <1>1, UserForeseen
  <2> QED BY <2>1, <2>2, <2>3 DEF CaseInv, driver
<1>2. CASE keyboard_irq_handler
  BY <1>2, IrqCase
<1>3. ASSUME UNCHANGED <<wire, shift_pressed, caps_lock, held, capsOn, evt, meant>>,
             \A e : On(kbd_pending_list', e) => On(kbd_pending_list, e)
      PROVE  CaseInv'
  <2>1. \A i \in DOMAIN kbd_pending_list' : On(kbd_pending_list, kbd_pending_list'[i])
    BY <1>3 DEF On
  <2>2. \A e : On(kbd_pending_list, e) => evt[e].upper = meant[e]
    BY DEF On, CaseInv, Meant
  <2> QED BY <1>3, <2>1, <2>2 DEF CaseInv, Meant
<1>4. CASE Getchar
  <2>1. PICK p \in Readers : keyboard_getchar(p)
    BY <1>4 DEF Getchar
  <2>2. UNCHANGED <<wire, shift_pressed, caps_lock, held, capsOn, evt, meant>>
    BY <2>1 DEF keyboard_getchar, disable_interrupts, check, unlink, read, put_back,
       enable_interrupts, return, Goto, keyboard
  <2>3. \/ UNCHANGED kbd_pending_list
        \/ pc[p] = "unlink" /\ kbd_pending_list' = Without(kbd_pending_list, node[p])
    BY <2>1 DEF keyboard_getchar, disable_interrupts, check, unlink, read, put_back,
       enable_interrupts, return, Goto
  <2>4. ASSUME pc[p] = "unlink", NEW e, On(Without(kbd_pending_list, node[p]), e)
        PROVE  On(kbd_pending_list, e)
    <3>1. /\ kbd_pending_list \in Seq(Events) /\ kbd_pending_list # <<>> /\ Once(kbd_pending_list)
          /\ node[p] = Head(kbd_pending_list)
      BY <2>4 DEF PoolInv, TypeOK, PoolExact, Selected
    <3>2. Without(kbd_pending_list, node[p]) = Tail(kbd_pending_list)
      BY <3>1, WithoutFacts
    <3> QED BY <2>4, <3>1, <3>2, TailFacts
  <2> QED BY <1>3, <2>2, <2>3, <2>4
<1>5. CASE preempt \/ Halted \/ UNCHANGED vars
  BY <1>3, <1>5 DEF preempt, Halted, vars, driver, keyboard
<1> QED BY <1>1, <1>2, <1>4, <1>5 DEF Next

\* Every character has the case the user meant, however late the interrupt that
\* stores it, with one shift key and a caps lock that is not held until it repeats.
THEOREM KeyboardMeant ==
  ASSUME \A s, t \in Shifts : s = t, Caps \notin Repeating
  PROVE  Spec => []Meant
<1>1. PoolInv /\ PressInv /\ CaseInv /\ [Next]_vars => CaseInv'
  BY CaseStep
<1>2. CaseInv => Meant
  BY DEF CaseInv
<1> QED BY <1>1, <1>2, CaseInit, PressStep, PressInit, PoolInit, PoolStep, PTL DEF Spec
====
