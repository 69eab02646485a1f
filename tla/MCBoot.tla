---- MODULE MCBoot ----
(***************************************************************************)
(* Boot with a PM timer of four values read after one, three or five of    *)
(* its ticks, a delay of six, and waits of two polls. With numbers below   *)
(* 12000 the product of the calibration wraps when the count is read some  *)
(* four delays late, and the count of a fast LAPIC stops after two. The    *)
(* machines that have a PM timer differ in little else, the others in the  *)
(* keyboard.                                                               *)
(***************************************************************************)
EXTENDS Boot

SomeGaps == {1, 3, 5}

Machine(tables, r, byte, bits, n) ==
  [rsdp |-> tables, rate |-> r, obf |-> byte, config |-> bits, keys |-> n]

Facp == [signature |-> "FACP", pm_timer_block |-> 1]
Other == [signature |-> "APIC", pm_timer_block |-> 2]
Rsdp(there, r, x, t) == [found |-> there, revision |-> r, xsdt |-> x, rsdt |-> t]
WithTimer == {Rsdp(TRUE, 2, <<<<Other, Facp>>>>, <<>>), Rsdp(TRUE, 2, <<>>, <<Facp, Other>>)}
WithoutTimer == {Rsdp(TRUE, 2, <<<<Other>>>>, <<Facp>>), Rsdp(TRUE, 0, <<>>, <<Other>>)}
NoTables == Rsdp(FALSE, 0, <<>>, <<>>)

\* LAPIC timers that do not count, or slowly, or fast, and no PM timer; an empty and a
\* full output buffer; the keyboard's interrupt on and off.
SomeMachines ==
  {Machine(rsdp, r, NULL, {"irq1", "xlat"}, 0) : rsdp \in WithTimer, r \in {0, 5}}
    \cup {Machine(Rsdp(TRUE, 2, <<>>, <<Facp, Other>>), 1000, NULL, {"irq1", "xlat"}, 0)}
    \cup {Machine(rsdp, 0, NULL, {"xlat"}, 0) : rsdp \in WithoutTimer}
    \cup {Machine(NoTables, 0, byte, bits, 1) :
            byte \in {NULL} \cup Scancodes, bits \in {{"xlat"}, {"irq1", "xlat"}}}
    \cup {Machine(NoTables, 0, NULL, {"xlat"}, 2)}
====
