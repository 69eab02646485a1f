---- MODULE Interrupts ----
(***************************************************************************)
(* Interrupts on the one processor: cpu.c, idt.c and interrupts.asm, the   *)
(* LAPIC (lapic.c) and the I/O APIC's entry for the keyboard (ioapic.c).   *)
(*                                                                         *)
(* An interrupt is requested (irr), taken into service (isr) at the end of *)
(* an instruction if IF is set, and in service until its EOI. The vectors  *)
(* 0x20 and 0x21 are of one priority class: none is taken while either is  *)
(* in service, and 0x21 goes first. A handler is the sequence of its steps.*)
(***************************************************************************)
EXTENDS Integers, Sequences

Vectors == {"timer", "keyboard"}
Contexts == {"kmain", "thread1"}

VARIABLES
  intr,                    \* RFLAGS.IF
  irr, isr,                \* the LAPIC's requests, and what is in service
  apic,                    \* the LAPIC is enabled (LAPIC_SVR)
  routed,                  \* the I/O APIC delivers IRQ 1
  handlers,                \* interrupt_handlers: the vectors registered
  on,                      \* whose stack is in use
  doing                    \* the steps each context has left in a handler

interruptVars == <<intr, irr, isr, apic, routed, handlers, on, doing>>
lapicVars == <<irr, isr, apic, routed>>

InterruptsInit ==
  /\ intr = FALSE /\ irr = {} /\ isr = {}
  /\ apic = FALSE /\ routed = FALSE /\ handlers = {}
  /\ on = "kmain" /\ doing = [c \in Contexts |-> <<>>]

enable_interrupts == intr' = TRUE

\* The requests once v has been raised.
Requested(v) == IF apic THEN irr \cup {v} ELSE irr

\* A rising edge of IRQ 1 is lost while the I/O APIC's entry is masked.
Edge == IF routed THEN Requested("keyboard") ELSE irr

\* 0x8E: an interrupt gate clears IF.
interrupt_gate == intr' = FALSE

InHandler == doing[on] # <<>>
Deliverable == {v \in irr : intr /\ isr = {} /\ (v = "timer" => "keyboard" \notin irr)}

\* A vector nobody registered is ignored, and not acknowledged either. What the
\* interrupt came in the middle of is left for later: it may be a handler.
idt_handler_c(v, handler) ==
  /\ irr' = irr \ {v} /\ isr' = isr \cup {v}
  /\ interrupt_gate
  /\ doing' = [doing EXCEPT ![on] =
                 (IF v \in handlers THEN handler ELSE <<>>) \o <<"iretq">> \o @]
  /\ UNCHANGED <<apic, routed, handlers, on>>

\* The next step of the handler, and that it has been made.
Next_is(step) == InHandler /\ Head(doing[on]) = step
Stepped == doing' = [doing EXCEPT ![on] = Tail(@)]

\* One vector at most is in service.
lapic_eoi ==
  /\ Next_is("lapic_eoi") /\ Stepped
  /\ isr' = {}
  /\ UNCHANGED <<intr, irr, apic, routed, handlers, on>>

\* Back to what was interrupted, which had interrupts enabled.
iretq ==
  /\ Next_is("iretq") /\ Stepped
  /\ intr' = TRUE
  /\ UNCHANGED <<lapicVars, handlers, on>>
====
