---- MODULE Boot ----
(***************************************************************************)
(* The start of the kernel: kernel_init (init.c), kmain's first sleep and  *)
(* its only thread, to its end (main.c), on the interrupts, the timer and  *)
(* the PS/2 controller, which run beside it from the moment each is on.    *)
(*                                                                         *)
(* kmain is at one step of its program. Most steps are one action here,    *)
(* and established is what those done so far have made usable; the delay   *)
(* of the calibration, the waits of ps2.c, and handlers run step by step.  *)
(***************************************************************************)
EXTENDS Timer, Ps2

CONSTANT Machines          \* what firmware and user may be like

ASSUME BootAssumption ==
  \A m \in Machines :
    /\ m.rate \in Nat /\ m.keys \in Nat
    /\ m.obf \in {NULL} \cup Scancodes /\ m.config \subseteq Bits
    /\ get_acpi_pm_timer_port(m.rsdp) \in Nat

VARIABLES
  todo,                    \* the steps kmain has before it
  established,             \* what has been initialised
  halted,                  \* per context: it is in "sti; hlt"
  created                  \* thread1 is in the ready queue

bootVars == <<todo, established, halted, created>>
vars == <<interruptVars, timerVars, ps2Vars, bootVars>>

\* Mutant: the scheduler before the heap.
kernel_init_heap_late ==
  <<"serial_init", "limine_init", "pmm_init", "screen_init", "vmm_init", "gdt_init", "idt_init",
    "sched_init", "heap_init", "lapic_timer_device_init", "register timer",
    "ioapic_init_keyboard", "ps2_keyboard_enable", "event lists", "register keyboard",
    "screen_flush", "enable_interrupts">>

kernel_init ==
  <<"serial_init", "limine_init", "pmm_init", "screen_init", "vmm_init", "gdt_init", "idt_init",
    "heap_init", "sched_init", "lapic_timer_device_init", "register timer",
    "ioapic_init_keyboard", "ps2_keyboard_enable", "event lists", "register keyboard",
    "screen_flush", "enable_interrupts">>

kmain == kernel_init \o <<"sleep_ms", "sleeping", "thread_start">>

\* What each step, and each step of a handler, needs from those before it.
Needs(step) ==
  CASE step = "pmm_init" -> {"limine_init"}
    [] step = "screen_init" -> {"limine_init", "pmm_init"}
    [] step = "vmm_init" -> {"limine_init", "pmm_init"}
    [] step = "idt_init" -> {"gdt_init", "vmm_init"}      \* CS; the LAPIC's page
    [] step = "heap_init" -> {"vmm_init"}
    [] step = "sched_init" -> {"heap_init"}
    [] step = "lapic_timer_device_init" -> {"idt_init"}
    [] step = "ioapic_init_keyboard" -> {"idt_init"}
    [] step = "screen_flush" -> {"screen_init", "vmm_init"}
    [] step = "enable_interrupts" -> {"idt_init"}
    [] step = "sleeping" -> {"lapic_timer_device_init", "enable_interrupts"}
    [] step = "thread_start" -> {"sched_init"}
    [] step = "timer_tick_event" -> {"sched_init"}
    [] step = "inb 0x60" -> {"event lists"}
    [] step = "lapic_eoi" -> {"idt_init"}
    [] OTHER -> {}

Init ==
  /\ InterruptsInit
  /\ \E m \in Machines :
       TimerInit(m.rsdp, m.rate) /\ Ps2Init(m.obf, m.config, m.keys)
  /\ todo = kmain /\ established = {}
  /\ halted = [c \in Contexts |-> FALSE] /\ created = FALSE

\* The processor takes an interrupt rather than the next instruction.
Executes(c) == on = c /\ ~InHandler /\ Deliverable = {}
At(step) == Executes("kmain") /\ todo # <<>> /\ Head(todo) = step
Done(step) == todo' = Tail(todo) /\ established' = established \cup {step}

Simple == {"serial_init", "limine_init", "pmm_init", "screen_init", "vmm_init", "gdt_init",
           "heap_init", "sched_init", "event lists", "screen_flush"}

\* Steps that only make something usable. Each that fails panics.
init_step ==
  /\ \E step \in Simple : At(step) /\ Done(step)
  /\ UNCHANGED <<interruptVars, timerVars, ps2Vars, halted, created>>

\* lidt, the PICs masked, the LAPIC mapped and enabled.
idt_init ==
  /\ At("idt_init") /\ Done("idt_init")
  /\ apic' = TRUE
  /\ UNCHANGED <<intr, irr, isr, routed, handlers, on, doing, timerVars, ps2Vars, halted, created>>

lapic_timer_device_init ==
  /\ At("lapic_timer_device_init")
  /\ \/ pm_start /\ UNCHANGED <<irr, todo, established>>
     \/ (\E gap \in Gaps : acpi_pm_delay_ms(gap)) /\ UNCHANGED <<irr, todo, established>>
     \/ (\E late \in {0, 1} : lapic_timer_init_callback(late)) /\ Done("lapic_timer_device_init")
  /\ UNCHANGED <<intr, isr, apic, routed, handlers, on, doing, ps2Vars, halted, created>>

idt_register_handler(step, v) ==
  /\ At(step) /\ Done(step)
  /\ handlers' = handlers \cup {v}
  /\ UNCHANGED <<intr, lapicVars, on, doing, timerVars, ps2Vars, halted, created>>

ioapic_init_keyboard ==
  /\ At("ioapic_init_keyboard") /\ Done("ioapic_init_keyboard")
  /\ routed' = TRUE
  /\ UNCHANGED <<intr, irr, isr, apic, handlers, on, doing, timerVars, ps2Vars, halted, created>>

keyboard_init ==
  /\ At("ps2_keyboard_enable")
  /\ \/ op = "idle" /\ Goto("flush")
          /\ UNCHANGED <<todo, established, deviceVars, command_byte, timedout>>
     \/ ps2_keyboard_enable /\ UNCHANGED <<todo, established>>
     \/ op = "enabled" /\ Done("ps2_keyboard_enable") /\ UNCHANGED ps2Vars
  /\ UNCHANGED <<interruptVars, timerVars, halted, created>>

sti ==
  /\ At("enable_interrupts") /\ Done("enable_interrupts")
  /\ enable_interrupts
  /\ UNCHANGED <<lapicVars, handlers, on, doing, timerVars, ps2Vars, halted, created>>

(***************************************************************************)
(* kmain and thread1 once interrupts are enabled                           *)
(***************************************************************************)
sleep_ms ==
  /\ At("sleep_ms") /\ Done("sleep_ms") /\ sleep_begins
  /\ UNCHANGED <<interruptVars, ps2Vars, halted, created>>

\* "sti; hlt": no interrupt falls between the two. A tick that comes after the
\* ticks were read and before sti is taken while halted, and costs nothing; one
\* taken in between costs another tick.
halt_sti(c) ==
  /\ Executes(c) /\ ~halted[c]
  /\ \/ c = "kmain" /\ At("sleeping") /\ ~Slept
     \/ c = "thread1"
  /\ halted' = [halted EXCEPT ![c] = TRUE]
  /\ enable_interrupts
  /\ UNCHANGED <<lapicVars, handlers, on, doing, timerVars, ps2Vars, todo, established, created>>

wake ==
  /\ At("sleeping") /\ Slept /\ ~halted["kmain"] /\ Done("sleeping")
  /\ UNCHANGED <<interruptVars, timerVars, ps2Vars, halted, created>>

thread_start ==
  /\ At("thread_start") /\ Done("thread_start")
  /\ created' = TRUE
  /\ UNCHANGED <<interruptVars, timerVars, ps2Vars, halted>>

\* thread1 ends where it runs, having slept or not. It leaves the queue, and kmain
\* goes on in the handler it was switched from, with interrupts as thread1 had them:
\* disabled if it never slept, which is the case main.c:23 warns of.
thread_terminate ==
  /\ Executes("thread1") /\ ~halted["thread1"]
  /\ created' = FALSE /\ on' = "kmain"
  /\ UNCHANGED <<intr, lapicVars, handlers, doing, timerVars, ps2Vars, todo, established, halted>>

(***************************************************************************)
(* Interrupts                                                              *)
(***************************************************************************)
Handler(v) == IF v = "timer" THEN lapic_timer_irq_handler ELSE keyboard_irq_handler

take_interrupt ==
  /\ \E v \in Deliverable : idt_handler_c(v, Handler(v))
  /\ halted' = [halted EXCEPT ![on] = FALSE]
  /\ UNCHANGED <<timerVars, ps2Vars, todo, established, created>>

\* timer_tick_event calls sched_on_tick, which may switch: to a context in a
\* handler of its own, or to thread1 where it starts.
timer_tick_event ==
  /\ Next_is("timer_tick_event") /\ Stepped
  /\ on' \in {"kmain"} \cup IF created THEN {"thread1"} ELSE {}
  /\ UNCHANGED <<intr, lapicVars, handlers, timerVars, ps2Vars, bootVars>>

handler_step ==
  /\ Deliverable = {}
  /\ \/ lapic_eoi /\ UNCHANGED <<timerVars, ps2Vars, bootVars>>
     \/ iretq /\ UNCHANGED <<timerVars, ps2Vars, bootVars>>
     \/ count_tick /\ UNCHANGED <<ps2Vars, bootVars>>
     \/ read_scancode /\ UNCHANGED <<timerVars, bootVars>>
     \/ timer_tick_event

Instruction ==
  \/ init_step \/ idt_init \/ lapic_timer_device_init
  \/ idt_register_handler("register timer", "timer")
  \/ ioapic_init_keyboard \/ keyboard_init
  \/ idt_register_handler("register keyboard", "keyboard")
  \/ sti \/ sleep_ms \/ wake \/ thread_start
  \/ \E c \in Contexts : halt_sti(c)
  \/ thread_terminate
Processor == Instruction \/ take_interrupt \/ handler_step

\* A handler that cannot be interrupted is shorter than a period.
Tick ==
  /\ TimerTick /\ (InHandler => intr)
  /\ UNCHANGED <<intr, isr, apic, routed, handlers, on, doing, timerVars, ps2Vars, bootVars>>

Controller == (TakeCommand \/ TakeData \/ Deliver) /\ UNCHANGED <<timerVars, bootVars>>
Typing == User /\ UNCHANGED <<timerVars, bootVars>>

Next == Processor \/ Tick \/ Controller \/ Typing
Spec == Init /\ [][Next]_vars

\* The processor executes, between ticks, too; the controller works, and the
\* timer goes on.
Fairness ==
  /\ WF_vars(Processor) /\ SF_vars(Instruction)
  /\ WF_vars(Controller) /\ WF_vars(Tick)
FairSpec == Spec /\ Fairness

(***************************************************************************)
(* Properties                                                              *)
(***************************************************************************)

\* Type invariant.
TypeOK ==
  /\ intr \in BOOLEAN /\ irr \subseteq Vectors /\ isr \subseteq Vectors
  /\ handlers \subseteq Vectors /\ on \in Contexts
  /\ \A c \in Contexts : Len(doing[c]) <= 5
  /\ start \in 0 .. PMRange - 1 /\ ticr \in Nat /\ ticks \in 0 .. SleepTicks
  /\ elapsed \in 0 .. TargetTicks + PMRange
  /\ obf = NULL \/ obf.bits \subseteq Bits
  /\ Len(replies) <= 1 /\ polls \in 0 .. PollLimit - 1

\* Nothing is used before it is initialised, by kmain or by a handler whose
\* interrupt comes as soon as it can.
NothingEarly ==
  Needs(IF InHandler THEN Head(doing[on]) ELSE IF todo = <<>> THEN "" ELSE Head(todo))
    \subseteq established

\* While interrupts are enabled none is in service, on whatever stack its
\* handler was left: else no other would ever be taken.
Acknowledged == intr => isr = {}

\* kmain's first sleep ends, and its thread is started.
KmainStarts == <>(created)
====
