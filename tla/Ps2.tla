---- MODULE Ps2 ----
(***************************************************************************)
(* ps2_keyboard_enable (ps2.c) against the controller, the keyboard and a  *)
(* user who may type while the kernel starts. The controller takes what is *)
(* written to it when it likes, so a bounded wait may run out; the kernel  *)
(* goes on as if nothing had happened. Controller and keyboard are the     *)
(* environment.                                                            *)
(***************************************************************************)
EXTENDS Interrupts

CONSTANTS
  PollLimit,               \* polls of a wait (100000)
  NULL

ASSUME Ps2Assumption == PollLimit \in Nat \ {0}

\* What the command byte says: interrupt on IRQ 1, keyboard clock off, translate.
Bits == {"irq1", "clock_off", "xlat"}
Byte(kind, bits) == [kind |-> kind, bits |-> bits]

\* A scancode's bits are any, an acknowledgement is 0xFA.
Scancodes == {Byte("key", b) : b \in {{}, Bits}}
Ack == Byte("ack", {"clock_off", "xlat"})

\* 0xF4, "enable scanning", as data for the keyboard: those two bits, too. The
\* command byte the kernel writes never has them.
EnableScanning == {"clock_off", "xlat"}

VARIABLES
  obf,                     \* the output buffer, NULL when empty
  ibf,                     \* what was written to the controller, until it is taken
  config,                  \* the command byte
  expects,                 \* the next data is the command byte
  replies,                 \* bytes the controller has to deliver
  fifo,                    \* bytes the keyboard has to deliver
  untyped,                 \* keys the user has yet to type
  op, polls,               \* where ps2_keyboard_enable is
  command_byte,
  timedout                 \* history: a wait has run out

deviceVars == <<obf, ibf, config, expects, replies, fifo, untyped>>
enableVars == <<op, polls, command_byte, timedout>>
ps2Vars == <<deviceVars, enableVars>>

\* The firmware may have left a byte behind, and the interrupt off.
Ps2Init(byte, bits, keys) ==
  /\ obf = byte /\ ibf = NULL /\ config = bits
  /\ expects = FALSE /\ replies = <<>> /\ fifo = <<>> /\ untyped = keys
  /\ op = "idle" /\ polls = 0 /\ command_byte = {} /\ timedout = FALSE

(***************************************************************************)
(* The controller, the keyboard and the user                               *)
(***************************************************************************)

\* IRQ 1 follows the output buffer while it is enabled.
Rises(bits, byte) == irr' = IF "irq1" \in bits /\ byte # NULL THEN Edge ELSE irr

TakeCommand ==
  /\ ibf # NULL /\ ibf.port = "command"
  /\ ibf' = NULL
  /\ config' = CASE ibf.value = "0xAD" -> config \cup {"clock_off"}
                 [] ibf.value = "0xAE" -> config \ {"clock_off"}
                 [] OTHER -> config
  /\ expects' = (ibf.value = "0x60")
  /\ replies' = IF ibf.value = "0x20" THEN Append(replies, Byte("config", config)) ELSE replies
  /\ UNCHANGED <<obf, fifo, untyped, enableVars, intr, lapicVars, handlers, on, doing>>

\* Data that no command asked for goes to the keyboard, which answers it; 0xF4
\* makes it forget what it had to send.
TakeData ==
  /\ ibf # NULL /\ ibf.port = "data"
  /\ ibf' = NULL /\ expects' = FALSE
  /\ config' = IF expects THEN ibf.value ELSE config
  /\ IF expects /\ "irq1" \notin config THEN Rises(config', obf) ELSE UNCHANGED irr
  /\ fifo' = IF expects THEN fifo
             ELSE IF ibf.value = EnableScanning THEN <<Ack>> ELSE Append(fifo, Ack)
  /\ UNCHANGED <<obf, replies, untyped, enableVars, intr, isr, apic, routed, handlers, on, doing>>

Deliver ==
  /\ obf = NULL
  /\ \/ /\ replies # <<>>
        /\ obf' = Head(replies) /\ replies' = Tail(replies) /\ UNCHANGED fifo
     \/ /\ replies = <<>> /\ fifo # <<>> /\ "clock_off" \notin config
        /\ obf' = Head(fifo) /\ fifo' = Tail(fifo) /\ UNCHANGED replies
  /\ Rises(config, obf')
  /\ UNCHANGED <<ibf, config, expects, untyped, enableVars, intr, isr, apic, routed, handlers, on, doing>>

User ==
  /\ untyped > 0
  /\ untyped' = untyped - 1
  /\ \E b \in Scancodes : fifo' = Append(fifo, b)
  /\ UNCHANGED <<obf, ibf, config, expects, replies, enableVars, interruptVars>>

(***************************************************************************)
(* ps2.c                                                                   *)
(***************************************************************************)
Goto(next) == op' = next /\ polls' = 0

\* A wait that is not over counts its polls; then the caller goes on.
Poll(next) ==
  IF polls + 1 < PollLimit
  THEN polls' = polls + 1 /\ UNCHANGED <<op, timedout>>
  ELSE Goto(next) /\ timedout' = TRUE

ps2_flush_output_buffer ==
  /\ op = "flush"
  /\ IF obf # NULL THEN obf' = NULL /\ UNCHANGED <<op, polls>>
                   ELSE Goto("0xAD") /\ UNCHANGED obf
  /\ UNCHANGED <<ibf, config, expects, replies, fifo, untyped, command_byte, timedout>>

\* ps2_write_command and ps2_write_data: one poll, and the write after it.
Write(at, port, value, next, failed) ==
  /\ op = at
  /\ IF ibf = NULL
     THEN ibf' = [port |-> port, value |-> value] /\ Goto(next) /\ UNCHANGED timedout
     ELSE Poll(failed) /\ UNCHANGED ibf
  /\ UNCHANGED <<obf, config, expects, replies, fifo, untyped, command_byte>>

\* One poll of ps2_wait_output_full, and inb(0x60) after it.
ReadByte(at, next, failed) ==
  /\ op = at
  /\ IF obf # NULL
     THEN /\ obf' = NULL /\ Goto(next) /\ UNCHANGED timedout
          /\ command_byte' = IF at = "config" THEN obf.bits ELSE command_byte
     ELSE Poll(failed) /\ UNCHANGED <<obf, command_byte>>
  /\ UNCHANGED <<ibf, config, expects, replies, fifo, untyped>>

\* Mutant: the interrupt stays as the firmware left it.
AsWanted_no_interrupt(bits) == (bits \cup {"xlat"}) \ {"clock_off"}
AsWanted(bits) == (bits \cup {"irq1", "xlat"}) \ {"clock_off"}

ps2_keyboard_enable ==
  \/ ps2_flush_output_buffer
  \/ Write("0xAD", "command", "0xAD", "0xA7", "0xA7")
  \/ Write("0xA7", "command", "0xA7", "0x20", "0x20")
  \/ Write("0x20", "command", "0x20", "config", "0xAE")
  \/ ReadByte("config", "0x60", "0xAE")
  \/ Write("0x60", "command", "0x60", "byte", "byte")
  \/ Write("byte", "data", AsWanted(command_byte), "0xAE", "0xAE")
  \/ Write("0xAE", "command", "0xAE", "0xF4", "0xF4")
  \/ Write("0xF4", "data", EnableScanning, "ack", "ack")
  \/ ReadByte("ack", "enabled", "enabled")

\* keyboard_irq_handler, to its reading of the port; what is read from an
\* empty buffer is the last byte again, a break code once the kernel runs.
keyboard_irq_handler == <<"inb 0x60", "lapic_eoi">>

read_scancode ==
  /\ Next_is("inb 0x60") /\ Stepped
  /\ obf' = NULL
  /\ UNCHANGED <<ibf, config, expects, replies, fifo, untyped, enableVars>>
  /\ UNCHANGED <<intr, lapicVars, handlers, on>>

(***************************************************************************)
(* Properties                                                              *)
(***************************************************************************)

\* Nothing the keyboard sends gets stuck, whatever is typed while the kernel
\* starts and whatever is taken for the command byte: the clock runs again, and
\* what is in the output buffer is polled or its interrupt comes. (A wait that
\* ran out may leave the interrupt disabled.)
ScancodesRead ==
  (obf # NULL \/ fifo # <<>>) ~> ((obf = NULL /\ fifo = <<>>) \/ timedout)
====
