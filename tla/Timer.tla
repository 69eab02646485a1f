---- MODULE Timer ----
(***************************************************************************)
(* The LAPIC timer (lapic_timer.c), its calibration against the ACPI PM    *)
(* timer, and sleep_ms (timer.c).                                          *)
(*                                                                         *)
(* The PM timer counts up and wraps; between two readings of it the kernel *)
(* may be away for any of Gaps. passed is the true time, in its ticks,     *)
(* since the first reading. The LAPIC counts rate times as fast.           *)
(***************************************************************************)
EXTENDS Interrupts, FiniteSets

CONSTANTS
  PMRange,                 \* values of the PM timer (2^24)
  Width,                   \* values of a uint32_t (2^32)
  Gaps,                    \* PM ticks between two readings
  Ms, TargetTicks,         \* the delay of the calibration: 10 ms, in PM ticks
  Fallback,                \* ticks of the LAPIC in a second, if unknown (10^8)
  SleepTicks               \* the ticks kmain's first sleep waits for

\* lapic_timer_device_init asks for this many interrupts a second.
Frequency == 1000

ASSUME TimerAssumption ==
  /\ PMRange \in Nat \ {0, 1} /\ TargetTicks \in Nat \ {0} /\ Ms \in Nat \ {0}
  /\ Gaps \subseteq Nat /\ SleepTicks \in Nat
  /\ Width \in Nat /\ Width > PMRange + TargetTicks
  /\ Fallback \in Nat /\ Fallback >= Frequency

VARIABLES
  port,                    \* pm_port: 0 if the firmware names no PM timer
  rate,                    \* LAPIC ticks per PM tick
  delay,                   \* where the calibration is
  pm,                      \* the PM timer when it was last read
  start, elapsed,          \* acpi_pm_delay_ms: that reading, the ticks counted
  passed,                  \* history: the ticks that have passed
  ticr,                    \* LAPIC_TICR in periodic mode, 0 while stopped
  ticks                    \* lapic_timer_ticks since sleep_ms began, up to SleepTicks

timerVars == <<port, rate, delay, pm, start, elapsed, passed, ticr, ticks>>

\* The port in the first FADT of the XSDT or, in older firmware, of the RSDT;
\* 0 if there is none. The XSDT is <<>> or <<its tables>>.
get_acpi_pm_timer_port(rsdp) ==
  LET tables == IF rsdp.revision >= 2 /\ rsdp.xsdt # <<>> THEN rsdp.xsdt[1] ELSE rsdp.rsdt
      fadts == {i \in DOMAIN tables : tables[i].signature = "FACP"}
      first == CHOOSE i \in fadts : \A j \in fadts : i <= j
  IN  IF ~rsdp.found \/ fadts = {} THEN 0 ELSE tables[first].pm_timer_block

TimerInit(rsdp, lapic_rate) ==
  /\ port = get_acpi_pm_timer_port(rsdp) /\ rate = lapic_rate
  /\ delay = "idle" /\ pm = 0 /\ start = 0 /\ elapsed = 0 /\ passed = 0
  /\ ticr = 0 /\ ticks = 0

(***************************************************************************)
(* Calibration                                                             *)
(***************************************************************************)

\* The LAPIC counts down from its largest value, and the first reading.
pm_start ==
  /\ delay = "idle" /\ port # 0
  /\ delay' = "delay"
  /\ pm' \in 0 .. PMRange - 1 /\ start' = pm'
  /\ elapsed' = 0 /\ passed' = 0
  /\ UNCHANGED <<port, rate, ticr, ticks>>

\* Mutant: the counter is not expected to wrap, and unsigned numbers do.
Since_without_wrap(current) == (current - start) % Width

\* What one reading adds: one tick too few at each wrap, which is never much,
\* and a whole round when the counter has passed the last reading again.
Since(current) ==
  IF current >= start THEN current - start ELSE (PMRange - 1 - start) + current

\* Mutant: the time is counted from the first reading each time.
Rebase_never(current) == UNCHANGED start
Rebase(current) == start' = current

acpi_pm_delay_ms(gap) ==
  /\ delay = "delay" /\ elapsed < TargetTicks
  /\ pm' = (pm + gap) % PMRange
  /\ elapsed' = (elapsed + Since(pm')) % Width
  /\ Rebase(pm')
  /\ passed' = passed + gap
  /\ UNCHANGED <<port, rate, delay, ticr, ticks>>

\* Mutant: a count of zero stays zero.
OrFallback_unless(count) == count
OrFallback(count) == IF count = 0 THEN Fallback \div Frequency ELSE count

\* The one-shot count LAPIC_TCCR is read from, at once or one PM tick later: it
\* stops at zero, and asks for an interrupt there.
Expired(late) == rate * (passed + late) >= Width - 1
elapsed_ticks(late) == IF Expired(late) THEN Width - 1 ELSE rate * (passed + late)
ticks_per_ms(late) == elapsed_ticks(late) \div Ms

\* The product is a uint32_t.
Calibrated(late) == ((ticks_per_ms(late) * 1000) % Width) \div Frequency

lapic_timer_init_callback(late) ==
  /\ \/ delay = "idle" /\ port = 0 /\ ticr' = OrFallback(0) /\ UNCHANGED irr
     \/ /\ delay = "delay" /\ elapsed >= TargetTicks
        /\ ticr' = OrFallback(Calibrated(late))
        /\ irr' = IF Expired(late) THEN Requested("timer") ELSE irr
  /\ delay' = "done"
  /\ pm' = 0 /\ start' = 0 /\ elapsed' = 0 /\ passed' = 0
  /\ UNCHANGED <<port, rate, ticks>>

(***************************************************************************)
(* Ticks                                                                   *)
(***************************************************************************)

\* The timer asks for its interrupt, once a millisecond or so.
TimerTick == ticr > 0 /\ irr' = Requested("timer")

\* Mutant: the interrupt is acknowledged last.
lapic_timer_irq_handler_eoi_last == <<"ticks++", "timer_tick_event", "lapic_eoi">>
lapic_timer_irq_handler == <<"ticks++", "lapic_eoi", "timer_tick_event">>

count_tick ==
  /\ Next_is("ticks++") /\ Stepped
  /\ ticks' = IF ticks < SleepTicks THEN ticks + 1 ELSE ticks
  /\ UNCHANGED <<intr, lapicVars, handlers, on>>
  /\ UNCHANGED <<port, rate, delay, pm, start, elapsed, passed, ticr>>

\* sleep_ms notes the ticks when it begins, and halts until enough are counted.
sleep_begins ==
  /\ ticks' = 0 /\ UNCHANGED <<port, rate, delay, pm, start, elapsed, passed, ticr>>
Slept == ticks >= SleepTicks

(***************************************************************************)
(* Properties                                                              *)
(***************************************************************************)

\* The delay of the calibration lasts at least as long as it says, wherever
\* the PM timer stands, however often it wraps and however long the kernel is
\* away between two readings: what is counted has passed.
DelayNotShort == elapsed <= passed

\* The count is read so late that it may have stopped, or its product wrap.
TooLate == Expired(1) \/ ticks_per_ms(1) * 1000 >= Width

\* The timer always runs: it is never set to zero, whatever is left of a product
\* that wraps. And when it was calibrated its period is not shorter than a
\* millisecond, but for the rounding, unless the count was read too late for its
\* 32 bits (at 62.5 MHz, 0.69 s for a delay of 10 ms): no other sleep is short.
PeriodNotShort ==
  [][delay # "done" /\ delay' = "done" =>
       /\ ticr' > 0
       /\ port # 0 /\ ~TooLate => (ticr' + 1) * Ms > rate * TargetTicks]_timerVars
====
