---- MODULE BootProofs ----
(***************************************************************************)
(* Proofs about Boot, for every machine and every value of the constants.  *)
(*                                                                         *)
(* The calibration of the timer: however long the firmware or a hypervisor *)
(* keeps the kernel away between two readings of the PM timer, the delay   *)
(* is not counted too short, and neither is the period it arrives at while *)
(* the LAPIC's count and its product by 1000 fit their 32 bits.            *)
(*                                                                         *)
(* The order of initialisation: kmain's place in its program, what is      *)
(* enabled there, and what each stack has left of a handler.               *)
(*                                                                         *)
(* The types, of the PS/2 controller's bytes and the driver's, too.        *)
(***************************************************************************)
EXTENDS Boot, SequenceTheorems, TLAPS

(***************************************************************************)
(* Arithmetic                                                              *)
(***************************************************************************)

\* A reading of a counter that has gone through r since zero: what is left of
\* x is within the range, x itself if it was, and else x less a round at least.
LEMMA Remainder ==
  ASSUME NEW x \in Nat, NEW r \in Nat, r > 0
  PROVE  /\ x % r \in 0 .. r - 1
         /\ x < r => x % r = x
         /\ x >= r => x % r <= x - r
<1>1. x % r \in 0 .. r - 1 /\ x \div r \in Nat /\ x = r * (x \div r) + (x % r)
  OBVIOUS
<1>2. ASSUME x < r PROVE x % r = x
  BY <1>2
<1>3. ASSUME x >= r PROVE x % r <= x - r
  <2>1. x \div r >= 1
    BY <1>3
  <2>2. \A q \in Nat : q >= 1 => r * q >= r
    OBVIOUS
  <2> QED BY <1>1, <2>1, <2>2
<1> QED BY <1>1, <1>2, <1>3

LEMMA Quotient ==
  ASSUME NEW x \in Nat, NEW d \in Nat \ {0}
  PROVE  x \div d \in Nat /\ x < (x \div d + 1) * d
OBVIOUS

LEMMA Times ==
  ASSUME NEW a \in Nat, NEW b \in Nat, NEW c \in Nat, a <= b
  PROVE  c * a \in Nat /\ c * b \in Nat /\ c * a <= c * b
OBVIOUS

LEMMA QuotientGrows ==
  ASSUME NEW x \in Nat, NEW y \in Nat, NEW d \in Nat \ {0}, x <= y
  PROVE  x \div d <= y \div d
<1>1. /\ x \div d \in Nat /\ x < (x \div d + 1) * d /\ (x \div d) * d <= x
      /\ y \div d \in Nat /\ y < (y \div d + 1) * d
  OBVIOUS
<1> DEFINE p == x \div d  q == y \div d
<1>2. p \in Nat /\ q \in Nat /\ p * d < (q + 1) * d
  BY <1>1
<1> HIDE DEF p, q
<1>3. ASSUME q + 1 <= p PROVE FALSE
  <2>1. d * (q + 1) <= d * p
    BY <1>2, <1>3, Times
  <2> QED BY <1>2, <2>1
<1> QED BY <1>2, <1>3 DEF p, q

(***************************************************************************)
(* One reading                                                             *)
(***************************************************************************)

\* What acpi_pm_delay_ms adds at a reading is not more than has passed since the
\* last: the tick too few at a wrap is on the safe side, and so is the round
\* that is missed when the counter has passed the last reading again.
LEMMA SinceNotMore ==
  ASSUME NEW last \in 0 .. PMRange - 1, NEW gap \in Nat, start = last
  PROVE  LET now == (last + gap) % PMRange IN
         now \in 0 .. PMRange - 1 /\ Since(now) \in 0 .. PMRange - 1 /\ Since(now) <= gap
<1> DEFINE now == (last + gap) % PMRange
<1>1. PMRange \in Nat /\ PMRange > 0
  BY TimerAssumption
<1>2. /\ now \in 0 .. PMRange - 1
      /\ last + gap < PMRange => now = last + gap
      /\ last + gap >= PMRange => now <= last + gap - PMRange
  <2>1. last + gap \in Nat
    BY <1>1
  <2> QED BY <1>1, <2>1, Remainder DEF now
<1> HIDE DEF now
<1>3. Since(now) = IF now >= last THEN now - last ELSE (PMRange - 1 - last) + now
  BY DEF Since
<1>4. now \in 0 .. PMRange - 1 /\ Since(now) \in 0 .. PMRange - 1 /\ Since(now) <= gap
  BY <1>1, <1>2, <1>3
<1> QED BY <1>4 DEF now

(***************************************************************************)
(* The calibration                                                         *)
(***************************************************************************)

\* The inductive invariant: where the delay stands, and that what it has
\* counted has passed.
Calibrating ==
  /\ port \in Nat /\ rate \in Nat /\ ticr \in Nat
  /\ delay \in {"idle", "delay", "done"}
  /\ start \in 0 .. PMRange - 1 /\ pm = start
  /\ elapsed \in 0 .. TargetTicks + PMRange /\ passed \in Nat
  /\ DelayNotShort

\* The one-shot count is a natural number in 32 bits, the later it is read the
\* larger, and it is what has passed unless it has stopped.
LEMMA CountRead ==
  ASSUME NEW late \in {0, 1}, Calibrating
  PROVE  /\ elapsed_ticks(late) \in Nat /\ ticks_per_ms(late) \in Nat
         /\ Calibrated(late) \in Nat
         /\ ~TooLate => /\ elapsed_ticks(late) = rate * (passed + late)
                        /\ Calibrated(late) = ticks_per_ms(late)
<1> USE TimerAssumption
<1> DEFINE r == rate * (passed + late)  u == rate * (passed + 1)
           e == elapsed_ticks(late)  q == ticks_per_ms(late)  p == ticks_per_ms(1)
<1>1. rate \in Nat /\ passed + late \in Nat /\ passed + 1 \in Nat /\ passed + late <= passed + 1
  BY DEF Calibrating
<1>2. r \in Nat /\ u \in Nat /\ r <= u
  BY <1>1, Times
<1>3. e = IF r >= Width - 1 THEN Width - 1 ELSE r
  BY DEF elapsed_ticks, Expired
<1>4. q = e \div Ms
  BY DEF ticks_per_ms
<1>5. p = (IF u >= Width - 1 THEN Width - 1 ELSE u) \div Ms
  BY DEF ticks_per_ms, elapsed_ticks, Expired
<1>6. TooLate <=> (u >= Width - 1 \/ p * 1000 >= Width)
  BY DEF TooLate, Expired
<1>7. Calibrated(late) = ((q * 1000) % Width) \div 1000
  BY DEF Calibrated, Frequency
<1> HIDE DEF r, u, e, q, p
<1>8. Width - 1 \in Nat /\ Width > 0 /\ e \in Nat /\ (u < Width - 1 => e = r)
  BY <1>2, <1>3
<1>9. q \in Nat
  BY <1>4, <1>8, Quotient
<1>10. Calibrated(late) \in Nat
  <2>1. q * 1000 \in Nat /\ (q * 1000) % Width \in 0 .. Width - 1
    BY <1>8, <1>9, Remainder
  <2> DEFINE x == (q * 1000) % Width
  <2>2. x \in Nat /\ Calibrated(late) = x \div 1000
    BY <1>7, <2>1
  <2> HIDE DEF x
  <2> QED BY ONLY <2>2, Quotient
<1>11. ASSUME ~TooLate PROVE e = r /\ Calibrated(late) = q
  <2>1. u < Width - 1 /\ e = r /\ e <= u
    BY <1>2, <1>6, <1>8, <1>11
  <2>2. p = u \div Ms /\ p \in Nat
    BY <1>2, <1>5, <2>1, Quotient
  <2>3. q <= p
    <3>1. e \in Nat /\ u \in Nat /\ Ms \in Nat \ {0} /\ e <= u
      BY <1>2, <1>8, <2>1
    <3> HIDE DEF TooLate
    <3>2. e \div Ms <= u \div Ms
      BY ONLY <3>1, QuotientGrows
    <3> QED BY <1>4, <2>2, <3>2
  <2>4. p * 1000 < Width
    BY <1>2, <1>6, <1>11, <2>2
  <2>5. q * 1000 \in Nat /\ q * 1000 < Width
    BY <1>9, <2>2, <2>3, <2>4
  <2>6. (q * 1000) % Width = q * 1000
    BY <1>8, <2>5, Remainder
  <2>7. (q * 1000) \div 1000 = q
    BY <1>9
  <2> QED BY <1>7, <2>1, <2>6, <2>7
<1> QED BY <1>8, <1>9, <1>10, <1>11 DEF e, q, r

\* The count the timer is set to, of a delay that lasted long enough.
LEMMA CountNotShort ==
  ASSUME NEW late \in {0, 1}, Calibrating, elapsed >= TargetTicks
  PROVE  LET count == OrFallback(Calibrated(late)) IN
         /\ count \in Nat /\ count > 0
         /\ ~TooLate => (count + 1) * Ms > rate * TargetTicks
<1> DEFINE e == elapsed_ticks(late)
           q == ticks_per_ms(late)
<1> USE TimerAssumption
<1>1. rate \in Nat /\ passed + late \in Nat /\ TargetTicks \in Nat /\ TargetTicks <= passed + late
  BY DEF Calibrating, DelayNotShort
<1>2. /\ rate * TargetTicks \in Nat /\ rate * TargetTicks <= rate * (passed + late)
      /\ e \in Nat /\ q \in Nat /\ Calibrated(late) \in Nat
      /\ ~TooLate => e = rate * (passed + late) /\ Calibrated(late) = q
  BY <1>1, CountRead, Times
<1>3. q = e \div Ms
  BY DEF ticks_per_ms
<1> HIDE DEF e, q
<1>4. e < (q + 1) * Ms
  BY <1>2, <1>3, Quotient
<1>5. Fallback \div Frequency \in Nat /\ Fallback \div Frequency >= 1
  BY DEF Frequency
<1> DEFINE count == OrFallback(Calibrated(late))
<1>6. count = IF Calibrated(late) = 0 THEN Fallback \div Frequency ELSE Calibrated(late)
  BY DEF OrFallback
<1> HIDE DEF count
<1>7. count \in Nat /\ count > 0 /\ (~TooLate => q <= count)
  BY <1>2, <1>5, <1>6
<1>8. ASSUME ~TooLate PROVE (count + 1) * Ms > rate * TargetTicks
  <2>1. q + 1 \in Nat /\ count + 1 \in Nat /\ q + 1 <= count + 1
    BY <1>2, <1>7, <1>8
  <2>2. Ms * (q + 1) \in Nat /\ Ms * (count + 1) \in Nat /\ Ms * (q + 1) <= Ms * (count + 1)
    BY <2>1, Times
  <2>3. (q + 1) * Ms = Ms * (q + 1) /\ (count + 1) * Ms = Ms * (count + 1)
    BY <2>1
  <2> QED BY <1>2, <1>4, <1>8, <2>2, <2>3
<1> QED BY <1>7, <1>8 DEF count

LEMMA CalibratingInit == Init => Calibrating
<1> SUFFICES ASSUME Init PROVE Calibrating
  OBVIOUS
<1>1. PICK m \in Machines : TimerInit(m.rsdp, m.rate)
  BY DEF Init
<1>2. m.rate \in Nat /\ get_acpi_pm_timer_port(m.rsdp) \in Nat
  BY BootAssumption
<1>3. 0 \in 0 .. PMRange - 1 /\ 0 \in 0 .. TargetTicks + PMRange
  BY TimerAssumption
<1> QED BY <1>1, <1>2, <1>3 DEF TimerInit, Calibrating, DelayNotShort

LEMMA StartCalibrates ==
  ASSUME Calibrating, pm_start
  PROVE  Calibrating'
BY TimerAssumption DEF Calibrating, pm_start, DelayNotShort

LEMMA ReadingCalibrates ==
  ASSUME Calibrating, NEW gap \in Gaps, acpi_pm_delay_ms(gap)
  PROVE  Calibrating'
<1> USE TimerAssumption
<1>1. start \in 0 .. PMRange - 1 /\ pm = start /\ gap \in Nat
  BY DEF Calibrating
<1>2. pm' \in 0 .. PMRange - 1 /\ Since(pm') \in 0 .. PMRange - 1 /\ Since(pm') <= gap
  BY <1>1, SinceNotMore DEF acpi_pm_delay_ms
<1>3. start' = pm'
  BY DEF acpi_pm_delay_ms, Rebase
<1>4. elapsed + Since(pm') \in Nat /\ elapsed + Since(pm') < TargetTicks + PMRange
  <2>1. elapsed \in Nat /\ elapsed < TargetTicks
    BY DEF Calibrating, acpi_pm_delay_ms
  <2> QED BY <1>2, <2>1
<1>5. elapsed' = elapsed + Since(pm')
  <2>1. (elapsed + Since(pm')) % Width = elapsed + Since(pm')
    <3>1. elapsed + Since(pm') < Width
      BY <1>4
    <3> QED BY <1>4, <3>1, Remainder
  <2> QED BY <2>1 DEF acpi_pm_delay_ms
<1>6. passed' = passed + gap
  BY DEF acpi_pm_delay_ms
<1>7. elapsed' \in 0 .. TargetTicks + PMRange /\ passed' \in Nat /\ elapsed' <= passed'
  BY <1>1, <1>2, <1>4, <1>5, <1>6 DEF Calibrating, DelayNotShort
<1>8. UNCHANGED <<port, rate, delay, ticr>> /\ delay = "delay"
  BY DEF acpi_pm_delay_ms
<1> QED BY <1>2, <1>3, <1>7, <1>8 DEF Calibrating, DelayNotShort

LEMMA CallbackCalibrates ==
  ASSUME Calibrating, NEW late \in {0, 1}, lapic_timer_init_callback(late)
  PROVE  Calibrating'
<1> USE TimerAssumption
<1>1. UNCHANGED <<port, rate>> /\ delay' = "done"
  BY DEF lapic_timer_init_callback
<1>2. pm' = 0 /\ start' = 0 /\ elapsed' = 0 /\ passed' = 0
  BY DEF lapic_timer_init_callback
<1>3. DelayNotShort' /\ elapsed' \in 0 .. TargetTicks + PMRange /\ passed' \in Nat /\ start' \in 0 .. PMRange - 1
  BY <1>2 DEF DelayNotShort
<1>4. port' \in Nat /\ rate' \in Nat
  BY <1>1 DEF Calibrating
<1>5. ticr' \in Nat
  <2>1. CASE ticr' = OrFallback(0)
    BY <2>1 DEF OrFallback, Frequency
  <2>2. CASE elapsed >= TargetTicks /\ ticr' = OrFallback(Calibrated(late))
    BY <2>2, CountNotShort
  <2> QED BY <2>1, <2>2 DEF lapic_timer_init_callback
<1> QED BY <1>1, <1>2, <1>3, <1>4, <1>5 DEF Calibrating

\* Counting ticks does not disturb what the calibration arrived at.
CalibrationVars == <<port, rate, delay, pm, start, elapsed, passed, ticr>>
LEMMA OthersCalibrate ==
  ASSUME Calibrating, UNCHANGED CalibrationVars
  PROVE  Calibrating'
BY DEF Calibrating, CalibrationVars, DelayNotShort

LEMMA CalibratingStep == Calibrating /\ [Next]_vars => Calibrating'
<1> SUFFICES ASSUME Calibrating, [Next]_vars PROVE Calibrating'
  OBVIOUS
<1>1. CASE lapic_timer_device_init
  BY <1>1, StartCalibrates, ReadingCalibrates, CallbackCalibrates DEF lapic_timer_device_init
<1>2. CASE Next /\ ~lapic_timer_device_init
  <2>1. CASE Processor
    <3>1. CASE Instruction
      BY <1>2, <3>1, OthersCalibrate DEF Instruction, init_step, idt_init, idt_register_handler,
         ioapic_init_keyboard, keyboard_init, sti, sleep_ms, sleep_begins, wake, thread_start, halt_sti,
         thread_terminate,
         timerVars, CalibrationVars
    <3>2. CASE take_interrupt
      BY <3>2, OthersCalibrate DEF take_interrupt, timerVars, CalibrationVars
    <3>3. CASE handler_step
      BY <3>3, OthersCalibrate DEF handler_step, count_tick, timer_tick_event, timerVars, CalibrationVars
    <3> QED BY <2>1, <3>1, <3>2, <3>3 DEF Processor
  <2>2. CASE Tick \/ Controller \/ Typing
    BY <2>2, OthersCalibrate DEF Tick, Controller, Typing, timerVars, CalibrationVars
  <2> QED BY <1>2, <2>1, <2>2 DEF Next
<1>3. CASE UNCHANGED vars
  BY <1>3, OthersCalibrate DEF vars, timerVars, CalibrationVars
<1> QED BY <1>1, <1>2, <1>3

(***************************************************************************)
(* Theorems                                                                *)
(***************************************************************************)

\* acpi_pm_delay_ms never counts more of the PM timer's ticks than have passed.
THEOREM BootDelayNotShort == Spec => []DelayNotShort
<1>1. Calibrating => DelayNotShort
  BY DEF Calibrating
<1> QED BY <1>1, CalibratingInit, CalibratingStep, PTL DEF Spec

\* The step that ends the calibration sets the timer.
LEMMA SetOnce ==
  ASSUME Calibrating, [Next]_vars, delay # "done", delay' = "done"
  PROVE  \E late \in {0, 1} : lapic_timer_init_callback(late)
<1>1. delay' # delay
  OBVIOUS
<1>2. CASE lapic_timer_device_init
  <2>1. ~pm_start /\ \A gap \in Gaps : ~acpi_pm_delay_ms(gap)
    BY <1>1 DEF pm_start, acpi_pm_delay_ms
  <2> QED BY <1>2, <2>1 DEF lapic_timer_device_init
<1>3. CASE Next /\ ~lapic_timer_device_init
  <2>1. ~Instruction
    BY <1>1, <1>3 DEF Instruction, init_step, idt_init, idt_register_handler,
       ioapic_init_keyboard, keyboard_init, sti, sleep_ms, sleep_begins, wake, thread_start, halt_sti,
       thread_terminate, timerVars
  <2>2. ~take_interrupt /\ ~handler_step
    BY <1>1 DEF take_interrupt, handler_step, count_tick, timer_tick_event, timerVars
  <2>3. ~Tick /\ ~Controller /\ ~Typing
    BY <1>1 DEF Tick, Controller, Typing, timerVars
  <2> QED BY <1>3, <2>1, <2>2, <2>3 DEF Next, Processor
<1>4. CASE UNCHANGED vars
  BY <1>1, <1>4 DEF vars, timerVars
<1> QED BY <1>2, <1>3, <1>4

\* The timer is never set to zero, not even when the product of the calibration
\* wraps; and where it was calibrated, from a count that was not read too late for
\* its 32 bits, never to a period shorter than the millisecond sleep_ms takes it
\* for.
THEOREM BootPeriodNotShort == Spec => PeriodNotShort
<1> DEFINE Set == delay # "done" /\ delay' = "done" =>
                    /\ ticr' > 0
                    /\ port # 0 /\ ~TooLate => (ticr' + 1) * Ms > rate * TargetTicks
<1>1. ASSUME Calibrating, [Next]_vars PROVE [Set]_timerVars
  <2> SUFFICES ASSUME delay # "done", delay' = "done" PROVE Set
    BY DEF Set
  <2>1. PICK late \in {0, 1} : lapic_timer_init_callback(late)
    BY <1>1, SetOnce
  <2>2. CASE port = 0 /\ ticr' = OrFallback(0)
    BY <2>2, TimerAssumption DEF OrFallback, Frequency
  <2>3. CASE elapsed >= TargetTicks /\ ticr' = OrFallback(Calibrated(late))
    <3>1. ticr' > 0 /\ (~TooLate => (ticr' + 1) * Ms > rate * TargetTicks)
      BY <1>1, <2>3, CountNotShort
    <3> QED BY <3>1
  <2> QED BY <2>1, <2>2, <2>3 DEF lapic_timer_init_callback
<1> QED BY <1>1, CalibratingInit, CalibratingStep, PTL DEF Spec, PeriodNotShort

(***************************************************************************)
(* The order of initialisation                                             *)
(***************************************************************************)

\* What it is for a sequence to be two others, end to end.
Joins(s, t, j) ==
  /\ Len(j) = Len(s) + Len(t)
  /\ \A i \in 1 .. Len(s) : j[i] = s[i]
  /\ \A i \in 1 .. Len(t) : j[Len(s) + i] = t[i]

LEMMA Joined ==
  ASSUME NEW S, NEW s \in Seq(S), NEW t \in Seq(S)
  PROVE  s \o t \in Seq(S) /\ Joins(s, t, s \o t)
<1>1. s \o t \in Seq(S)
  OBVIOUS
<1>2. Len(s \o t) = Len(s) + Len(t)
  OBVIOUS
<1>3. \A i \in 1 .. Len(s) : (s \o t)[i] = s[i]
  OBVIOUS
<1>4. \A i \in 1 .. Len(t) : (s \o t)[Len(s) + i] = t[i]
  OBVIOUS
<1> QED BY <1>1, <1>2, <1>3, <1>4 DEF Joins

Names ==
  {"serial_init", "limine_init", "pmm_init", "screen_init", "vmm_init", "gdt_init", "idt_init",
   "heap_init", "sched_init", "lapic_timer_device_init", "register timer",
   "ioapic_init_keyboard", "ps2_keyboard_enable", "event lists", "register keyboard",
   "screen_flush", "enable_interrupts", "sleep_ms", "sleeping", "thread_start"}

\* kmain's program, step by step.
LEMMA Program ==
  /\ kmain[1] = "serial_init" /\ kmain[2] = "limine_init" /\ kmain[3] = "pmm_init"
  /\ kmain[4] = "screen_init" /\ kmain[5] = "vmm_init" /\ kmain[6] = "gdt_init"
  /\ kmain[7] = "idt_init" /\ kmain[8] = "heap_init" /\ kmain[9] = "sched_init"
  /\ kmain[10] = "lapic_timer_device_init" /\ kmain[11] = "register timer"
  /\ kmain[12] = "ioapic_init_keyboard" /\ kmain[13] = "ps2_keyboard_enable"
  /\ kmain[14] = "event lists" /\ kmain[15] = "register keyboard"
  /\ kmain[16] = "screen_flush" /\ kmain[17] = "enable_interrupts"
  /\ kmain[18] = "sleep_ms" /\ kmain[19] = "sleeping" /\ kmain[20] = "thread_start"
<1> DEFINE first == kernel_init
           later == <<"sleep_ms", "sleeping", "thread_start">>
           all == first \o later
<1>1. first \in Seq(Names) /\ Len(first) = 17
  BY DEF kernel_init, Names
<1>2. /\ first[1] = "serial_init" /\ first[2] = "limine_init" /\ first[3] = "pmm_init"
      /\ first[4] = "screen_init" /\ first[5] = "vmm_init" /\ first[6] = "gdt_init"
      /\ first[7] = "idt_init" /\ first[8] = "heap_init" /\ first[9] = "sched_init"
  BY DEF kernel_init
<1>3. /\ first[10] = "lapic_timer_device_init" /\ first[11] = "register timer"
      /\ first[12] = "ioapic_init_keyboard" /\ first[13] = "ps2_keyboard_enable"
      /\ first[14] = "event lists" /\ first[15] = "register keyboard"
      /\ first[16] = "screen_flush" /\ first[17] = "enable_interrupts"
  BY DEF kernel_init
<1>4. later \in Seq(Names) /\ Len(later) = 3
  BY DEF Names
<1>5. later[1] = "sleep_ms" /\ later[2] = "sleeping" /\ later[3] = "thread_start"
  OBVIOUS
<1> HIDE DEF first, later
<1>6. all \in Seq(Names) /\ Joins(first, later, all)
  BY ONLY <1>1, <1>4, Joined
<1>7. kmain = all
  BY DEF kmain, first, later
<1> HIDE DEF all
<1>8. /\ \A i \in 1 .. 17 : all[i] = first[i]
      /\ \A i \in 1 .. 3 : all[17 + i] = later[i]
  BY <1>1, <1>4, <1>6 DEF Joins
<1>9. /\ all[1] = "serial_init" /\ all[2] = "limine_init" /\ all[3] = "pmm_init"
      /\ all[4] = "screen_init" /\ all[5] = "vmm_init" /\ all[6] = "gdt_init"
      /\ all[7] = "idt_init" /\ all[8] = "heap_init" /\ all[9] = "sched_init"
  <2>1. /\ all[1] = first[1] /\ all[2] = first[2] /\ all[3] = first[3]
        /\ all[4] = first[4] /\ all[5] = first[5] /\ all[6] = first[6]
        /\ all[7] = first[7] /\ all[8] = first[8] /\ all[9] = first[9]
    BY ONLY <1>8
  <2> QED BY ONLY <1>2, <2>1
<1>10. /\ all[10] = "lapic_timer_device_init" /\ all[11] = "register timer"
       /\ all[12] = "ioapic_init_keyboard" /\ all[13] = "ps2_keyboard_enable"
       /\ all[14] = "event lists" /\ all[15] = "register keyboard"
       /\ all[16] = "screen_flush" /\ all[17] = "enable_interrupts"
  <2>1. /\ all[10] = first[10] /\ all[11] = first[11] /\ all[12] = first[12]
        /\ all[13] = first[13] /\ all[14] = first[14] /\ all[15] = first[15]
        /\ all[16] = first[16] /\ all[17] = first[17]
    BY ONLY <1>8
  <2> QED BY ONLY <1>3, <2>1
<1>11. all[18] = "sleep_ms" /\ all[19] = "sleeping" /\ all[20] = "thread_start"
  <2>1. all[17 + 1] = later[1] /\ all[17 + 2] = later[2] /\ all[17 + 3] = later[3]
    BY ONLY <1>8
  <2> QED BY ONLY <1>5, <2>1
<1> QED BY ONLY <1>7, <1>9, <1>10, <1>11

LEMMA ProgramIsSeq == kmain \in Seq(Names) /\ Len(kmain) = 20
<1> DEFINE first == kernel_init
           later == <<"sleep_ms", "sleeping", "thread_start">>
<1>1. first \in Seq(Names) /\ Len(first) = 17
  BY DEF kernel_init, Names
<1>2. later \in Seq(Names) /\ Len(later) = 3
  BY DEF Names
<1>3. kmain = first \o later
  BY DEF kmain
<1> HIDE DEF first, later
<1>4. first \o later \in Seq(Names) /\ Joins(first, later, first \o later)
  BY ONLY <1>1, <1>2, Joined
<1> QED BY ONLY <1>1, <1>2, <1>3, <1>4 DEF Joins

\* What is left of a sequence after its first.
LEMMA Rest ==
  ASSUME NEW S, NEW s \in Seq(S), s # <<>>
  PROVE  /\ Len(s) \in Nat /\ Len(s) > 0 /\ Head(s) = s[1]
         /\ Tail(s) \in Seq(S) /\ Len(Tail(s)) = Len(s) - 1
         /\ \A i \in 1 .. Len(s) - 1 : Tail(s)[i] = s[i + 1]
<1>1. Len(s) \in Nat /\ Len(s) > 0 /\ Head(s) = s[1]
  OBVIOUS
<1>2. Tail(s) \in Seq(S) /\ Len(Tail(s)) = Len(s) - 1
  BY <1>1
<1>3. \A i \in 1 .. Len(s) - 1 : Tail(s)[i] = s[i + 1]
  BY <1>1
<1> QED BY <1>1, <1>2, <1>3

\* How many steps are behind kmain, and which.
Made == 20 - Len(todo)
Position ==
  /\ todo \in Seq(Names) /\ Len(todo) <= 20
  /\ \A i \in 1 .. Len(todo) : todo[i] = kmain[Made + i]
  /\ \A i \in 1 .. Made : kmain[i] \in established

\* No step of kernel_init comes before one it needs.
LEMMA Needed ==
  ASSUME NEW k \in 0 .. 19
  PROVE  Needs(kmain[k + 1]) \subseteq {kmain[i] : i \in 1 .. k}
<1> DEFINE made == {kmain[i] : i \in 1 .. k}
<1>1. \A i \in 1 .. k : kmain[i] \in made
  OBVIOUS
<1> HIDE DEF made
<1> DEFINE fine == {name \in Names : Needs(name) \subseteq made}
<1>2. \A j \in 1 .. 20 : k >= j => kmain[j] \in made
  BY <1>1
<1>3. /\ k >= 2 => "limine_init" \in made
      /\ k >= 3 => "pmm_init" \in made
      /\ k >= 4 => "screen_init" \in made
      /\ k >= 5 => "vmm_init" \in made
      /\ k >= 6 => "gdt_init" \in made
      /\ k >= 7 => "idt_init" \in made
      /\ k >= 8 => "heap_init" \in made
      /\ k >= 9 => "sched_init" \in made
      /\ k >= 10 => "lapic_timer_device_init" \in made
      /\ k >= 17 => "enable_interrupts" \in made
  <2>1. /\ k >= 2 => kmain[2] \in made
        /\ k >= 3 => kmain[3] \in made
        /\ k >= 4 => kmain[4] \in made
        /\ k >= 5 => kmain[5] \in made
        /\ k >= 6 => kmain[6] \in made
        /\ k >= 7 => kmain[7] \in made
        /\ k >= 8 => kmain[8] \in made
        /\ k >= 9 => kmain[9] \in made
        /\ k >= 10 => kmain[10] \in made
        /\ k >= 17 => kmain[17] \in made
    BY <1>2
  <2> QED BY <2>1, Program
<1>4. /\ "serial_init" \in fine /\ "limine_init" \in fine /\ "gdt_init" \in fine
      /\ k >= 2 => "pmm_init" \in fine
      /\ k >= 3 => "screen_init" \in fine
      /\ k >= 4 => "vmm_init" \in fine
      /\ k >= 6 => "idt_init" \in fine
      /\ k >= 7 => "heap_init" \in fine
      /\ k >= 8 => "sched_init" \in fine
      /\ k >= 9 => "lapic_timer_device_init" \in fine
  BY <1>3 DEF Needs, Names
<1>5. /\ "register timer" \in fine /\ "ps2_keyboard_enable" \in fine /\ "event lists" \in fine
      /\ "register keyboard" \in fine /\ "sleep_ms" \in fine
      /\ k >= 11 => "ioapic_init_keyboard" \in fine
      /\ k >= 15 => "screen_flush" \in fine
      /\ k >= 16 => "enable_interrupts" \in fine
      /\ k >= 18 => "sleeping" \in fine
      /\ k >= 19 => "thread_start" \in fine
  BY <1>3 DEF Needs, Names
<1> HIDE DEF fine
<1>6. ASSUME k < 10 PROVE kmain[k + 1] \in fine
  <2>1. \/ k + 1 = 1 \/ k + 1 = 2 \/ k + 1 = 3 \/ k + 1 = 4 \/ k + 1 = 5
        \/ k + 1 = 6 \/ k + 1 = 7 \/ k + 1 = 8 \/ k + 1 = 9 \/ k + 1 = 10
    BY <1>6
  <2>2. /\ k >= 0 => kmain[1] \in fine
        /\ k >= 1 => kmain[2] \in fine
        /\ k >= 2 => kmain[3] \in fine
        /\ k >= 3 => kmain[4] \in fine
        /\ k >= 4 => kmain[5] \in fine
        /\ k >= 5 => kmain[6] \in fine
        /\ k >= 6 => kmain[7] \in fine
        /\ k >= 7 => kmain[8] \in fine
        /\ k >= 8 => kmain[9] \in fine
        /\ k >= 9 => kmain[10] \in fine
    BY <1>4, Program
  <2> QED BY <2>1, <2>2
<1>7. ASSUME k >= 10 PROVE kmain[k + 1] \in fine
  <2>1. \/ k + 1 = 11 \/ k + 1 = 12 \/ k + 1 = 13 \/ k + 1 = 14 \/ k + 1 = 15
        \/ k + 1 = 16 \/ k + 1 = 17 \/ k + 1 = 18 \/ k + 1 = 19 \/ k + 1 = 20
    BY <1>7
  <2>2. /\ k >= 10 => kmain[11] \in fine
        /\ k >= 11 => kmain[12] \in fine
        /\ k >= 12 => kmain[13] \in fine
        /\ k >= 13 => kmain[14] \in fine
        /\ k >= 14 => kmain[15] \in fine
        /\ k >= 15 => kmain[16] \in fine
        /\ k >= 16 => kmain[17] \in fine
        /\ k >= 17 => kmain[18] \in fine
        /\ k >= 18 => kmain[19] \in fine
        /\ k >= 19 => kmain[20] \in fine
    BY <1>5, Program
  <2> QED BY <2>1, <2>2
<1>8. kmain[k + 1] \in fine
  BY <1>6, <1>7
<1> QED BY <1>8 DEF made, fine

\* Where a step stands in it.
LEMMA Where ==
  ASSUME NEW k \in 1 .. 20
  PROVE  /\ kmain[k] = "register timer" <=> k = 11
         /\ kmain[k] = "register keyboard" <=> k = 15
         /\ kmain[k] = "enable_interrupts" <=> k = 17
         /\ kmain[k] = "sleeping" <=> k = 19
         /\ kmain[k] = "thread_start" <=> k = 20
<1>1. \/ k = 1 \/ k = 2 \/ k = 3 \/ k = 4 \/ k = 5 \/ k = 6 \/ k = 7 \/ k = 8 \/ k = 9 \/ k = 10
      \/ k = 11 \/ k = 12 \/ k = 13 \/ k = 14 \/ k = 15 \/ k = 16 \/ k = 17 \/ k = 18 \/ k = 19 \/ k = 20
  OBVIOUS
<1> QED BY <1>1, Program

LEMMA StepMade ==
  ASSUME Position, NEW step, At(step), Done(step)
  PROVE  Position' /\ Made \in 0 .. 19 /\ Made' = Made + 1 /\ step = kmain[Made + 1]
<1> DEFINE n == Len(todo)
<1>1. /\ todo # <<>> /\ Head(todo) = step /\ todo' = Tail(todo)
      /\ established' = established \cup {step}
  BY DEF At, Done
<1>2. /\ n \in 1 .. 20 /\ Head(todo) = todo[1] /\ todo' \in Seq(Names) /\ Len(todo') = n - 1
      /\ \A i \in 1 .. n - 1 : todo'[i] = todo[i + 1] /\ i + 1 \in 1 .. n
  <2>1. todo \in Seq(Names) /\ Len(todo) <= 20
    BY DEF Position
  <2>2. /\ n \in Nat /\ n > 0 /\ Head(todo) = todo[1]
        /\ todo' \in Seq(Names) /\ Len(todo') = n - 1
        /\ \A i \in 1 .. n - 1 : todo'[i] = todo[i + 1]
    BY <1>1, <2>1, Rest
  <2>3. n <= 20
    BY <2>1
  <2> HIDE DEF n
  <2> QED BY ONLY <2>2, <2>3
<1>3. Made = 20 - n /\ Made' = 20 - (n - 1)
  BY <1>2 DEF Made
<1> HIDE DEF n
<1>4. step = kmain[Made + 1]
  <2>1. 1 \in 1 .. Len(todo)
    BY <1>2 DEF n
  <2> QED BY <1>1, <1>2, <2>1 DEF Position
<1>5. \A i \in 1 .. Len(todo') : todo'[i] = kmain[Made' + i]
  <2> SUFFICES ASSUME NEW i \in 1 .. n - 1 PROVE todo'[i] = kmain[Made' + i]
    BY <1>2
  <2>1. todo'[i] = todo[i + 1] /\ i + 1 \in 1 .. Len(todo)
    BY <1>2 DEF n
  <2>2. todo[i + 1] = kmain[Made + (i + 1)]
    BY <2>1 DEF Position
  <2>3. Made + (i + 1) = Made' + i
    BY <1>2, <1>3
  <2> QED BY <2>1, <2>2, <2>3
<1>6. \A i \in 1 .. Made' : kmain[i] \in established'
  <2> SUFFICES ASSUME NEW i \in 1 .. Made' PROVE kmain[i] \in established'
    OBVIOUS
  <2>1. CASE i = Made + 1
    BY <1>1, <1>4, <2>1
  <2>2. CASE i # Made + 1
    <3>1. i \in 1 .. Made
      BY <1>2, <1>3, <2>2
    <3> QED BY <1>1, <3>1 DEF Position
  <2> QED BY <2>1, <2>2
<1>7. Position'
  <2>1. Len(todo') <= 20
    BY <1>2
  <2> QED BY <1>2, <1>5, <1>6, <2>1 DEF Position
<1> QED BY <1>2, <1>3, <1>4, <1>7

LEMMA StepNotMade ==
  ASSUME Position, UNCHANGED <<todo, established>>
  PROVE  Position' /\ Made' = Made
BY DEF Position, Made

(***************************************************************************)
(* Handlers                                                                *)
(***************************************************************************)

\* What is left of a handler, before its EOI and after.
Tick4 == <<"ticks++", "lapic_eoi", "timer_tick_event", "iretq">>
Tick3 == <<"lapic_eoi", "timer_tick_event", "iretq">>
Tick2 == <<"timer_tick_event", "iretq">>
Key3 == <<"inb 0x60", "lapic_eoi", "iretq">>
Key2 == <<"lapic_eoi", "iretq">>
Last == <<"iretq">>

\* The same, taken in the middle of a handler that has its iretq left.
Over4 == <<"ticks++", "lapic_eoi", "timer_tick_event", "iretq", "iretq">>
Over3 == <<"lapic_eoi", "timer_tick_event", "iretq", "iretq">>
Over2 == <<"timer_tick_event", "iretq", "iretq">>
KeyOver3 == <<"inb 0x60", "lapic_eoi", "iretq", "iretq">>
KeyOver2 == <<"lapic_eoi", "iretq", "iretq">>
OverLast == <<"iretq", "iretq">>

Unanswered == {Tick4, Tick3, Key3, Key2, Over4, Over3, KeyOver3, KeyOver2}
Answered == {<<>>, Last, Tick2, Over2, OverLast}
Nested == {Over4, Over3, Over2, KeyOver3, KeyOver2, OverLast}
Steps == {"ticks++", "lapic_eoi", "timer_tick_event", "inb 0x60", "iretq"}

\* Two sequences end to end, given what they make.
LEMMA JoinIs ==
  ASSUME NEW S, NEW s \in Seq(S), NEW t \in Seq(S), NEW u \in Seq(S), Joins(s, t, u)
  PROVE  s \o t = u
<1>1. s \o t \in Seq(S) /\ Joins(s, t, s \o t)
  BY Joined
<1> DEFINE j == s \o t  m == Len(s)  n == Len(t)
<1>2. m \in Nat /\ n \in Nat
  OBVIOUS
<1>3. j \in Seq(S) /\ Len(j) = m + n /\ Len(u) = m + n
  BY <1>1 DEF Joins
<1>4. /\ \A i \in 1 .. m : j[i] = u[i]
      /\ \A i \in 1 .. n : j[m + i] = u[m + i]
  BY <1>1 DEF Joins
<1> HIDE DEF j, m, n
<1>5. ASSUME NEW i \in 1 .. m + n PROVE j[i] = u[i]
  <2>1. CASE i <= m
    BY <1>2, <1>4, <2>1
  <2>2. CASE i > m
    <3>1. i - m \in 1 .. n /\ m + (i - m) = i
      BY <1>2, <2>2
    <3> QED BY <1>4, <3>1
  <2> QED BY <1>2, <2>1, <2>2
<1>6. j = u
  BY <1>3, <1>5, SeqEqual
<1> QED BY <1>6 DEF j

\* What a handler is when it is taken, alone or over what another has left.
LEMMA Taken ==
  /\ lapic_timer_irq_handler \o <<"iretq">> = Tick4 /\ Tick4 \o <<>> = Tick4 /\ Tick4 \o Last = Over4
  /\ keyboard_irq_handler \o <<"iretq">> = Key3 /\ Key3 \o <<>> = Key3 /\ Key3 \o Last = KeyOver3
<1> DEFINE timer == lapic_timer_irq_handler  keyboard == keyboard_irq_handler
<1>1. /\ timer \in Seq(Steps) /\ keyboard \in Seq(Steps) /\ Last \in Seq(Steps) /\ <<>> \in Seq(Steps)
      /\ Len(timer) = 3 /\ Len(keyboard) = 2 /\ Len(Last) = 1 /\ Len(<<>>) = 0
  BY DEF lapic_timer_irq_handler, keyboard_irq_handler, Last, Steps
<1>2. /\ Tick4 \in Seq(Steps) /\ Key3 \in Seq(Steps) /\ Over4 \in Seq(Steps) /\ KeyOver3 \in Seq(Steps)
      /\ Len(Tick4) = 4 /\ Len(Key3) = 3 /\ Len(Over4) = 5 /\ Len(KeyOver3) = 4
  BY DEF Tick4, Key3, Over4, KeyOver3, Steps
<1>3. /\ Tick4[1] = timer[1] /\ Tick4[2] = timer[2] /\ Tick4[3] = timer[3] /\ Tick4[4] = Last[1]
      /\ Key3[1] = keyboard[1] /\ Key3[2] = keyboard[2] /\ Key3[3] = Last[1]
  BY DEF Tick4, Key3, Last, lapic_timer_irq_handler, keyboard_irq_handler
<1>4. /\ Over4[1] = Tick4[1] /\ Over4[2] = Tick4[2] /\ Over4[3] = Tick4[3] /\ Over4[4] = Tick4[4]
      /\ Over4[5] = Last[1]
  BY DEF Tick4, Last, Over4
<1>5. /\ KeyOver3[1] = Key3[1] /\ KeyOver3[2] = Key3[2] /\ KeyOver3[3] = Key3[3]
      /\ KeyOver3[4] = Last[1]
  BY DEF Key3, Last, KeyOver3
<1>6. Joins(timer, Last, Tick4) /\ Joins(keyboard, Last, Key3)
  BY <1>1, <1>2, <1>3 DEF Joins
<1>7. Joins(Tick4, Last, Over4) /\ Joins(Key3, Last, KeyOver3)
  BY <1>1, <1>2, <1>4, <1>5 DEF Joins
<1>8. Joins(Tick4, <<>>, Tick4) /\ Joins(Key3, <<>>, Key3)
  BY <1>1, <1>2 DEF Joins
<1>9. Last = <<"iretq">>
  BY DEF Last
<1> HIDE DEF timer, keyboard
<1>10. timer \o Last = Tick4 /\ keyboard \o Last = Key3
  BY ONLY <1>1, <1>2, <1>6, JoinIs
<1>11. Tick4 \o Last = Over4 /\ Key3 \o Last = KeyOver3
  BY ONLY <1>1, <1>2, <1>7, JoinIs
<1>12. Tick4 \o <<>> = Tick4 /\ Key3 \o <<>> = Key3
  BY ONLY <1>1, <1>2, <1>8, JoinIs
<1> QED BY <1>9, <1>10, <1>11, <1>12 DEF timer, keyboard

LEMMA HandlerFacts ==
  /\ Tick4 # <<>> /\ Head(Tick4) = "ticks++" /\ Tail(Tick4) = Tick3 /\ Len(Tick4) = 4
  /\ Tick3 # <<>> /\ Head(Tick3) = "lapic_eoi" /\ Tail(Tick3) = Tick2 /\ Len(Tick3) = 3
  /\ Tick2 # <<>> /\ Head(Tick2) = "timer_tick_event" /\ Tail(Tick2) = Last /\ Len(Tick2) = 2
  /\ Key3 # <<>> /\ Head(Key3) = "inb 0x60" /\ Tail(Key3) = Key2 /\ Len(Key3) = 3
  /\ Key2 # <<>> /\ Head(Key2) = "lapic_eoi" /\ Tail(Key2) = Last /\ Len(Key2) = 2
  /\ Last # <<>> /\ Head(Last) = "iretq" /\ Tail(Last) = <<>> /\ Len(Last) = 1
<1>1. Tick4 # <<>> /\ Head(Tick4) = "ticks++" /\ Tail(Tick4) = Tick3 /\ Len(Tick4) = 4
  BY DEF Tick4, Tick3
<1>2. Tick3 # <<>> /\ Head(Tick3) = "lapic_eoi" /\ Tail(Tick3) = Tick2 /\ Len(Tick3) = 3
  BY DEF Tick3, Tick2
<1>3. Tick2 # <<>> /\ Head(Tick2) = "timer_tick_event" /\ Tail(Tick2) = Last /\ Len(Tick2) = 2
  BY DEF Tick2, Last
<1>4. Key3 # <<>> /\ Head(Key3) = "inb 0x60" /\ Tail(Key3) = Key2 /\ Len(Key3) = 3
  BY DEF Key3, Key2
<1>5. Key2 # <<>> /\ Head(Key2) = "lapic_eoi" /\ Tail(Key2) = Last /\ Len(Key2) = 2
  BY DEF Key2, Last
<1>6. Last # <<>> /\ Head(Last) = "iretq" /\ Tail(Last) = <<>> /\ Len(Last) = 1
  BY DEF Last
<1> QED BY <1>1, <1>2, <1>3, <1>4, <1>5, <1>6

LEMMA NestedFacts ==
  /\ Over4 # <<>> /\ Head(Over4) = "ticks++" /\ Tail(Over4) = Over3 /\ Len(Over4) = 5
  /\ Over3 # <<>> /\ Head(Over3) = "lapic_eoi" /\ Tail(Over3) = Over2 /\ Len(Over3) = 4
  /\ Over2 # <<>> /\ Head(Over2) = "timer_tick_event" /\ Tail(Over2) = OverLast /\ Len(Over2) = 3
  /\ KeyOver3 # <<>> /\ Head(KeyOver3) = "inb 0x60" /\ Tail(KeyOver3) = KeyOver2 /\ Len(KeyOver3) = 4
  /\ KeyOver2 # <<>> /\ Head(KeyOver2) = "lapic_eoi" /\ Tail(KeyOver2) = OverLast /\ Len(KeyOver2) = 3
  /\ OverLast # <<>> /\ Head(OverLast) = "iretq" /\ Tail(OverLast) = Last /\ Len(OverLast) = 2
<1>1. Over4 # <<>> /\ Head(Over4) = "ticks++" /\ Tail(Over4) = Over3 /\ Len(Over4) = 5
  BY DEF Over4, Over3
<1>2. Over3 # <<>> /\ Head(Over3) = "lapic_eoi" /\ Tail(Over3) = Over2 /\ Len(Over3) = 4
  BY DEF Over3, Over2
<1>3. Over2 # <<>> /\ Head(Over2) = "timer_tick_event" /\ Tail(Over2) = OverLast /\ Len(Over2) = 3
  BY DEF Over2, OverLast
<1>4. KeyOver3 # <<>> /\ Head(KeyOver3) = "inb 0x60" /\ Tail(KeyOver3) = KeyOver2 /\ Len(KeyOver3) = 4
  BY DEF KeyOver3, KeyOver2
<1>5. KeyOver2 # <<>> /\ Head(KeyOver2) = "lapic_eoi" /\ Tail(KeyOver2) = OverLast /\ Len(KeyOver2) = 3
  BY DEF KeyOver2, OverLast
<1>6. OverLast # <<>> /\ Head(OverLast) = "iretq" /\ Tail(OverLast) = Last /\ Len(OverLast) = 2
  BY DEF OverLast, Last
<1> QED BY <1>1, <1>2, <1>3, <1>4, <1>5, <1>6

(***************************************************************************)
(* The invariant of the order                                              *)
(***************************************************************************)

\* Interrupts, and what only they lead to, come once both handlers are registered.
Ready ==
  /\ Made >= 11 => "timer" \in handlers
  /\ Made >= 15 => "keyboard" \in handlers
  /\ (intr \/ created \/ \E c \in Contexts : doing[c] # <<>>) => Made >= 17

\* A handler is left, for another stack, after its EOI and before its iretq only;
\* what is in service is so for the handler that runs, with interrupts disabled.
\* Where a thread that ended with interrupts enabled leaves kmain in such a handler,
\* one more may come, while no thread is there to switch to.
Handled ==
  /\ intr \in BOOLEAN /\ created \in BOOLEAN
  /\ irr \subseteq Vectors /\ isr \subseteq Vectors /\ handlers \subseteq Vectors
  /\ on \in Contexts /\ doing \in [Contexts -> Unanswered \cup Answered]
  /\ \A c \in Contexts : c # on => doing[c] \in {<<>>, Last}
  /\ InHandler /\ intr => doing[on] = Last /\ ~created
  /\ doing[on] \in Nested => ~created
  /\ isr # {} => doing[on] \in Unanswered
  /\ on = "thread1" => created /\ doing["kmain"] = Last

BootInv == Position /\ Ready /\ Handled

(***************************************************************************)
(* The types of the controller and of the driver's bytes                   *)
(***************************************************************************)
Bytes == [kind : {"key", "ack", "config"}, bits : SUBSET Bits]
Commands == [port : {"command"}, value : {"0xAD", "0xA7", "0x20", "0x60", "0xAE"}]
Data == [port : {"data"}, value : SUBSET Bits]
Asking == {"idle", "flush", "0xAD", "0xA7", "0x20"}
Ops == Asking \cup {"config", "0x60", "byte", "0xAE", "0xF4", "ack", "enabled"}

\* The controller is asked for the command byte once: it never has two replies.
Asked == ibf # NULL /\ ibf.port = "command" /\ ibf.value = "0x20"
Ps2Inv ==
  /\ obf \in Bytes \cup {NULL} /\ ibf \in Commands \cup Data \cup {NULL}
  /\ config \subseteq Bits /\ command_byte \subseteq Bits
  /\ replies \in Seq(Bytes) /\ fifo \in Seq(Bytes) /\ Len(replies) <= 1
  /\ op \in Ops /\ polls \in 0 .. PollLimit - 1
  /\ Asked => replies = <<>>
  /\ op \in Asking => replies = <<>> /\ ~Asked
  /\ ticks \in 0 .. SleepTicks

\* The next step of a handler tells what is left of it.
LEMMA HeadFacts ==
  ASSUME NEW h \in Unanswered \cup Answered
  PROVE  /\ h # <<>> => Tail(h) \in Unanswered \cup Answered
         /\ h # <<>> /\ Head(h) = "ticks++" => Tail(h) \in Unanswered
         /\ h # <<>> /\ Head(h) = "inb 0x60" => Tail(h) \in Unanswered
         /\ h # <<>> /\ Head(h) = "timer_tick_event" =>
              h \notin Unanswered /\ Tail(h) = IF h \in Nested THEN OverLast ELSE Last
         /\ h # <<>> /\ Head(h) = "iretq" =>
              h \notin Unanswered /\ Tail(h) = IF h \in Nested THEN Last ELSE <<>>
         /\ h # <<>> /\ Tail(h) \in Nested => h \in Nested
         /\ h = <<>> => h \notin Unanswered
         /\ Len(h) <= 5
         /\ h # <<>> => Head(h) \in {"ticks++", "lapic_eoi", "timer_tick_event", "inb 0x60", "iretq"}
<1> USE HandlerFacts, NestedFacts
<1> DEFINE n == Len(h)
<1>1. CASE h \in Nested
  <2>1. \/ h = Over4 \/ h = Over3 \/ h = Over2 \/ h = KeyOver3 \/ h = KeyOver2 \/ h = OverLast
    BY <1>1 DEF Nested
  <2>2. OverLast \notin Unanswered /\ Over2 \notin Unanswered
    BY DEF Unanswered
  <2>3. h # <<>> /\ Tail(h) \in Unanswered \cup Answered
    BY <2>1 DEF Unanswered, Answered
  <2>4. Head(h) = "ticks++" \/ Head(h) = "inb 0x60" => Tail(h) \in Unanswered
    BY <2>1 DEF Unanswered
  <2>5. /\ Head(h) = "timer_tick_event" => h = Over2
        /\ Head(h) = "iretq" => h = OverLast
    BY <2>1
  <2>6. n = 5 \/ n = 4 \/ n = 3 \/ n = 2
    BY <2>1
  <2>7. n <= 5
    <3> HIDE DEF n
    <3> QED BY ONLY <2>6
  <2>8. Head(h) \in {"ticks++", "lapic_eoi", "timer_tick_event", "inb 0x60", "iretq"}
    BY <2>1
  <2> QED BY <1>1, <2>2, <2>3, <2>4, <2>5, <2>7, <2>8
<1>2. CASE h \notin Nested
  <2>1. \/ h = Tick4 \/ h = Tick3 \/ h = Tick2 \/ h = Key3 \/ h = Key2 \/ h = Last \/ h = <<>>
    BY <1>2 DEF Unanswered, Answered, Nested
  <2>2. Last \notin Unanswered /\ Tick2 \notin Unanswered /\ <<>> \notin Unanswered
    BY DEF Unanswered
  <2>3. Len(<<>>) = 0
    OBVIOUS
  <2>4. h # <<>> => Tail(h) \in Unanswered \cup Answered
    BY <2>1 DEF Unanswered, Answered
  <2>5. h # <<>> /\ (Head(h) = "ticks++" \/ Head(h) = "inb 0x60") => Tail(h) \in Unanswered
    BY <2>1 DEF Unanswered
  <2>6. /\ h # <<>> /\ Head(h) = "timer_tick_event" => h = Tick2
        /\ h # <<>> /\ Head(h) = "iretq" => h = Last
    BY <2>1
  <2>7. n <= 5
    <3>1. n = 4 \/ n = 3 \/ n = 2 \/ n = 1 \/ n = 0
      BY <2>1, <2>3
    <3> HIDE DEF n
    <3> QED BY ONLY <3>1
  <2>8. h # <<>> => Head(h) \in {"ticks++", "lapic_eoi", "timer_tick_event", "inb 0x60", "iretq"}
    BY <2>1
  <2>9. h # <<>> => Tail(h) \notin Nested
    BY <2>1 DEF Nested
  <2> QED BY <1>2, <2>2, <2>4, <2>5, <2>6, <2>7, <2>8, <2>9
<1> QED BY <1>1, <1>2

LEMMA Between ==
  ASSUME NEW s \in Seq(Names), Len(s) <= 20
  PROVE  20 - Len(s) \in 0 .. 20
<1>1. Len(s) \in Nat
  OBVIOUS
<1> DEFINE n == Len(s)
<1>2. n \in Nat /\ n <= 20
  BY <1>1
<1> HIDE DEF n
<1>3. 20 - n \in 0 .. 20
  BY ONLY <1>2
<1> QED BY <1>3 DEF n

LEMMA MadeNat ==
  /\ Position => Made \in 0 .. 20
  /\ Position' => Made' \in 0 .. 20
BY Between DEF Position, Made

LEMMA OrderInit == Init => BootInv
<1> SUFFICES ASSUME Init PROVE BootInv
  OBVIOUS
<1>1. todo = kmain /\ established = {} /\ created = FALSE /\ InterruptsInit
  BY DEF Init
<1>2. todo \in Seq(Names) /\ Len(todo) = 20 /\ Made = 0
  BY <1>1, ProgramIsSeq DEF Made
<1>3. Position
  BY <1>1, <1>2 DEF Position
<1>4. \A c \in Contexts : doing[c] = <<>>
  BY <1>1 DEF InterruptsInit
<1>5. Ready
  BY <1>1, <1>2, <1>4 DEF Ready, InterruptsInit
<1>6. /\ intr = FALSE /\ irr = {} /\ isr = {} /\ handlers = {} /\ on = "kmain"
      /\ doing \in [Contexts -> Unanswered \cup Answered]
  BY <1>1 DEF InterruptsInit, Answered
<1>7. Handled
  BY <1>1, <1>4, <1>6 DEF Handled, Contexts
<1> QED BY <1>3, <1>5, <1>7 DEF BootInv

\* Steps of kmain that handlers do not see, and requests of interrupts.
LEMMA QuietOrder ==
  ASSUME BootInv, Position', irr' \subseteq Vectors,
         Made' = Made \/ (Made' = Made + 1 /\ Made' # 11 /\ Made' # 15),
         UNCHANGED <<intr, isr, handlers, on, doing, created>>
  PROVE  BootInv'
<1>1. Made \in 0 .. 20 /\ Made' \in 0 .. 20
  BY MadeNat DEF BootInv
<1>2. /\ Made' >= 11 => Made >= 11
      /\ Made' >= 15 => Made >= 15
      /\ Made >= 17 => Made' >= 17
  BY <1>1
<1>3. Ready'
  BY <1>2 DEF BootInv, Ready
<1>4. Handled'
  BY DEF BootInv, Handled, InHandler
<1> QED BY <1>3, <1>4 DEF BootInv

LEMMA KmainStep ==
  ASSUME BootInv, NEW step, At(step), Done(step)
  PROVE  /\ Position' /\ Made \in 0 .. 19 /\ Made' = Made + 1
         /\ step = "register timer" <=> Made' = 11
         /\ step = "register keyboard" <=> Made' = 15
         /\ step = "enable_interrupts" <=> Made' = 17
         /\ step = "sleeping" <=> Made' = 19
         /\ step = "thread_start" <=> Made' = 20
<1>1. Position' /\ Made \in 0 .. 19 /\ Made' = Made + 1 /\ step = kmain[Made + 1]
  BY StepMade DEF BootInv
<1> DEFINE k == Made + 1
<1>2. k \in 1 .. 20 /\ step = kmain[k] /\ Made' = k
  BY <1>1
<1> HIDE DEF k
<1>3. /\ kmain[k] = "register timer" <=> k = 11
      /\ kmain[k] = "register keyboard" <=> k = 15
      /\ kmain[k] = "enable_interrupts" <=> k = 17
      /\ kmain[k] = "sleeping" <=> k = 19
      /\ kmain[k] = "thread_start" <=> k = 20
  BY <1>2, Where
<1> QED BY <1>1, <1>2, <1>3

\* A step that registers no handler, enables no interrupt and starts no thread.
LEMMA QuietStep ==
  ASSUME BootInv, NEW step, At(step), Done(step),
         step # "register timer", step # "register keyboard",
         UNCHANGED <<intr, irr, isr, handlers, on, doing, created>>
  PROVE  BootInv'
<1>1. Position' /\ Made' = Made + 1 /\ Made' # 11 /\ Made' # 15
  BY KmainStep
<1>2. irr' \subseteq Vectors
  BY DEF BootInv, Handled
<1> QED BY <1>1, <1>2, QuietOrder

\* Nothing of kmain's program is done.
LEMMA NoStep ==
  ASSUME BootInv, UNCHANGED <<todo, established>>, irr' \subseteq Vectors,
         UNCHANGED <<intr, isr, handlers, on, doing, created>>
  PROVE  BootInv'
<1>1. Position' /\ Made' = Made
  BY StepNotMade DEF BootInv
<1> QED BY <1>1, QuietOrder

LEMMA InitStepOrder == ASSUME BootInv, init_step PROVE BootInv'
<1>1. PICK step \in Simple : At(step) /\ Done(step)
  BY DEF init_step
<1>2. step # "register timer" /\ step # "register keyboard"
  BY DEF Simple
<1>3. UNCHANGED <<intr, irr, isr, handlers, on, doing, created>>
  BY DEF init_step, interruptVars
<1> QED BY <1>1, <1>2, <1>3, QuietStep

LEMMA IdtInitOrder == ASSUME BootInv, idt_init PROVE BootInv'
<1>1. At("idt_init") /\ Done("idt_init")
  BY DEF idt_init
<1>2. UNCHANGED <<intr, irr, isr, handlers, on, doing, created>>
  BY DEF idt_init
<1> QED BY <1>1, <1>2, QuietStep

LEMMA IoapicOrder == ASSUME BootInv, ioapic_init_keyboard PROVE BootInv'
<1>1. At("ioapic_init_keyboard") /\ Done("ioapic_init_keyboard")
  BY DEF ioapic_init_keyboard
<1>2. UNCHANGED <<intr, irr, isr, handlers, on, doing, created>>
  BY DEF ioapic_init_keyboard
<1> QED BY <1>1, <1>2, QuietStep

LEMMA CalibrationOrder == ASSUME BootInv, lapic_timer_device_init PROVE BootInv'
<1>1. UNCHANGED <<intr, isr, handlers, on, doing, created>>
  BY DEF lapic_timer_device_init
<1>2. irr' \subseteq Vectors
  <2>1. irr' = irr \/ irr' = irr \cup {"timer"}
    BY DEF lapic_timer_device_init, lapic_timer_init_callback, Requested
  <2> QED BY <2>1 DEF BootInv, Handled, Vectors
<1>3. At("lapic_timer_device_init")
  BY DEF lapic_timer_device_init
<1>4. CASE UNCHANGED <<todo, established>>
  BY <1>1, <1>2, <1>4, NoStep
<1>5. CASE Done("lapic_timer_device_init")
  <2> DEFINE step == "lapic_timer_device_init"
  <2>1. At(step) /\ Done(step) /\ step # "register timer" /\ step # "register keyboard"
    BY <1>3, <1>5
  <2> HIDE DEF step
  <2>2. Position' /\ Made' = Made + 1 /\ Made' # 11 /\ Made' # 15
    BY <2>1, KmainStep
  <2> QED BY <1>1, <1>2, <2>2, QuietOrder
<1> QED BY <1>4, <1>5 DEF lapic_timer_device_init

LEMMA KeyboardInitOrder == ASSUME BootInv, keyboard_init PROVE BootInv'
<1>1. UNCHANGED <<intr, irr, isr, handlers, on, doing, created>>
  BY DEF keyboard_init, interruptVars
<1>2. At("ps2_keyboard_enable")
  BY DEF keyboard_init
<1>3. UNCHANGED <<todo, established>> \/ Done("ps2_keyboard_enable")
  BY DEF keyboard_init
<1>4. irr' \subseteq Vectors
  BY <1>1 DEF BootInv, Handled
<1> QED BY <1>1, <1>2, <1>3, <1>4, QuietStep, NoStep

LEMMA SleepOrder == ASSUME BootInv, sleep_ms PROVE BootInv'
<1>1. At("sleep_ms") /\ Done("sleep_ms")
  BY DEF sleep_ms
<1>2. UNCHANGED <<intr, irr, isr, handlers, on, doing, created>>
  BY DEF sleep_ms, interruptVars
<1> QED BY <1>1, <1>2, QuietStep

LEMMA WakeOrder == ASSUME BootInv, wake PROVE BootInv'
<1>1. At("sleeping") /\ Done("sleeping")
  BY DEF wake
<1>2. UNCHANGED <<intr, irr, isr, handlers, on, doing, created>>
  BY DEF wake, interruptVars
<1> QED BY <1>1, <1>2, QuietStep

LEMMA OneMore ==
  ASSUME NEW m \in 0 .. 19
  PROVE  /\ m + 1 >= 11 => m >= 11 \/ m + 1 = 11
         /\ m + 1 >= 15 => m >= 15 \/ m + 1 = 15
         /\ m >= 17 => m + 1 >= 17
OBVIOUS

LEMMA RegisterOrder ==
  ASSUME BootInv,
         \/ idt_register_handler("register timer", "timer")
         \/ idt_register_handler("register keyboard", "keyboard")
  PROVE  BootInv'
<1>1. PICK step \in {"register timer", "register keyboard"} :
        /\ At(step) /\ Done(step)
        /\ step = "register timer" => "timer" \in handlers'
        /\ step = "register keyboard" => "keyboard" \in handlers'
  BY DEF idt_register_handler
<1>2. /\ handlers \subseteq handlers' /\ handlers' \subseteq Vectors
      /\ UNCHANGED <<intr, irr, isr, on, doing, created>>
  BY DEF idt_register_handler, lapicVars, BootInv, Handled, Vectors
<1>3. /\ Position' /\ Made \in 0 .. 19 /\ Made' = Made + 1
      /\ step = "register timer" <=> Made' = 11
      /\ step = "register keyboard" <=> Made' = 15
  BY <1>1, KmainStep
<1>4. /\ Made' >= 11 => Made >= 11 \/ Made' = 11
      /\ Made' >= 15 => Made >= 15 \/ Made' = 15
      /\ Made >= 17 => Made' >= 17
  BY <1>3, OneMore
<1>5. Ready'
  BY <1>1, <1>2, <1>3, <1>4 DEF BootInv, Ready
<1>6. Handled'
  BY <1>2 DEF BootInv, Handled, InHandler
<1> QED BY <1>3, <1>5, <1>6 DEF BootInv

\* Interrupts are enabled by the step of that name, or by halting after it.
LEMMA EnabledOrder ==
  ASSUME BootInv, Position', Made' >= 17, Made >= 16, Made' = 17 \/ Made' = Made,
         intr' = TRUE, ~InHandler,
         UNCHANGED <<irr, isr, handlers, on, doing, created>>
  PROVE  BootInv'
<1>1. Made \in 0 .. 20 /\ Made' \in 0 .. 20
  BY MadeNat DEF BootInv
<1>2. Made >= 11 /\ Made >= 15
  BY <1>1
<1>3. Ready'
  BY <1>1, <1>2 DEF BootInv, Ready
<1>4. Handled'
  BY DEF BootInv, Handled, InHandler
<1> QED BY <1>3, <1>4 DEF BootInv

LEMMA StiOrder == ASSUME BootInv, sti PROVE BootInv'
<1>1. At("enable_interrupts") /\ Done("enable_interrupts")
  BY DEF sti
<1>2. /\ intr' = TRUE /\ ~InHandler
      /\ UNCHANGED <<irr, isr, handlers, on, doing, created>>
  BY DEF sti, enable_interrupts, lapicVars, At, Executes
<1>3. Position' /\ Made \in 0 .. 19 /\ Made' = Made + 1 /\ Made' = 17
  BY <1>1, KmainStep
<1>4. Made' >= 17 /\ Made >= 16
  BY <1>3
<1> QED BY <1>2, <1>3, <1>4, EnabledOrder

LEMMA HaltOrder ==
  ASSUME BootInv, NEW c \in Contexts, halt_sti(c)
  PROVE  BootInv'
<1>1. /\ intr' = TRUE /\ ~InHandler
      /\ UNCHANGED <<irr, isr, handlers, on, doing, created, todo, established>>
  BY DEF halt_sti, enable_interrupts, lapicVars, Executes
<1>2. Position' /\ Made' = Made
  BY <1>1, StepNotMade DEF BootInv
<1>3. Made \in 0 .. 20
  BY MadeNat DEF BootInv
<1>4. Made >= 17
  <2>1. CASE c = "thread1"
    BY <2>1 DEF halt_sti, Executes, BootInv, Handled, Ready
  <2>2. CASE At("sleeping")
    <3>1. Made \in 0 .. 19 /\ "sleeping" = kmain[Made + 1]
      <4>1. todo \in Seq(Names) /\ todo # <<>> /\ Head(todo) = "sleeping" /\ Len(todo) <= 20
        BY <2>2 DEF At, BootInv, Position
      <4>2. Len(todo) \in Nat /\ Len(todo) > 0 /\ Head(todo) = todo[1]
        BY <4>1, Rest
      <4>3. 1 \in 1 .. Len(todo)
        BY <4>2
      <4>4. todo[1] = kmain[Made + 1]
        BY <4>3 DEF BootInv, Position
      <4>5. Made \in 0 .. 19
        BY <1>3, <4>2 DEF Made
      <4> QED BY <4>1, <4>2, <4>4, <4>5
    <3>2. Made + 1 = 19
      <4>1. Made + 1 \in 1 .. 20
        BY <3>1
      <4> QED BY <3>1, <4>1, Where
    <3> QED BY <3>1, <3>2
  <2> QED BY <2>1, <2>2 DEF halt_sti
<1>5. Made' >= 17 /\ Made >= 16
  BY <1>2, <1>3, <1>4
<1> QED BY <1>1, <1>2, <1>5, EnabledOrder

LEMMA ThreadStartOrder == ASSUME BootInv, thread_start PROVE BootInv'
<1>1. At("thread_start") /\ Done("thread_start")
  BY DEF thread_start
<1>2. created' = TRUE /\ UNCHANGED <<intr, irr, isr, handlers, on, doing>> /\ doing[on] = <<>>
  BY DEF thread_start, interruptVars, At, Executes, InHandler
<1>3. Position' /\ Made \in 0 .. 19 /\ Made' = Made + 1 /\ Made' = 20
  BY <1>1, KmainStep
<1>4. Made >= 11 /\ Made >= 15 /\ Made' >= 17
  BY <1>3
<1>5. Ready'
  BY <1>2, <1>4 DEF BootInv, Ready
<1>6. <<>> \notin Nested
  BY NestedFacts DEF Nested
<1>7. Handled'
  BY <1>2, <1>6 DEF BootInv, Handled, InHandler
<1> QED BY <1>3, <1>5, <1>7 DEF BootInv

\* thread1 leaves kmain where it was switched from: after the EOI of a handler.
LEMMA TerminateOrder == ASSUME BootInv, thread_terminate PROVE BootInv'
<1>1. /\ on = "thread1" /\ doing[on] = <<>> /\ on' = "kmain" /\ created' = FALSE
      /\ UNCHANGED <<intr, irr, isr, handlers, doing, todo, established>>
  BY DEF thread_terminate, Executes, InHandler, lapicVars
<1>2. doing["kmain"] = Last /\ isr = {} /\ created = TRUE
  <2>1. <<>> \notin Unanswered
    BY HandlerFacts, NestedFacts DEF Unanswered
  <2> QED BY <1>1, <2>1 DEF BootInv, Handled
<1>3. Position' /\ Made' = Made
  BY <1>1, StepNotMade DEF BootInv
<1>4. Ready'
  BY <1>1, <1>3 DEF BootInv, Ready
<1>5. Handled'
  BY <1>1, <1>2 DEF BootInv, Handled, InHandler, Contexts
<1> QED BY <1>3, <1>4, <1>5 DEF BootInv

(***************************************************************************)
(* The steps of interrupts                                                 *)
(***************************************************************************)

LEMMA TakeOrder == ASSUME BootInv, take_interrupt PROVE BootInv'
<1>1. PICK v \in Deliverable : idt_handler_c(v, Handler(v))
  BY DEF take_interrupt
<1>2. v \in Vectors /\ intr /\ isr = {}
  BY DEF Deliverable, BootInv, Handled
<1>3. UNCHANGED <<todo, established, created, handlers, on>>
  BY <1>1 DEF take_interrupt, idt_handler_c
<1>4. Position' /\ Made' = Made
  BY <1>3, StepNotMade DEF BootInv
<1>5. Made \in 0 .. 20 /\ Made >= 17 /\ Made >= 11 /\ Made >= 15
  <2>1. Made \in 0 .. 20
    BY MadeNat DEF BootInv
  <2>2. Made >= 17
    BY <1>2 DEF BootInv, Ready
  <2> QED BY <2>1, <2>2
<1>6. v \in handlers
  BY <1>2, <1>5 DEF BootInv, Ready, Vectors
<1> DEFINE h == Handler(v) \o <<"iretq">> \o doing[on]
<1>7. on \in Contexts /\ (doing[on] = <<>> \/ (doing[on] = Last /\ ~created))
  BY <1>2 DEF BootInv, Handled, InHandler
<1>8. h \in Unanswered /\ h # <<>> /\ (h \in Nested => ~created)
  <2>1. v = "timer" \/ v = "keyboard"
    BY <1>2 DEF Vectors
  <2>2. CASE doing[on] = <<>>
    <3>1. h = Tick4 \/ h = Key3
      BY <2>1, <2>2, Taken DEF Handler
    <3>2. Tick4 \notin Nested /\ Key3 \notin Nested
      BY DEF Nested, Tick4, Key3, Over4, Over3, Over2, KeyOver3, KeyOver2, OverLast
    <3> QED BY <3>1, <3>2, HandlerFacts DEF Unanswered
  <2>3. CASE doing[on] = Last /\ ~created
    <3>1. h = Over4 \/ h = KeyOver3
      BY <2>1, <2>3, Taken DEF Handler
    <3> QED BY <2>3, <3>1, NestedFacts DEF Unanswered
  <2> QED BY <1>7, <2>2, <2>3
<1>9. doing' = [doing EXCEPT ![on] = h]
  BY <1>1, <1>6 DEF idt_handler_c
<1> HIDE DEF h
<1>10. irr' \subseteq Vectors /\ isr' \subseteq Vectors /\ intr' = FALSE
  BY <1>1, <1>2 DEF idt_handler_c, interrupt_gate, BootInv, Handled
<1>11. /\ doing' \in [Contexts -> Unanswered \cup Answered] /\ doing'[on] = h
       /\ \A c \in Contexts : c # on => doing'[c] = doing[c]
  BY <1>7, <1>8, <1>9 DEF BootInv, Handled
<1>12. Ready'
  BY <1>3, <1>4, <1>5 DEF BootInv, Ready
<1>13. on = "thread1" => created /\ doing'["kmain"] = Last
  BY <1>11 DEF BootInv, Handled, Contexts
<1>14. Handled'
  BY <1>3, <1>8, <1>10, <1>11, <1>13 DEF BootInv, Handled, InHandler
<1> QED BY <1>4, <1>12, <1>14 DEF BootInv

\* A step of a handler: what is left of it, and what it was.
LEMMA PoppedFacts ==
  ASSUME BootInv, InHandler, Stepped
  PROVE  /\ doing[on] \in Unanswered \cup Answered /\ doing[on] # <<>>
         /\ doing' \in [Contexts -> Unanswered \cup Answered] /\ doing'[on] = Tail(doing[on])
         /\ \A c \in Contexts : c # on => doing'[c] = doing[c] /\ doing'[c] \in {<<>>, Last}
         /\ Made \in 0 .. 20 /\ Made >= 17 /\ Made >= 15 /\ Made >= 11
         /\ Head(doing[on]) # "iretq" => intr = FALSE
         /\ "timer" \in handlers /\ "keyboard" \in handlers
         /\ doing[on] \in Nested => ~created
<1>1. on \in Contexts /\ doing \in [Contexts -> Unanswered \cup Answered] /\ doing[on] # <<>>
  BY DEF BootInv, Handled, InHandler
<1>2. Tail(doing[on]) \in Unanswered \cup Answered
  BY <1>1, HeadFacts
<1>3. /\ doing' \in [Contexts -> Unanswered \cup Answered] /\ doing'[on] = Tail(doing[on])
      /\ \A c \in Contexts : c # on => doing'[c] = doing[c]
  BY <1>1, <1>2 DEF Stepped
<1>4. Made \in 0 .. 20 /\ Made >= 17 /\ Made >= 15 /\ Made >= 11
  <2>1. Made \in 0 .. 20
    BY MadeNat DEF BootInv
  <2>2. Made >= 17
    BY <1>1 DEF BootInv, Ready
  <2> QED BY <2>1, <2>2
<1>5. Head(doing[on]) # "iretq" => intr = FALSE
  BY HandlerFacts DEF BootInv, Handled
<1>6. "timer" \in handlers /\ "keyboard" \in handlers
  BY <1>4 DEF BootInv, Ready
<1>7. \A c \in Contexts : c # on => doing[c] \in {<<>>, Last}
  BY DEF BootInv, Handled
<1>8. doing[on] \in Nested => ~created
  BY DEF BootInv, Handled
<1> QED BY <1>1, <1>3, <1>4, <1>5, <1>6, <1>7, <1>8

\* Steps of a handler before its EOI, the EOI, and the switch and iretq after it.
LEMMA PoppedOrder ==
  ASSUME BootInv, InHandler, Stepped, intr' \in BOOLEAN, irr' = irr, isr' \subseteq Vectors,
         on' \in Contexts, on' = "thread1" => created /\ doing'["kmain"] = Last,
         on' # on => doing'[on] = Last /\ doing'[on'] \notin Nested,
         doing'[on'] # <<>> /\ intr' => doing'[on'] = Last /\ ~created,
         isr' # {} => doing'[on'] \in Unanswered,
         UNCHANGED <<handlers, created, todo, established>>
  PROVE  BootInv'
<1>1. /\ doing' \in [Contexts -> Unanswered \cup Answered] /\ doing'[on] = Tail(doing[on])
      /\ \A c \in Contexts : c # on => doing'[c] \in {<<>>, Last}
      /\ Made >= 17 /\ "timer" \in handlers /\ "keyboard" \in handlers
      /\ doing[on] \in Unanswered \cup Answered /\ doing[on] # <<>>
      /\ doing[on] \in Nested => ~created
  BY PoppedFacts
<1>2. Position' /\ Made' = Made
  BY StepNotMade DEF BootInv
<1>3. Ready'
  BY <1>1, <1>2 DEF Ready
<1>4. \A c \in Contexts : c # on' => doing'[c] \in {<<>>, Last}
  BY <1>1
<1>5. doing'[on] \in Nested => doing[on] \in Nested
  <2> DEFINE h == doing[on]
  <2>1. h \in Unanswered \cup Answered /\ h # <<>> /\ doing'[on] = Tail(h)
    BY <1>1
  <2> HIDE DEF h
  <2>2. Tail(h) \in Nested => h \in Nested
    BY ONLY <2>1, HeadFacts
  <2> QED BY <2>1, <2>2 DEF h
<1>6. doing'[on'] \in Nested => ~created
  BY <1>1, <1>5
<1>7. Handled'
  BY <1>1, <1>4, <1>6 DEF BootInv, Handled, InHandler
<1> QED BY <1>2, <1>3, <1>7 DEF BootInv

\* A thread that runs stays in the queue, and kmain where it was switched from.
LEMMA ThreadStays ==
  ASSUME BootInv, InHandler, Stepped, on' = on
  PROVE  on' = "thread1" => created /\ doing'["kmain"] = Last
BY PoppedFacts DEF BootInv, Handled, Stepped, Contexts

LEMMA EoiOrder ==
  ASSUME BootInv, lapic_eoi, UNCHANGED bootVars
  PROVE  BootInv'
<1>1. /\ InHandler /\ Stepped /\ isr' = {} /\ Head(doing[on]) = "lapic_eoi"
      /\ UNCHANGED <<intr, irr, handlers, on, created, todo, established>>
  BY DEF lapic_eoi, Next_is, bootVars
<1>2. isr' \subseteq Vectors /\ intr' = FALSE /\ on' \in Contexts
  BY <1>1, PoppedFacts DEF BootInv, Handled
<1>3. on' = "thread1" => created /\ doing'["kmain"] = Last
  BY <1>1, ThreadStays
<1> QED BY <1>1, <1>2, <1>3, PoppedOrder

LEMMA IretqOrder ==
  ASSUME BootInv, iretq, UNCHANGED bootVars
  PROVE  BootInv'
<1>1. /\ InHandler /\ Stepped /\ Head(doing[on]) = "iretq" /\ intr' = TRUE
      /\ UNCHANGED <<irr, isr, handlers, on, created, todo, established>>
  BY DEF iretq, Next_is, bootVars, lapicVars
<1> DEFINE h == doing[on]
<1>2. h \in Unanswered \cup Answered /\ h # <<>> /\ doing'[on] = Tail(h) /\ (h \in Nested => ~created)
  BY <1>1, PoppedFacts
<1>3. h \notin Unanswered /\ Tail(h) = IF h \in Nested THEN Last ELSE <<>>
  <2>1. Head(h) = "iretq"
    BY <1>1
  <2> HIDE DEF h
  <2> QED BY ONLY <1>2, <2>1, HeadFacts
<1>4. isr = {}
  BY <1>3 DEF BootInv, Handled
<1>5. doing'[on'] # <<>> => doing'[on'] = Last /\ ~created
  BY <1>1, <1>2, <1>3
<1>6. on' = "thread1" => created /\ doing'["kmain"] = Last
  BY <1>1, ThreadStays
<1>7. irr' = irr /\ isr' = {} /\ isr' \subseteq Vectors /\ intr' \in BOOLEAN /\ on' \in Contexts
  BY <1>1, <1>4 DEF BootInv, Handled
<1> QED BY <1>1, <1>5, <1>6, <1>7, PoppedOrder

LEMMA EarlyOrder ==
  ASSUME BootInv, \/ count_tick /\ UNCHANGED bootVars
                  \/ read_scancode /\ UNCHANGED bootVars
  PROVE  BootInv'
<1>1. /\ InHandler /\ Stepped
      /\ Head(doing[on]) = "ticks++" \/ Head(doing[on]) = "inb 0x60"
      /\ UNCHANGED <<intr, irr, isr, handlers, on, created, todo, established>>
  BY DEF count_tick, read_scancode, Next_is, bootVars, lapicVars
<1>2. doing'[on] \in Unanswered
  <2>1. /\ doing[on] \in Unanswered \cup Answered /\ doing[on] # <<>>
        /\ doing'[on] = Tail(doing[on])
    BY <1>1, PoppedFacts
  <2> DEFINE h == doing[on]
  <2>2. h \in Unanswered \cup Answered /\ h # <<>> /\ (Head(h) = "ticks++" \/ Head(h) = "inb 0x60")
    BY <1>1, <2>1
  <2> HIDE DEF h
  <2>3. Tail(h) \in Unanswered
    BY ONLY <2>2, HeadFacts
  <2> QED BY <2>1, <2>3 DEF h
<1>3. intr' = FALSE /\ isr' \subseteq Vectors /\ on' \in Contexts
  BY <1>1, PoppedFacts DEF BootInv, Handled
<1>4. on' = "thread1" => created /\ doing'["kmain"] = Last
  BY <1>1, ThreadStays
<1> QED BY <1>1, <1>2, <1>3, <1>4, PoppedOrder

LEMMA SwitchOrder == ASSUME BootInv, timer_tick_event PROVE BootInv'
<1>1. /\ InHandler /\ Stepped /\ Head(doing[on]) = "timer_tick_event"
      /\ on' \in {"kmain"} \cup IF created THEN {"thread1"} ELSE {}
      /\ UNCHANGED <<intr, irr, isr, handlers, created, todo, established>>
  BY DEF timer_tick_event, Next_is, bootVars, lapicVars
<1> DEFINE h == doing[on]
<1>2. /\ h \in Unanswered \cup Answered /\ h # <<>> /\ doing'[on] = Tail(h) /\ intr = FALSE
      /\ h \in Nested => ~created
      /\ \A c \in Contexts : c # on => doing'[c] \in {<<>>, Last} /\ doing'[c] = doing[c]
  BY <1>1, PoppedFacts
<1>3. h \notin Unanswered /\ Tail(h) = IF h \in Nested THEN OverLast ELSE Last
  <2>1. Head(h) = "timer_tick_event"
    BY <1>1
  <2> HIDE DEF h
  <2> QED BY ONLY <1>2, <2>1, HeadFacts
<1>4. isr' = {} /\ isr' \subseteq Vectors
  BY <1>1, <1>3 DEF BootInv, Handled
<1>5. on \in Contexts /\ on' \in Contexts /\ (on' = "thread1" => created)
      /\ (on = "thread1" => created /\ doing["kmain"] = Last)
  BY <1>1 DEF Contexts, BootInv, Handled
<1>6. on' # on => h \notin Nested /\ doing'[on] = Last
  BY <1>1, <1>2, <1>3, <1>5 DEF Contexts
<1>7. on' # on => doing'[on'] \notin Nested
  <2>1. <<>> \notin Nested /\ Last \notin Nested
    <3>1. Last \notin Nested
      BY DEF Nested, Last, Over4, Over3, Over2, KeyOver3, KeyOver2, OverLast
    <3> QED BY <3>1, NestedFacts DEF Nested
  <2> QED BY <1>2, <1>5, <2>1
<1>8. on' = "thread1" => created /\ doing'["kmain"] = Last
  <2>1. CASE on = "thread1"
    BY <1>2, <1>5, <2>1 DEF Contexts
  <2>2. CASE on # "thread1"
    BY <1>5, <1>6, <2>2 DEF Contexts
  <2> QED BY <2>1, <2>2
<1> QED BY <1>1, <1>2, <1>4, <1>5, <1>6, <1>7, <1>8, PoppedOrder

LEMMA HandlerOrder == ASSUME BootInv, handler_step PROVE BootInv'
BY EoiOrder, IretqOrder, EarlyOrder, SwitchOrder DEF handler_step

\* The timer, the controller and the user do no more than ask for an interrupt.
LEMMA EnvironmentOrder == ASSUME BootInv, Tick \/ Controller \/ Typing PROVE BootInv'
<1>1. UNCHANGED <<intr, isr, handlers, on, doing, created, todo, established>>
  BY DEF Tick, Controller, Typing, TakeCommand, TakeData, Deliver, User, bootVars,
     interruptVars, lapicVars
<1>2. irr' = irr \/ irr' = irr \cup {"timer"} \/ irr' = irr \cup {"keyboard"}
  <2>1. CASE Tick
    BY <2>1 DEF Tick, TimerTick, Requested
  <2>2. CASE Controller
    BY <2>2 DEF Controller, TakeCommand, TakeData, Deliver, Rises, Edge, Requested, lapicVars
  <2>3. CASE Typing
    BY <2>3 DEF Typing, User, interruptVars
  <2> QED BY <2>1, <2>2, <2>3
<1>3. irr' \subseteq Vectors
  BY <1>2 DEF BootInv, Handled, Vectors
<1> QED BY <1>1, <1>3, NoStep

LEMMA OrderStep == ASSUME BootInv, [Next]_vars PROVE BootInv'
<1>1. CASE Instruction
  BY <1>1, InitStepOrder, IdtInitOrder, CalibrationOrder, RegisterOrder, IoapicOrder,
     KeyboardInitOrder, StiOrder, SleepOrder, WakeOrder, ThreadStartOrder, TerminateOrder, HaltOrder
  DEF Instruction
<1>2. CASE take_interrupt \/ handler_step
  BY <1>2, TakeOrder, HandlerOrder
<1>3. CASE Tick \/ Controller \/ Typing
  BY <1>3, EnvironmentOrder
<1>4. CASE UNCHANGED vars
  <2>1. UNCHANGED <<intr, irr, isr, handlers, on, doing, created, todo, established>>
    BY <1>4 DEF vars, interruptVars, bootVars
  <2>2. irr' \subseteq Vectors
    BY <2>1 DEF BootInv, Handled
  <2> QED BY <2>1, <2>2, NoStep
<1> QED BY <1>1, <1>2, <1>3, <1>4 DEF Next, Processor

\* What the next step needs has been made.
LEMMA InvNothingEarly == BootInv => NothingEarly
<1> SUFFICES ASSUME BootInv PROVE NothingEarly
  OBVIOUS
<1>1. Made \in 0 .. 20
  BY MadeNat DEF BootInv
<1>2. CASE InHandler
  <2>1. Made >= 17
    BY <1>2 DEF BootInv, Ready, Handled, InHandler
  <2>2. \A i \in 1 .. 17 : kmain[i] \in established
    BY <1>1, <2>1 DEF BootInv, Position
  <2>3. kmain[7] \in established /\ kmain[9] \in established /\ kmain[14] \in established
    BY <2>2
  <2>4. {"idt_init", "sched_init", "event lists"} \subseteq established
    BY <2>3, Program
  <2>5. Head(doing[on]) \in {"ticks++", "lapic_eoi", "timer_tick_event", "inb 0x60", "iretq"}
    BY <1>2, HeadFacts DEF BootInv, Handled, InHandler
  <2>6. Needs(Head(doing[on])) \subseteq {"idt_init", "sched_init", "event lists"}
    BY <2>5 DEF Needs
  <2> QED BY <1>2, <2>4, <2>6 DEF NothingEarly
<1>3. CASE ~InHandler /\ todo # <<>>
  <2>1. todo \in Seq(Names) /\ Len(todo) <= 20
    BY DEF BootInv, Position
  <2>2. Len(todo) \in Nat /\ Len(todo) > 0 /\ Head(todo) = todo[1]
    BY <1>3, <2>1, Rest
  <2>3. Head(todo) = kmain[Made + 1] /\ Made \in 0 .. 19
    <3>1. 1 \in 1 .. Len(todo)
      BY <2>2
    <3>2. Made \in 0 .. 19
      BY <1>1, <2>2 DEF Made
    <3> QED BY <2>2, <3>1, <3>2 DEF BootInv, Position
  <2>4. Needs(Head(todo)) \subseteq {kmain[i] : i \in 1 .. Made}
    BY <2>3, Needed
  <2>5. {kmain[i] : i \in 1 .. Made} \subseteq established
    BY DEF BootInv, Position
  <2> QED BY <1>3, <2>4, <2>5 DEF NothingEarly
<1>4. CASE ~InHandler /\ todo = <<>>
  <2>1. Needs("") = {}
    BY DEF Needs
  <2> QED BY <1>4, <2>1 DEF NothingEarly
<1> QED BY <1>2, <1>3, <1>4

LEMMA InvAcknowledged == BootInv => Acknowledged
<1> SUFFICES ASSUME BootInv, intr PROVE isr = {}
  BY DEF Acknowledged
<1>1. doing[on] = <<>> \/ doing[on] = Last
  BY DEF BootInv, Handled, InHandler
<1>2. <<>> \notin Unanswered /\ Last \notin Unanswered
  <2>1. Last \notin Unanswered
    BY DEF Unanswered, Last, Tick4, Tick3, Key3, Key2, Over4, Over3, KeyOver3, KeyOver2
  <2> QED BY <2>1, HandlerFacts, NestedFacts DEF Unanswered
<1> QED BY <1>1, <1>2 DEF BootInv, Handled

\* Nothing is used before it is initialised, in kernel_init's order and whatever
\* interrupts come, as soon as they can.
THEOREM BootNothingEarly == Spec => []NothingEarly
BY OrderInit, OrderStep, InvNothingEarly, PTL DEF Spec

\* No handler is left for another stack with its interrupt unacknowledged: none
\* is in service while interrupts are enabled.
THEOREM BootAcknowledged == Spec => []Acknowledged
BY OrderInit, OrderStep, InvAcknowledged, PTL DEF Spec

(***************************************************************************)
(* The steps of the controller, the keyboard and ps2_keyboard_enable       *)
(***************************************************************************)

LEMMA Ps2Starts == Init => Ps2Inv
<1> SUFFICES ASSUME Init PROVE Ps2Inv
  OBVIOUS
<1>1. PICK m \in Machines : TimerInit(m.rsdp, m.rate) /\ Ps2Init(m.obf, m.config, m.keys)
  BY DEF Init
<1>2. m.obf \in {NULL} \cup Scancodes /\ m.config \subseteq Bits
  BY BootAssumption
<1>3. Scancodes \subseteq Bytes
  BY DEF Scancodes, Byte, Bytes
<1>4. obf \in Bytes \cup {NULL} /\ config \subseteq Bits /\ command_byte \subseteq Bits
  BY <1>1, <1>2, <1>3 DEF Ps2Init
<1>5. ibf = NULL /\ replies = <<>> /\ fifo = <<>> /\ op = "idle" /\ polls = 0 /\ ticks = 0
  BY <1>1 DEF Ps2Init, TimerInit
<1>6. <<>> \in Seq(Bytes) /\ Len(<<>>) = 0 /\ 0 \in 0 .. PollLimit - 1 /\ 0 \in 0 .. SleepTicks
  BY Ps2Assumption, TimerAssumption
<1> QED BY <1>4, <1>5, <1>6 DEF Ps2Inv, Asked, Ops, Asking

LEMMA SeqOf ==
  ASSUME NEW s \in Seq(Bytes), NEW e \in Bytes
  PROVE  /\ Append(s, e) \in Seq(Bytes) /\ <<e>> \in Seq(Bytes) /\ Len(<<e>>) = 1
         /\ s = <<>> => Append(s, e) = <<e>>
         /\ s # <<>> => Head(s) \in Bytes /\ Tail(s) \in Seq(Bytes)
         /\ s # <<>> /\ Len(s) <= 1 => Tail(s) = <<>>
<1>1. Append(s, e) \in Seq(Bytes) /\ <<e>> \in Seq(Bytes) /\ Len(<<e>>) = 1
  OBVIOUS
<1>2. s = <<>> => Append(s, e) = <<e>>
  OBVIOUS
<1>3. s # <<>> => Head(s) \in Bytes /\ Tail(s) \in Seq(Bytes)
  OBVIOUS
<1>4. ASSUME s # <<>>, Len(s) <= 1 PROVE Tail(s) = <<>>
  <2>1. Tail(s) \in Seq(Bytes) /\ Len(Tail(s)) = Len(s) - 1 /\ Len(s) \in Nat /\ Len(s) > 0
    BY <1>4, Rest
  <2>2. Len(Tail(s)) = 0
    BY <1>4, <2>1
  <2> QED BY ONLY <2>1, <2>2, EmptySeq
<1> QED BY <1>1, <1>2, <1>3, <1>4

LEMMA AckByte == Ack \in Bytes /\ EnableScanning \subseteq Bits
BY DEF Ack, Byte, Bytes, Bits, EnableScanning

LEMMA CommandTaken == ASSUME Ps2Inv, TakeCommand, UNCHANGED ticks PROVE Ps2Inv'
<1>1. /\ ibf # NULL /\ ibf.port = "command" /\ ibf' = NULL
      /\ UNCHANGED <<obf, fifo, op, polls, command_byte, ticks>>
  BY DEF TakeCommand, enableVars
<1>2. config' \subseteq Bits
  BY DEF TakeCommand, Ps2Inv, Bits
<1>3. ~Asked'
  BY <1>1 DEF Asked
<1>4. CASE Asked
  <2>1. replies = <<>> /\ replies' = Append(replies, Byte("config", config)) /\ op \notin Asking
    BY <1>1, <1>4 DEF TakeCommand, Asked, Ps2Inv
  <2>2. Byte("config", config) \in Bytes
    BY DEF Byte, Bytes, Ps2Inv
  <2>3. replies' \in Seq(Bytes) /\ Len(replies') <= 1
    BY <2>1, <2>2, SeqOf DEF Ps2Inv
  <2> QED BY <1>1, <1>2, <1>3, <2>1, <2>3 DEF Ps2Inv
<1>5. CASE ~Asked
  <2>1. replies' = replies
    BY <1>1, <1>5 DEF TakeCommand, Asked
  <2> QED BY <1>1, <1>2, <1>3, <2>1 DEF Ps2Inv
<1> QED BY <1>4, <1>5

LEMMA DataTaken == ASSUME Ps2Inv, TakeData, UNCHANGED ticks PROVE Ps2Inv'
<1>1. /\ ibf # NULL /\ ibf.port = "data" /\ ibf' = NULL
      /\ UNCHANGED <<obf, replies, op, polls, command_byte, ticks>>
  BY DEF TakeData, enableVars
<1>2. ibf.value \subseteq Bits
  BY <1>1 DEF Ps2Inv, Commands, Data
<1>3. config' \subseteq Bits
  BY <1>2 DEF TakeData, Ps2Inv
<1>4. fifo' \in Seq(Bytes)
  BY AckByte, SeqOf DEF TakeData, Ps2Inv
<1>5. ~Asked' /\ ~Asked
  BY <1>1 DEF Asked
<1> QED BY <1>1, <1>3, <1>4, <1>5 DEF Ps2Inv

LEMMA Delivered == ASSUME Ps2Inv, Deliver, UNCHANGED ticks PROVE Ps2Inv'
<1>1. UNCHANGED <<ibf, config, op, polls, command_byte, ticks>>
  BY DEF Deliver, enableVars
<1>2. Asked' = Asked
  BY <1>1 DEF Asked
<1>3. CASE replies # <<>> /\ obf' = Head(replies) /\ replies' = Tail(replies) /\ UNCHANGED fifo
  <2>1. obf' \in Bytes /\ replies' = <<>>
    BY <1>3, AckByte, SeqOf DEF Ps2Inv
  <2>2. <<>> \in Seq(Bytes) /\ Len(<<>>) <= 1
    OBVIOUS
  <2> QED BY <1>1, <1>2, <1>3, <2>1, <2>2 DEF Ps2Inv
<1>4. CASE fifo # <<>> /\ obf' = Head(fifo) /\ fifo' = Tail(fifo) /\ UNCHANGED replies
  <2>1. obf' \in Bytes /\ fifo' \in Seq(Bytes)
    BY <1>4, AckByte, SeqOf DEF Ps2Inv
  <2> QED BY <1>1, <1>2, <1>4, <2>1 DEF Ps2Inv
<1> QED BY <1>3, <1>4 DEF Deliver

LEMMA Typed == ASSUME Ps2Inv, User, UNCHANGED ticks PROVE Ps2Inv'
<1>1. UNCHANGED <<obf, ibf, config, replies, op, polls, command_byte, ticks>>
  BY DEF User, enableVars
<1>2. PICK b \in Scancodes : fifo' = Append(fifo, b)
  BY DEF User
<1>3. b \in Bytes
  BY <1>2 DEF Scancodes, Byte, Bytes
<1>4. fifo' \in Seq(Bytes)
  BY <1>2, <1>3, SeqOf DEF Ps2Inv
<1>5. Asked' = Asked
  BY <1>1 DEF Asked
<1> QED BY <1>1, <1>4, <1>5 DEF Ps2Inv

\* A wait goes on, or the caller does.
LEMMA PollFacts ==
  ASSUME Ps2Inv, NEW next, Poll(next)
  PROVE  polls' \in 0 .. PollLimit - 1 /\ (op' = op \/ op' = next)
<1>1. 0 \in 0 .. PollLimit - 1 /\ polls \in Nat /\ PollLimit \in Nat
  BY Ps2Assumption DEF Ps2Inv
<1> QED BY <1>1 DEF Poll, Goto

LEMMA Written ==
  ASSUME Ps2Inv, UNCHANGED ticks, NEW at, NEW to, NEW value, NEW next, NEW failed,
         Write(at, to, value, next, failed),
         [port |-> to, value |-> value] \in Commands \cup Data,
         next \in Ops, failed \in Ops,
         next \in Asking => at \in Asking /\ value # "0x20",
         failed \in Asking => at \in Asking,
         to = "command" /\ value = "0x20" => at \in Asking
  PROVE  Ps2Inv'
<1>1. op = at /\ UNCHANGED <<obf, config, replies, fifo, command_byte, ticks>>
  BY DEF Write
<1>2. CASE ibf = NULL
  <2>1. ibf' = [port |-> to, value |-> value] /\ op' = next /\ polls' = 0
    BY <1>2 DEF Write, Goto
  <2>2. ibf' \in Commands \cup Data /\ 0 \in 0 .. PollLimit - 1
    BY <2>1, Ps2Assumption
  <2>3. Asked' => to = "command" /\ value = "0x20"
    BY <2>1 DEF Asked
  <2> QED BY <1>1, <2>1, <2>2, <2>3 DEF Ps2Inv
<1>3. CASE ibf # NULL
  <2>1. Poll(failed) /\ UNCHANGED ibf
    BY <1>3 DEF Write
  <2>2. polls' \in 0 .. PollLimit - 1 /\ (op' = op \/ op' = failed)
    BY <2>1, PollFacts
  <2>3. Asked' = Asked
    BY <2>1 DEF Asked
  <2> QED BY <1>1, <2>1, <2>2, <2>3 DEF Ps2Inv
<1> QED BY <1>2, <1>3

LEMMA Read ==
  ASSUME Ps2Inv, UNCHANGED ticks, NEW at, NEW next \in Ops \ Asking, NEW failed \in Ops \ Asking,
         ReadByte(at, next, failed)
  PROVE  Ps2Inv'
<1>1. op = at /\ UNCHANGED <<ibf, config, replies, fifo, ticks>>
  BY DEF ReadByte
<1>2. Asked' = Asked
  BY <1>1 DEF Asked
<1>3. CASE obf # NULL
  <2>1. /\ obf' = NULL /\ op' = next /\ polls' = 0
        /\ command_byte' = obf.bits \/ command_byte' = command_byte
    BY <1>3 DEF ReadByte, Goto
  <2>2. command_byte' \subseteq Bits /\ 0 \in 0 .. PollLimit - 1
    BY <1>3, <2>1, Ps2Assumption DEF Ps2Inv, Bytes
  <2> QED BY <1>1, <1>2, <2>1, <2>2 DEF Ps2Inv
<1>4. CASE obf = NULL
  <2>1. Poll(failed) /\ UNCHANGED <<obf, command_byte>>
    BY <1>4 DEF ReadByte
  <2>2. polls' \in 0 .. PollLimit - 1 /\ (op' = op \/ op' = failed)
    BY <2>1, PollFacts
  <2> QED BY <1>1, <1>2, <2>1, <2>2 DEF Ps2Inv
<1> QED BY <1>3, <1>4

LEMMA OpNames ==
  /\ Asking \subseteq Ops
  /\ {"config", "0x60", "byte", "0xAE", "0xF4", "ack", "enabled"} \subseteq Ops \ Asking
BY DEF Ops, Asking

LEMMA Flushed == ASSUME Ps2Inv, UNCHANGED ticks, ps2_flush_output_buffer PROVE Ps2Inv'
<1>1. /\ op = "flush" /\ UNCHANGED <<ibf, config, replies, fifo, command_byte, ticks>>
      /\ obf' \in {obf, NULL}
      /\ \/ UNCHANGED <<op, polls>>
         \/ op' = "0xAD" /\ polls' = 0
  BY DEF ps2_flush_output_buffer, Goto
<1>2. Asked' = Asked /\ 0 \in 0 .. PollLimit - 1
  BY <1>1, Ps2Assumption DEF Asked
<1>3. "flush" \in Asking /\ "0xAD" \in Asking /\ "0xAD" \in Ops
  BY DEF Asking, Ops
<1> QED BY <1>1, <1>2, <1>3 DEF Ps2Inv

LEMMA Enabling == ASSUME Ps2Inv, UNCHANGED ticks, ps2_keyboard_enable PROVE Ps2Inv'
<1>1. /\ [port |-> "command", value |-> "0xAD"] \in Commands \cup Data
      /\ [port |-> "command", value |-> "0xA7"] \in Commands \cup Data
      /\ [port |-> "command", value |-> "0x20"] \in Commands \cup Data
      /\ [port |-> "command", value |-> "0x60"] \in Commands \cup Data
      /\ [port |-> "command", value |-> "0xAE"] \in Commands \cup Data
  BY DEF Commands
<1>2. AsWanted(command_byte) \subseteq Bits
  BY DEF AsWanted, Ps2Inv, Bits
<1>3. /\ [port |-> "data", value |-> AsWanted(command_byte)] \in Commands \cup Data
      /\ [port |-> "data", value |-> EnableScanning] \in Commands \cup Data
  BY <1>2, AckByte DEF Data
<1>4. /\ "0xAD" \in Asking /\ "0xA7" \in Asking /\ "0x20" \in Asking
      /\ "0xAD" \in Ops /\ "0xA7" \in Ops /\ "0x20" \in Ops
  BY DEF Asking, Ops
<1>5. \A x \in {"config", "0x60", "byte", "0xAE", "0xF4", "ack", "enabled"} :
        x \in Ops /\ x \notin Asking
  BY OpNames
<1>6. CASE Write("0xAD", "command", "0xAD", "0xA7", "0xA7")
  BY <1>1, <1>4, <1>6, Written
<1>7. CASE Write("0xA7", "command", "0xA7", "0x20", "0x20")
  BY <1>1, <1>4, <1>7, Written
<1>8. CASE Write("0x20", "command", "0x20", "config", "0xAE")
  BY <1>1, <1>4, <1>5, <1>8, Written
<1>9. CASE ReadByte("config", "0x60", "0xAE")
  BY <1>5, <1>9, Read
<1>10. CASE Write("0x60", "command", "0x60", "byte", "byte")
  BY <1>1, <1>5, <1>10, Written
<1>11. CASE Write("byte", "data", AsWanted(command_byte), "0xAE", "0xAE")
  BY <1>3, <1>5, <1>11, Written
<1>12. CASE Write("0xAE", "command", "0xAE", "0xF4", "0xF4")
  BY <1>1, <1>5, <1>12, Written
<1>13. CASE Write("0xF4", "data", EnableScanning, "ack", "ack")
  BY <1>3, <1>5, <1>13, Written
<1>14. CASE ReadByte("ack", "enabled", "enabled")
  BY <1>5, <1>14, Read
<1> QED BY <1>6, <1>7, <1>8, <1>9, <1>10, <1>11, <1>12, <1>13, <1>14, Flushed DEF ps2_keyboard_enable

LEMMA Ps2Unchanged == ASSUME Ps2Inv, UNCHANGED ps2Vars, ticks' \in 0 .. SleepTicks PROVE Ps2Inv'
BY DEF Ps2Inv, ps2Vars, deviceVars, enableVars, Asked

LEMMA KeyboardInitPs2 == ASSUME Ps2Inv, keyboard_init PROVE Ps2Inv'
<1>1. UNCHANGED ticks
  BY DEF keyboard_init, timerVars
<1>2. CASE op = "idle" /\ Goto("flush") /\ UNCHANGED <<deviceVars, command_byte, timedout>>
  <2>1. op = "idle" /\ op' = "flush" /\ polls' = 0
    BY <1>2 DEF Goto
  <2>2. UNCHANGED <<obf, ibf, config, replies, fifo, command_byte, ticks>>
    BY <1>1, <1>2 DEF deviceVars
  <2>3. Asked' = Asked /\ 0 \in 0 .. PollLimit - 1
    BY <2>2, Ps2Assumption DEF Asked
  <2>4. "idle" \in Asking /\ "flush" \in Asking /\ "flush" \in Ops
    BY DEF Asking, Ops
  <2> QED BY <2>1, <2>2, <2>3, <2>4 DEF Ps2Inv
<1>3. CASE ps2_keyboard_enable
  BY <1>1, <1>3, Enabling
<1>4. CASE UNCHANGED ps2Vars
  <2>1. ticks' \in 0 .. SleepTicks
    BY <1>1 DEF Ps2Inv
  <2> QED BY <1>4, <2>1, Ps2Unchanged
<1> QED BY <1>2, <1>3, <1>4 DEF keyboard_init

LEMMA HandlerPs2 == ASSUME Ps2Inv, handler_step PROVE Ps2Inv'
<1>1. CASE read_scancode /\ UNCHANGED <<timerVars, bootVars>>
  <2>1. obf' = NULL /\ UNCHANGED <<ibf, config, replies, fifo, op, polls, command_byte, ticks>>
    BY <1>1 DEF read_scancode, enableVars, timerVars
  <2>2. Asked' = Asked
    BY <2>1 DEF Asked
  <2> QED BY <2>1, <2>2 DEF Ps2Inv
<1>2. CASE count_tick /\ UNCHANGED <<ps2Vars, bootVars>>
  <2>1. ticks' = IF ticks < SleepTicks THEN ticks + 1 ELSE ticks
    BY <1>2 DEF count_tick
  <2>2. ticks' \in 0 .. SleepTicks
    BY <2>1, TimerAssumption DEF Ps2Inv
  <2> QED BY <1>2, <2>2, Ps2Unchanged
<1>3. CASE UNCHANGED <<timerVars, ps2Vars>>
  <2>1. ticks' \in 0 .. SleepTicks
    BY <1>3 DEF timerVars, Ps2Inv
  <2> QED BY <1>3, <2>1, Ps2Unchanged
<1> QED BY <1>1, <1>2, <1>3 DEF handler_step, timer_tick_event

LEMMA Ps2Step == ASSUME Ps2Inv, [Next]_vars PROVE Ps2Inv'
<1>1. ASSUME UNCHANGED <<ps2Vars, ticks>> PROVE Ps2Inv'
  <2>1. ticks' \in 0 .. SleepTicks
    BY <1>1 DEF Ps2Inv
  <2> QED BY <1>1, <2>1, Ps2Unchanged
<1>2. CASE Instruction
  <2>1. CASE keyboard_init
    BY <2>1, KeyboardInitPs2
  <2>2. CASE sleep_ms
    <3>1. UNCHANGED ps2Vars /\ ticks' \in 0 .. SleepTicks
      BY <2>2, TimerAssumption DEF sleep_ms, sleep_begins
    <3> QED BY <3>1, Ps2Unchanged
  <2>3. CASE lapic_timer_device_init
    <3>1. UNCHANGED <<ps2Vars, ticks>>
      BY <2>3 DEF lapic_timer_device_init, pm_start, acpi_pm_delay_ms, lapic_timer_init_callback
    <3> QED BY <1>1, <3>1
  <2>4. CASE \/ init_step \/ idt_init \/ ioapic_init_keyboard \/ sti \/ wake \/ thread_start \/ thread_terminate
             \/ idt_register_handler("register timer", "timer")
             \/ idt_register_handler("register keyboard", "keyboard")
             \/ \E c \in Contexts : halt_sti(c)
    <3>1. UNCHANGED <<ps2Vars, timerVars>>
      BY <2>4 DEF init_step, idt_init, ioapic_init_keyboard, sti, wake, thread_start, thread_terminate,
         idt_register_handler, halt_sti
    <3> QED BY <1>1, <3>1 DEF timerVars
  <2> QED BY <1>2, <2>1, <2>2, <2>3, <2>4 DEF Instruction
<1>3. CASE take_interrupt
  BY <1>1, <1>3 DEF take_interrupt, timerVars
<1>4. CASE handler_step
  BY <1>4, HandlerPs2
<1>5. CASE Tick
  BY <1>1, <1>5 DEF Tick, timerVars
<1>6. CASE Controller
  BY <1>6, CommandTaken, DataTaken, Delivered DEF Controller, timerVars
<1>7. CASE Typing
  BY <1>7, Typed DEF Typing, timerVars
<1>8. CASE UNCHANGED vars
  BY <1>1, <1>8 DEF vars, timerVars
<1> QED BY <1>2, <1>3, <1>4, <1>5, <1>6, <1>7, <1>8 DEF Next, Processor

LEMMA InvTypeOK == BootInv /\ Ps2Inv /\ Calibrating => TypeOK
<1> SUFFICES ASSUME BootInv, Ps2Inv, Calibrating PROVE TypeOK
  OBVIOUS
<1>1. \A c \in Contexts : Len(doing[c]) <= 5
  BY HeadFacts DEF BootInv, Handled
<1>2. obf = NULL \/ obf.bits \subseteq Bits
  BY DEF Ps2Inv, Bytes
<1>3. /\ intr \in BOOLEAN /\ irr \subseteq Vectors /\ isr \subseteq Vectors
      /\ handlers \subseteq Vectors /\ on \in Contexts
  BY DEF BootInv, Handled
<1>4. /\ start \in 0 .. PMRange - 1 /\ ticr \in Nat /\ elapsed \in 0 .. TargetTicks + PMRange
  BY DEF Calibrating
<1>5. ticks \in 0 .. SleepTicks /\ Len(replies) <= 1 /\ polls \in 0 .. PollLimit - 1
  BY DEF Ps2Inv
<1> QED BY <1>1, <1>2, <1>3, <1>4, <1>5 DEF TypeOK

\* Every variable keeps its type: the counters of the calibration stay within
\* their width, no handler nests, and the controller never has two replies.
THEOREM BootTypeOK == Spec => []TypeOK
BY OrderInit, OrderStep, Ps2Starts, Ps2Step, CalibratingInit, CalibratingStep, InvTypeOK, PTL DEF Spec
====
