# unknownOS: specifications, model checking and proofs

TLA+ specifications of the kernel in `src/src/`: modules translated from the C
and assembly sources, TLC configurations that check them on small instances,
and TLAPS proofs of what holds for every instance. Paths below are relative to
`src/src/`.

unknownOS is a small x86_64 kernel booted by Limine. It runs on one processor,
in one address space, with interrupts enabled while threads run. Nothing in it
takes a lock: what keeps its parts apart is the interrupt flag, where somebody
remembered to clear it, and luck. That is where the specifications look first.

## Inventory

| Part | State | Operations | Interacts with | What makes it correct |
|---|---|---|---|---|
| Physical memory (`kernel/memory/pmm.c`) | bitmap, search hint, the kernel's bounds | init from the memory map; allocate one page or a run; free; reclaim the bootloader's memory | memory map (Limine); called by VMM and heap | no page granted twice, none of the kernel's or the bitmap's; none lost; NULL only when memory is short |
| Virtual memory (`kernel/memory/vmm.c`) | page tables, CR3, the TLB | map a page or a range, unmap, build the kernel's address space, switch CR3 | takes pages from PMM; called by heap, LAPIC, I/O APIC | a mapping says what the last call said; tables are never data; the space is complete when it is switched to |
| Heap (`kernel/memory/heap.c`) | headers, free list, break | kmalloc, kfree, kcalloc, krealloc, expand | PMM and VMM below; threads above | blocks tile the heap, owners do not overlap, failures change nothing |
| Threads (`kernel/thread/thread.c`) | descriptors, stacks | create, start, end, destroy | heap, scheduler | a started thread runs, an ended one never again |
| Scheduler (`kernel/sched/sched.c`, `cpu_switch_context.asm`) | ready queue, current thread, saved stacks | schedule, tick | timer interrupt; `klib/list.h` | round robin; each thread on its own stack; nobody starves |
| Interrupts (`idt.c`, `interrupts.asm`, `lapic.c`, `ioapic.c`) | IDT, handlers, interrupt flag, what is in service | register, dispatch, end of interrupt, iret | every handler | a handler runs with interrupts off, and is acknowledged before its stack may be left |
| Timer (`kernel/timer/timer.c`, `lapic_timer.c`, `drivers/acpi.c`) | tick count, callback, period | calibrate against the ACPI PM timer, tick, sleep | scheduler, LAPIC, firmware tables | sleeps end, and not early; the timer is never stopped by its own calibration |
| PS/2 controller (`ps2.c`) | none of its own | enable, with bounded waits | keyboard, user, I/O APIC | no byte gets stuck in the controller |
| Boot and kmain (`kernel/init.c`, `kernel/main.c`) | none | the order of initialisation; the first sleep; the loop over keys | everything | nothing is used before it is initialised |
| Keyboard (`drivers/keyboard.c`) | event pool, two lists, shift, caps lock, keys down | interrupt handler, `keyboard_getchar` | I/O APIC, `klib/list.h`, readers | each press read once, in order, in the case it was typed in |
| Screen (`drivers/screen/screen.c`, `klib/string.c`, `math.c`) | back buffer, video memory, cursor, colours | formatted output, scroll, clear, flush | `mem.c`; kmain, threads and panics print | no store outside the buffers; what is printed is what shows |
| Panic (`kernel/panic.c`) | none | clear, print, draw the face and halt | everything | its message is complete, whatever it interrupts, but for what the face covers, and nothing runs after it |
| Memory routines (`klib/mem.c`) | none | memcpy, memset, memmove, memcmp | compiler-generated calls, screen, heap | the C standard's definition |
| GDT/TSS, serial port, string comparison, vendored headers and fonts | tables, none | written or read once | - | - |

Hard to test here: a tick between any two instructions of a list operation or of
a line being printed; a context switch inside an interrupt handler and what
becomes of the interrupt flag and the acknowledgement; the keyboard's interrupt
against readers that poll; out-of-memory half way through an expansion or a
mapping; a search hint or a cached translation that outlives what it was right
for; a counter that wraps between two readings; a user who types while the
kernel starts; copies whose operands overlap. `PROJECT.json` lists each hazard
at its line with the property that would catch it.

## Modules

| Module | Models | Kind |
|---|---|---|
| `PageAllocator` | what a page allocator promises | abstract |
| `Pmm` | `pmm.c` | detailed; implements `PageAllocator` |
| `PmmProofs` | theorems about `Pmm` | proofs |
| `Vmm` | `vmm.c`, the mappings of `lapic.c`, `ioapic.c` and the heap, the TLB | detailed |
| `VmmProofs` | theorems about `Vmm` | proofs |
| `Regions` | disjoint regions of memory | abstract |
| `Heap` | `heap.c`, over the outcomes of `pmm_alloc_page` and `vmm_map_page` | detailed; implements `Regions` |
| `RoundRobin` | what a round-robin scheduler promises | abstract |
| `Sched` | `sched.c`, `thread.c`, `list.h`, the switch, the tick, `sleep_ms`, kmain as a client | detailed; implements `RoundRobin` |
| `Interrupts` | the interrupt flag, the LAPIC's requests and service, the I/O APIC's entry, `idt.c`, `interrupts.asm` | component of `Boot` |
| `Timer` | `lapic_timer.c`, `timer.c`, `acpi.c` | component of `Boot`; extends `Interrupts` |
| `Ps2` | `ps2.c` against controller, keyboard and user | component of `Boot`; extends `Interrupts` |
| `Boot` | `init.c` and the start of `main.c`, composing the three | composition |
| `SchedProofs` | theorems about `Sched` | proofs |
| `BootProofs` | theorems about `Boot`: calibration, order, interrupts, types | proofs |
| `HeapProofs` | theorems about `Heap` | proofs |
| `CharQueue` | a bounded queue of characters | abstract |
| `Keyboard` | `keyboard.c`, with a user and a keyboard as environment | detailed; implements `CharQueue` |
| `KeyboardProofs` | theorems about `Keyboard` | proofs |
| `Terminal` | what `kprintf` promises: cells, and what a format stands for | abstract |
| `Screen` | `screen.c`, `blit32.h`, `panic.c`, the conversions of `string.c` and `math.c` | detailed; compared with `Terminal` |
| `ScreenProofs` | theorem about `Screen` | proofs |
| `KMem` | `klib/mem.c` | algorithms against the C definitions |
| `KMemProofs` | theorem about `KMem` | proofs |
| `MC*` | constants for TLC | configuration |

Each detailed module but `Screen` ends with its refinement mapping (`INSTANCE
... WITH`) and states the abstract specification as `Implements`. Operators that
begin with "Mutant" in their comment are not part of the model: each is a
plausible bug of the definition after it, kept to show that a property would
notice.

### Pmm

One action per function. The bitmap is the set of pages whose bit is set,
because no property tells two representations of a set of bits apart; its size,
its place in memory, the words it is scanned by and the hint in words are kept.
A search is the lowest element of the set of candidate starts of its two
passes, which is what the loops find. `held` is a ghost: what callers have been
given. Addresses, not only page numbers, enter the free calls, so misalignment
and bounds are tested as the code does. A request that returns NULL gives the
caller nothing, even when the code marked page 0.

Assumed: the promises of the Limine protocol about the memory map (grantable
entries are page aligned and overlap nothing), callers that free only what they
hold or make a mistake the code tests for, and at most one reclaim. The last is
not enforced by the code: `pmm_reclaim_bootloader_memory` clears by memory map,
so a second call would free pages granted since the first. Nothing calls it yet.

### Vmm

Memory is frames of `E` entries, whatever a frame serves for, so that a walk
which leaves the tables reads and writes what lies there: memory nobody has
cleared holds `Junk`, an entry that is present. A call is one step, except that
`vmm_map_range` makes one per round of its loop, where it may fail; the tables
made on the way to a failure stay. `Translate` is the processor: the four
levels, large pages, and the permissions of the whole path, with NX a reserved
bit until EFER.NXE is set. The TLB caches a translation at any time and is
never seen to drop one by itself, which is the worst case.

Three histories say what ought to be: `asked`, what the last successful call
said of each page; `tables`, the frames taken for tables; `held`, those taken
for the heap. The machine (memory map, sections of the
kernel, framebuffer, devices, frames that are free) is an input, constrained by
`MachineOK` to what Limine promises: usable entries are whole pages and share none
with another entry, free frames are in them, and the kernel's sections, which the
linker aligns, share no page with anything. Every other entry may begin or end
inside a page, overlap others and hold the framebuffer or a device, and
`vmm_map_hhdm` maps them all.

`vmm_map_page` does not test PS on its way down, so a page of an entry that overlaps
a large page of another, or a device's page in a large page, is written as an entry
into the first frame of that large page. `Overlaid` names those frames.
`TablesExact` says that no others are written but tables, and that none of them is
ever a table, free or an owner's: it is reserved memory, in a machine that keeps
Limine's promises. The page still leads where it was asked to, since the large page
does; but `PCD` is lost. So `WalkExact` compares the walk with `Granted`, which is
what was asked except that a device in a large page stays cached, although
`vmm_map_page` reports success; `Reaches` in `SpaceComplete` allows for either.
Where no two parts overlap (`Apart`), `TablesExact` says more: every frame taken for
a table is in the tree. Where they do, a large page that is mapped over the table of
a smaller entry takes that table out of the tree for good.

### Heap

A call is one step: only kmain allocates. Addresses, headers and blocks are kept;
memory is who wrote it last, so that an overlap is visible as another's mark.
`frames` is how many pages the allocator has, which others take and return;
mapping may fail after taking pages for tables. The free list is a sequence in
list order, since `kmalloc` takes the first fit.

### Sched

A thread's context is a stack of frames, and the processor executes one context.
A frame holds where it is, `schedule()`'s two locals, the stores a list
operation has yet to make, and whether it returns by `iret`. List operations
make one store per step, in the order of `list.h`, so a tick may fall between
any two stores, and between the halves of `schedule()`. The switch
saves the context in `old_thread->rsp` and loads the next thread's. The
interrupt flag is not in the context: it is restored by `iret` only, so a thread
that runs for the first time inherits it from whoever switched to it. This one
fact explains most of what the runs show.

`next` and `prev` are functions over nodes; following or storing through `NULL`
is the page fault that panics the kernel, after which nothing is a step. Fresh
heap memory is an arbitrary member of `Garbage`: `thread_create` does not set
`time_slice`. Workers have one of four programs: they return, sleep for ever,
sleep and return, or spin. kmain creates, starts (also again, after they ended)
and destroys workers whenever it runs. Two constants fence off the two defects
that the violation runs show, so that the passing run can ask what holds
without them: `Overlap` says whether kmain may start a thread while one that
ends is still ready, `LateTick` whether a tick may be taken by a thread that is
already terminated.

The comment at `kernel/main.c:23` says of the worker kmain starts: "If i remove the
sleep then for some reason the keyboard input after the thread is finished is not
working". A worker that ends without sleeping is one of the programs of run `sched`,
and `KmainInterruptible` holds of it: such a thread does end with interrupts disabled
and switches to kmain so, but kmain was left in the middle of `isr_common_stub`,
whose `iretq` restores the flag; the LAPIC was acknowledged before the switch
(`Acknowledged`), and an edge of the keyboard's line that came meanwhile is kept by the
LAPIC. The sources at this commit give no cause for what the comment reports. It is
the worker with the sleep that is exposed to a defect (run `sched_fault`).

### Interrupts, Timer, Ps2 and Boot

kmain is a sequence of named steps (`kernel_init`, then its first sleep and its first
thread, up to that thread's end), and `Needs` says for each what must be there before it: `NothingEarly` is
checked for kmain and for every step of every handler. The three components bring the
steps that take time. Calibration reads the PM timer after any of `Gaps`; `passed` is
the true time, against which what the code counts is compared. The count, the difference
and the product that follow are computed in words of `Width` values, and wrap; `TooLate`
names the readings of the LAPIC's counter that come after it has stopped, or that make
the product wrap. `ps2_keyboard_enable` polls, and the controller takes what is written
when it likes, so any wait may run out; the code goes on, and `timedout` remembers. An
interrupt is requested, taken when the flag allows it and nothing of its class is in
service, and in service until the EOI; a handler is a sequence of steps on the stack it
interrupted, and a tick's `timer_tick_event` may leave that stack for another in the
middle. A handler is assumed to be shorter than a timer period (the guard of `Tick`).

Two things seen while modelling, which hold as the code stands and would not
after small changes: had the I/O APIC's entry been unmasked after
`ps2_keyboard_enable`, the edge of a byte that came meanwhile would be lost and
the keyboard dead, since the interrupt line stays high; and `acpi_pm_delay_ms`
counts one tick too few at every wrap of the counter and a round too few when a
reading is late, so that the delay is longer than asked, never shorter. What becomes of
a longer delay is another matter: `ticks_per_ms * 1000` is a product of 32 bits, and a
count of more than 4294967 ticks a millisecond (0.69 s late, at 62.5 MHz) wraps. The
period is then too short, which `PeriodNotShort` excludes by `TooLate`; that it is never
zero, which would stop the timer, holds even so, since a zero gives the fallback.

### Keyboard

The interrupt handler is one step, since it runs with interrupts disabled.
`keyboard_getchar` makes one step per instruction that matters. The instruction after
`sti` cannot be interrupted, but it is the `ret` of `enable_interrupts`, which is
compiled in a file of its own, so a reader that polls may be interrupted before its next
`cli`. Any other reader may get the processor while interrupts are enabled, which is
what `Sched` does at its most generous. The two lists are sequences; unlinking takes a
node off whatever list it is on. Characters are a key and a case. The user holds up to
`Fingers` keys and releases them, the last key repeats, and the wire holds what the
interrupt has not fetched.

### Screen and Terminal

kmain and thread1 print through one cursor. A step is what happens between two
accesses of the cursor or the buffers, and what was loaded may be taken from a
register or loaded again (`Loads`): the code is built with and without
optimisation, and neither variable is volatile. `flush`, `clear` and
`screen_init` are one step each: they are made before there is a second thread.
A panic may come at any step, prints into the video memory and
draws the face there (`draw_sad_face`), halfway between the cursor and the foot of the
screen. On a small screen, or after a long message, the face is drawn over text, and
`PanicReadable` says precisely this: when the kernel halts the screen shows the message,
wrapped and scrolled as a terminal would, with the face over it, and nothing else.

A glyph is abstracted to a row of pixels that bear its character and colour, in
the upper row of its cell or, for a letter that descends, the lower; that is
enough to tell a blank, an overprint, a wrong place, a wrong colour and a lost
line apart. Scrolling moves pixel by pixel, with `memmove`'s overlap as `KMem`
shows it, in the back buffer. `Terminal` says the same for whole cells and whole
formats, reading each argument once: a cell keeps what was typed on it since it
was last blank, because ink is not wiped out by other ink.

Compared are the rows from the top margin down: above it a scroll leaves the foot of the
line that went. Formats are shorter than the buffer of a segment, and leave out two the
code parses wrongly and nobody uses (`%%C`, and a `%` at the end of a segment). `%u` is
printed as if it were signed, which is what `Signed` says. That a text which does not
fit is cut off where the buffer ends is part of `TerminalShown`: of each segment
`Terminal` shows `Limit` characters. Heights that leave no slack below the last line are
excluded by `ScreenAssumption`: blit32 would not draw that line. Before the pitch is
known a panic prints nothing.

### KMem

The four functions at their real sizes. Each copy is the sequence of its byte
and word moves in program order, run over a memory in which every byte is
different. The loop of four words is four single words in the order of its
body, except in `memcmp`, where what it leaves in its counters matters and is
kept. TLC evaluates every length and alignment in range.

## Runs

| Run | What it asks | Bounds, and why they are enough |
|---|---|---|
| `pmm` | types, conservation of pages, bitmap bounds, refinement | Memories of 10 to 13 pages in words of 4, so three words or more: hints in the first, a middle and the last word, runs that straddle words, a last word that is not full. Five maps: a kernel that ends inside a page, reclaimable memory, holes, a first entry too small for the bitmap, and three maps `pmm_init` refuses. Runs of up to 3. |
| `vmm` | types, ownership of the tables, every translation, the TLB, the address space before CR3 is loaded | Tables of 4 entries, so that a page table is filled and left, a large page covers 4 pages, and ranges begin and end inside one. Four machines: reserved memory that ends inside a page, a framebuffer in the map or beside it, reserved entries that overlap a large page mapped before or after them, devices in a table of their own, in a large page and in a page of an entry. Each with every number of free frames from too few (for the first, too few for the first table) to enough for all: every allocation fails once. 5,383 states. |
| `heap` | types and alignment, tiling, the free list, contents, mapping, refinement | Three pages of 8 bytes with headers of 2: blocks of 6 and, from two pages, 14, which are split; sizes 0, 3 and 7 round to 0, 4 and 8; at most two frames at a time, so that expansions fail in the middle. |
| `sched` | types, faults, the ring, stacks, kmain's interrupts, refinement, starvation | Three workers: a ring of up to four threads has a first, middle and last position for each insertion and removal. Slices of 2 ticks, first slices 0 and 3. One ending thread at a time, and no tick in its last `schedule()`. |
| `sched_lost` | violation: `Circular` | Two workers that end, overlapping. |
| `sched_fault` | violation: `NoFault` | One worker that sleeps and ends. |
| `sched_spin` | violation: `KmainKeepsRunning` | One worker that spins. |
| `boot` | types, order of initialisation, acknowledgement, calibration, scancodes, kmain's first sleep | A PM timer of 4 values read after gaps of 1, 3 or 5, so that no wrap, one wrap and an exact lap fall between two readings; a delay of 6; counts and products that wrap at 12,000, which the fast LAPIC timer passes when read some four delays late; waits that give up after 2 polls; machines with and without a PM timer; a thread that runs to its end; a user who types up to 2 keys at any moment. 189,514 states. |
| `keyboard` | types, the pool, case and order, one character per press, refinement, every character read, the keyboard served | A pool of 2 is full, empty and in between; two scancodes in flight, so the driver lags behind the user; a modifier without a character, a key that repeats, two readers; two keys held at a time, so that a key is typed under a shift, and a key pressed while another repeats. One shift key: one flag cannot stand for two. 469,216 states. |
| `screen` | bounds, the picture of a terminal, the panic's message | 3 columns by 3 lines: a line that fills and wraps, and a scroll that keeps and loses lines. Segments of 7 characters, so that a conversion falls on a segment's end and another segment is cut short. Four scenarios: every control character, every conversion, two printers that interleave at each access of the cursor, and a panic at each step, with a message that fits and one that wraps, scrolls and lies under the face. 348,418 states. |
| `kmem` | the four functions against the C definitions | Lengths 0 to 60 (all the small cases, the loop of four words twice) at all alignments of the destination; moves between disjoint operands; comparisons below 8 bytes. |
| `kmem_c` | violation: `MandatedByC` | `memmove` with operands that overlap in either direction up to length 20; `memcmp` at 8, 12 and 33 with one difference. |

Runs that expect a violation state what the repository says and show that the
code does otherwise:

- **A thread may be lost** (`sched_lost`). `thread_start` reads the queue's last
  node, and a tick lets that thread run to its end before the stores are made.
- **A thread that slept may take the kernel down when it ends** (`sched_fault`).
  `sleep_ms` leaves interrupts enabled, so a tick can fall between `list_del`
  and the switch in the last `schedule()`; the second `schedule()` deletes the
  node again. kmain's own worker is such a thread. `sched` shows that nothing
  else faults: with `LateTick` false, `NoFault` holds. The same ticks, when they fall after
  `current_thread` is changed, save a stack in the wrong descriptor (`sched.c:56`):
  `OwnStacks` does not hold without the fence either, and says nothing of them within it.
- **Preemption does not reach a thread that never sleeps** (`sched_spin`). It
  starts with interrupts disabled.
- **memmove and memcmp are not the C standard's** (`kmem_c`). Overlapping moves
  upwards read bytes already written, and so do the downward ones, which go to
  `memcpy`; comparisons of eight bytes or more may miss a difference. TLC stops
  at `memmove`; with `Moves <- NoCalls` the trace is of `memcmp`.

One more was found with `Screen` and has no run: two printers can leave
`cursor_y` one line below the screen for good. A tick between the load and the
store of `cursor_y` in `new_line`, while the other printer is in its scroll
(`drivers/screen/screen.c:117`), adds a line to a cursor that is already on the
last one; from then on nothing printed is visible until the screen is cleared.
`InBounds` holds all the same, since blit32 tests the height: that is what the
run shows and `ScreenProofs` proves, and `TerminalShown` is stated for calls that
do not overlap.

## Fairness

Three specifications need it.

- `Sched!FairSpec`: an interrupt handler runs to its end and a due tick is taken
  (weak fairness: only a handler disables interrupts for its own duration, and
  the timer is periodic), and a thread that gets the processor again and again
  makes progress between ticks (strong fairness: a tick comes once a
  millisecond, which is many instructions). No fairness is given to kmain's
  choices.
- `Keyboard!FairSpec`: the processor goes on executing (weak), and a keyboard
  interrupt that is pending and recognisable again and again is taken (strong:
  readers that poll disable interrupts between the instants it can be taken, and
  the LAPIC keeps the request). Nothing is assumed of the user, nor that the
  scheduler is fair to readers.
- `Boot!FairSpec`: the processor executes (weak), an instruction of kmain that
  ticks interrupt again and again gets its turn (strong: a handler is shorter
  than a period), the controller takes in the end what is written to it, and the
  timer ticks while it is unmasked (weak). Nothing is assumed of the user, nor
  of a wait being long enough: the polls may run out.

## Proofs

TLC checks the instances above; TLAPS proves the following for every value of
the constants, every sequence of operations and, where there are several actors,
any number of them.

### PmmProofs

- `PmmTypeOK`, `PmmBitmapFits`, `PmmConserved`: the three invariants of run `pmm`;
- `PmmImplements`: `Pmm` implements `PageAllocator`, if no grantable entry holds
  page 0. Without that assumption it does not: granting page 0 returns NULL.
  `Conserved` needs no such assumption, and says that nothing else is lost.

The inductive invariant is `IInv`: the three invariants, with `MapOK` (what
`pmm_init` computed stays in the relation to the memory map it was computed in:
the kernel's and the bitmap's bounds, the last page counted) and `Fresh` (before
initialisation nothing is held and every variable of the allocator is zero).
`Conserved` is not inductive alone: that a reclaim does not free the kernel's
pages follows from the entries being disjoint, which needs to know which entry
the kernel and the bitmap lie in. The proof goes from the arithmetic of
`ALIGN_UP` and `ALIGN_DOWN` (`PageBounds`) over the ownership of pages
(`OneOwner`) and the room in the bitmap (`BitmapSizeFits`, `SiteFits`) to one
lemma per operation. The refinement adds that a refused request has searched
everything: a run of `2n - 1` free pages has a run of `n` on one side of the
hint. Assumptions: `SizesAssumption` (sizes are positive, words are whole
bytes), `MemMapsAssumption` (the boot protocol), `CallsAssumption` (one reclaim).

### VmmProofs

- `VmmTypeOK`, `VmmTablesExact`, `VmmWalkExact`, `VmmTlbFresh`, `VmmSpaceComplete`:
  the five invariants of run `vmm`, for tables of any size, any number of free
  frames and any machine that satisfies `MachineOK`.

The heart of the inductive invariant `Inv` is `Good`: each table has a level and a
number such that the entry at index `i` of table number `x` leads to the pages
whose prefix of that level is `x * E + i` (`Slot`, `Prefix`), no two tables have
both in common, each but the root is named by an entry, and each entry is what its
place demands (`EntryGood`): absent if nothing was asked of its pages, naming the
one table below it, or, at the last level, saying what was asked. A set `big` of
blocks says where a large page may stand. Neither `TablesExact` nor `WalkExact` is
inductive alone: a walk is right because tables share nothing, and that they share
nothing follows from where each was made.

`Stands` is `Good` of what was asked as the large pages tell it (`Told`, which is
`Granted`), for some `big` and some tables `lost`. `Done` says which blocks are `big`:
blocks that a part of the space holds whole in aligned frames (`Large`), and each
of them now or when its range comes (`Pending`). Where no parts overlap `big` is all of
`Large` and nothing is lost; where they do, a large page may be mapped over a table,
which leaves the tree with it (`Pruned`). Around `Stands` are `Todo` and `Covered`
(each page of each part of the address space is mapped as its part says, or as a
device's, or still in a range that `vmm_init` has to map, and a range begins inside
a large page only where its part has none), `Owned` (free frames, tables and the heap's
frames are disjoint, and all were free at the start), `Untouched` (no frame but a table
or an overlaid one has been written), `Blank` (before `vmm_init`) and `Cached` (the TLB).

The lemmas go from the arithmetic of indices (`SlotFacts`, `IndexFacts`) over one
entry written (`LeafWritten`, `LargeWritten`) and one table made (`TableAdded`) to a
walk that makes the tables it misses and may run out of frames on any level
(`StepDown`, `Down`'s outcomes in `TakesFacts`), then to `MapPageKeeps`,
`MapLargePageKeeps` and `MapPageOver`, the walk that leaves the tree through a large
page: what it writes is the frame the large page starts at, which by `OverlaidReserved`
is no table and never becomes one. `Walk` and `TreeIsExact` read the two properties off
the tree. `RoundFacts`, `RoundOnward` and `RoundOver` are about `vmm_map_range`: that a
round takes a large page only where there may be one, leaves every large page that is to
come as it was, and asks of a page in another part's large page what that part has asked.
`DeviceMapped` has the three places of a device. Then there is one lemma per action.
Assumption: `VmmAssumption` (`MachineOK` for every machine, at least two entries to a
table).

### HeapProofs

- `HeapTypeOK`, `HeapTiled`, `HeapFreeListExact`, `HeapIntact`, `HeapBacked`: the
  five invariants of run `heap`;
- `HeapImplements`: the heap implements `Regions`.

The inductive invariant is `Inv == Lawful(Heap, live)`: the heap, as one value,
is `Good` (the blocks tile it, sizes and addresses are multiples of `ALIGN`, the
list holds the free blocks once each, all below the break is mapped, headers are
intact), and every block in use has an `Owner` that finds its bytes as it left
them. None of the five is inductive alone: that a split leaves a whole block
needs tiling, that it is aligned needs the sizes to be, that a freed block goes
on the list once needs the list to be exact, and that nobody's bytes change needs
all of them. The calls are functions on heaps, so the lemmas are about values:
`SplitHanded` (a block cut or kept), `TakeGiven`, `GrownGood` and `FailedGood`
(the two ends of an expansion), `KmallocAnswers`, `KfreeFrees`, `InsideRewrites`
(an owner writes in its own block), and `StayLawful` and `MovedLawful` (the two
ways to reallocate). Then there is one lemma per action, which also says what the
step does to `live`; from that and `Separated` follows the refinement.
Assumption: `HeapAssumption` (pages and headers are multiples of `ALIGN`). That
the blocks' sizes do not wrap is the bound `HeapTop`.

### SchedProofs

- `SchedTypeOK`, `SchedNoFault`, `SchedQueueExact` and `SchedKmainInterruptible`:
  invariants of run `sched`, for any number of workers with any programs. (That stacks
  are not mixed up, within the fence, is the lemma `InvOwnStacks` on the way; it is no
  result, since the ticks that could mix them are those the fence keeps out.)

All are of the form `Fenced /\ Spec => []...`, where `Fenced` is `~Overlap /\
~LateTick`: without either half TLC's counterexamples in `sched_lost` and
`sched_fault` stand. A ring is a set of nodes on which the links are each other's
inverse and of which no proper nonempty part is closed under `next`
(`IsRing`): this needs no recursion, and `RingInsert` and `RingDelete` show that
`list_add_tail` and `list_del` make one ring from another. The inductive
invariant `Inv` says of every state which ring there is and who may be where:

- `Live`: a thread of the ring runs, and the ring is whole (`Whole`) or kmain,
  running or interrupted, has some of the four stores of a `list_add_tail` left
  (`AddingTo`). Then the links forward are still those of the ring without the
  new thread, which is why the threads that run in the meantime, and switch among
  themselves, go round correctly;
- `Dying`: a thread is in its last `schedule()`, before, within or after
  `list_del` (`Before`, `Deleting`, `After`), with no interrupt's frame on its
  stack, and kmain's thread follows it.

`Chained` is what makes these inductive: kmain's thread is first in the ring, and
a thread that is to end is last, since by the fence nothing is appended behind
it. So the heir of a thread that ends is kmain, which is what bounds the stacks:
kmain's can hold a second waiting frame of a tick, when it was resumed with
interrupts enabled by a thread that ended after it slept, and only while no such
thread is left (`OffCpu`, `Nesting`), hence no third. `KmainInterruptible`
follows from `Nesting`, which bounds `intr` by the frames above kmain's first.
There is one lemma per action and phase; `NextKeeps` combines them, and
`StutterKeeps` does the steps that change nothing. Assumption:
`SchedAssumption` (the nodes are distinct, a slice is positive; the workers are
finitely many, as memory is finite, which only the next theorem needs).

The fifth theorem of the module is `SchedImplements`: within the same fence, `Sched`
implements `RoundRobin`, for any number of workers with any programs.
The abstract state is the ring as a sequence of threads, which `Sched` obtains by a
recursive walk (`RingOf`), and what a recursion computes cannot be proved by induction
here. It need not be. `Listed` says that a sequence is the ring of the links: its first
element follows the head of the queue, each next one the one before, and the last leads
back. `RingIs` shows that the walk then meets its elements in order: the positions at
which it agrees with the sequence are closed under one more hop, and by `IsRing` no
proper part of a ring is closed. For the same reason one node is not on two rings
(`SameRing`), so there is one such sequence. `Appended` and `Shortened` say what the
stores of `list_add_tail` and `list_del` make of it. That the walk visits distinct
nodes as often as there are nodes is where the workers must be finitely many.

`Ordered` is the invariant that carries the sequence along, beside `Inv`; the mapping
follows the links, so the step of the code that counts is the one store that changes the
walk: the last store of `list_add_tail` is `Join`, the second store of `list_del` is
`Leave`, the switch of a tick or of `sleep_ms` is `Yield`, that of a thread that ends is
`HandOver`, and every other step of the code stutters, however it falls between those
(`StepSimulates`, with a lemma for each case). For a `Yield` one must know that the
thread a switch has chosen still follows the current one when the switch is made;
`Switching` says so.

### KeyboardProofs

- `KeyboardTypeOK`, `KeyboardPoolExact`: for any size of the pool and any readers;
- `KeyboardImplements`: the driver and its readers implement `CharQueue`;
- `KeyboardOncePerPress`: each press types once;
- `KeyboardMeant`: characters have the case the user meant, with one shift key and a
  caps lock that does not repeat. Both are hypotheses of the theorem, since the code
  forgets a shift that is still held when another is released, and takes a repeated
  make code of caps lock for another press.

`PoolInv` strengthens `PoolExact` with `Critical` (a reader that has tested the list
holds the interrupt flag down), `Selected` and `Counted` (what it read of the list is
still there) and `InHand` (the event it unlinked is on no list and in no other hand).
`PressInv` is about the wire: `FollowsKey` says that what the driver believes of a key,
once it has taken all that is on its way, is what the user's finger does. `CaseInv` adds
what the driver will believe of shift and caps lock at each place of the wire
(`Foreseen`): it lags the keys, so that `Meant` alone says nothing of a code that is
still to come. Assumption: `KeyboardAssumption` (a pool, scancodes of keys).

### BootProofs

- `BootPeriodNotShort`: the timer is never set to zero, and its period is not short
  unless the count was read too late for its 32 bits; `BootDelayNotShort` for the delay
  it rests on;
- `BootNothingEarly`, `BootAcknowledged`, `BootTypeOK`: the other invariants of `boot`.

`Calibrating` relates what `acpi_pm_delay_ms` has counted to what has passed, at each of
its program points; `CountNotShort` and `SinceNotMore` are its arithmetic: a reading
modulo the range of the counter is never more than the truth. `CountRead` is the
arithmetic of the words of `Width` values: short of `TooLate` no count stops and no
product wraps, and a product that does wrap still leaves a number of ticks, or zero and
the fallback.

`BootInv` is about the order. `Position` says where `kmain` stands: `todo` is the end
of its program, and the steps before are established. `Needed` goes through the
program once, step by step. `Ready` says that the handlers are registered before
interrupts are enabled, and that everything only an interrupt leads to comes after.
`Handled` says what each stack has left of a handler: one that is not in use has
`iretq` at most, what is in service has a handler before its EOI, and interrupts are
disabled in a handler. `Acknowledged` alone is not inductive: it says nothing of a
handler that is left for another stack. `Ps2Inv` has the places of
`ps2_keyboard_enable` at which the controller may still be asked for the command
byte. Assumptions: `TimerAssumption`, `Ps2Assumption`, `BootAssumption`.

### KMemProofs

- `KMemMandatedByC`: the four routines do what C mandates, for memory of any size and
  every call within `Fenced`: the operands of a `memmove` are the same or apart, and
  `memcmp` has less than eight bytes to compare, or no difference to find, or one
  operand. What lies outside is what run `kmem_c` shows to go wrong.

`Induct` is where the inductions rest: TLAPS's own induction theorems take an operator,
which the provers at hand cannot instantiate, but a set can be passed. A set that has 0
and with each number the next has all of `Nat`: the numbers up to one that is missing
would be shifted down by one into fewer. `Least` follows, for the first difference
`memcmp` chooses. `RunTakes` says what a sequence of moves comes to between operands that
are apart: every byte of the union of their targets, from where a copy takes it, in
whatever order and however often. What remains is that the targets are the region:
`EndsCover` for the bytes from both ends, `UpwardsTake` for the alignment and the words,
and `memcpyTakes` for both. `Stored` is the same for `memset`. `NoneDiffers` is the
loop of `memcmp` over equal words, `FirstDecides` its last bytes. Assumption:
`CallsAssumption` (calls stay in memory, `memcpy`'s operands are apart).

### ScreenProofs

- `ScreenInBounds`: whatever two printers make of the cursor between them, no store
  leaves its buffer.

`InBounds` bounds the cursor by one cell left of the margin and says nothing of what
the printers hold in registers, which is where the next cursor comes from. `ScreenInv`
adds it. `Floor` is the column the cursor does not pass: the margin until the screen has
been set up, when only kmain runs, and one cell less from then on. `FrameOK` says of
each context that a column it has loaded is not left of the floor, a line is one of
`LineTops`, whole lines above or below the first, and who goes back a cell has seen one
right of the margin. `CursorInv` is why a backspace of one printer does not undercut
that of the other: the cursor is as many cells right of the floor as there are contexts
about to take one away. A printer that moves the cursor meanwhile leaves it at the
margin or right of it (`Right`); one that goes back started a cell further (`BackCell`).
A line above the first is negative, which blit32 does not draw, and one below the last
it does not draw either (`LineFacts`, `GlyphInBounds`); a column left of the margin
is at most a row to the left, and there is a row above (`InRow`). The face is drawn
pixel by pixel through the test of `screen_put_pixel` (`FaceDrawn`). Assumptions:
`ScreenAssumption` and `ScenarioAssumption`, which says what a call is.

TLC evaluates every assumption on the constants of its run.

### Only model-checked

- `TerminalShown` and `PanicReadable`: the text of a format is a fold, a numeral a
  recursive function, and a proof would also have to relate every pixel to the
  terminal's text through each scroll. That is long work rather than out of reach,
  and it has not been attempted.
- Every liveness property: TLAPS proves nothing under fairness, and no `ENABLED`.

No module uses `RECURSIVE` operators; recursion is by functions and folds.

## Not modelled

- A thread's descriptor and stack, which nobody frees; a destroyed thread that
  is still queued; allocation from more than one thread. No caller does the last
  two; they are listed as hazards.
- Sizes near 2^64 in the heap, and how fragmented it becomes: free blocks are
  never joined, which is a matter of how much is left, not of what is right.
- A second reclaim of the bootloader's memory, and pointers of the boot protocol
  used after the first.
- More than one processor: the kernel starts one.
- GDT and TSS, the serial port and the ACPI tables' walk appear only as steps of
  `Boot`, with what they need and what they give: they are written or read once,
  in order.
- `strcmp`, `strcpy` and `strncpy`, which nobody calls; the wording of a panic's
  register dump; `screen_set_cursor`, which nobody calls; the pixels of the font.
- Scancodes with the prefix E0: the driver drops the prefix and takes the second
  byte for an ordinary key.
- Vendored headers, the build and the linker script: no behaviour of their own.

## Plan

What is left, the most valuable first:

1. `Memory`: `Heap` over `Vmm` over `PageAllocator`, with the pages and tables a
   partial failure leaves behind; allocation from threads that a tick interrupts.
2. A run for the cursor that two printers lose, with a property that says where a
   cursor may be between two calls.
