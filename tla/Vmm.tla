---- MODULE Vmm ----
(***************************************************************************)
(* The virtual memory manager, kernel/memory/vmm.c, and its callers: the   *)
(* address space vmm_init builds in the frames of a given machine, the     *)
(* switch to it, and the pages mapped in it afterwards for the LAPIC       *)
(* (lapic.c), the I/O APIC (ioapic.c) and the heap.                        *)
(*                                                                         *)
(* Memory is its frames, and a frame is E entries, whether it serves as a  *)
(* table or not: a walk that leaves the tables reads and writes what is    *)
(* there. Addresses are in bytes where the code rounds them, else in pages.*)
(***************************************************************************)
EXTENDS Integers, Sequences, FiniteSets, Functions

CONSTANTS
  E,                       \* entries of a table, 4 KiB pages of a large one (512)
  PageBytes,               \* PAGE_SIZE
  Frames,                  \* physical memory and device registers: 0 .. n
  Hhdm,                    \* get_hhdm_offset(), in pages
  Machines,                \* what the bootloader may report, see MachineOK
  HeapPages,               \* virtual pages expand_heap may map
  Junk,                    \* an entry of memory nobody has cleared
  NULL

Index == 0 .. E - 1
Pages == 0 .. E * E * E * E - 1

\* PAGE_FRAME_MASK, and with 0xFFF added first.
PageDown(a) == a \div PageBytes
PageUp(a) == (a + PageBytes - 1) \div PageBytes
P2V(f) == f + Hhdm
V2P(v) == v - Hhdm

PT_INDEX(v) == v % E
PD_INDEX(v) == (v \div E) % E
PDPT_INDEX(v) == (v \div (E * E)) % E
PML4_INDEX(v) == (v \div (E * E * E)) % E

PagesOf(a, length) == PageDown(a) .. PageUp(a + length) - 1

\* A part of the address space vmm_init makes: the pages from first up to end,
\* each in the frame that is shift away from it.
Part(first, end, shift, flags) ==
  [first |-> first, end |-> end, shift |-> shift, flags |-> flags]
PagesIn(p) == p.first .. p.end - 1

MemoryPart(e) ==
  Part(P2V(PageDown(e.base)), P2V(PageUp(e.base + e.length)), -Hhdm, {"W"})
SectionPart(m, s) ==
  Part(PageDown(s.start), PageUp(s.end), m.physical_base - m.virtual_base, s.flags)
FramebufferPart(m) ==
  Part(PageDown(m.fb.address), PageUp(m.fb.address + m.fb.size), -Hhdm, {"W"})
Parts(m) ==
  {MemoryPart(e) : e \in Range(m.memmap)}
    \cup {SectionPart(m, s) : s \in Range(m.sections)}
    \cup {FramebufferPart(m)}

Reports == [memmap : Seq([base : Nat, length : Nat, usable : BOOLEAN]),
            sections : Seq([start : Nat, end : Nat, flags : SUBSET {"W", "NX"}]),
            physical_base : Nat, virtual_base : Nat,
            fb : [address : Nat, size : Nat],
            lapic : Frames, ioapic : Frames, free : SUBSET Frames]

\* The entries Limine promises to align to pages and to keep apart from every
\* other, and the parts that for this reason share no page with another: theirs,
\* and the kernel's sections, which the linker aligns, above the direct map.
UsableParts(m) == {MemoryPart(e) : e \in {e \in Range(m.memmap) : e.usable}}
SectionParts(m) == {SectionPart(m, s) : s \in Range(m.sections)}
Exclusive(m) == UsableParts(m) \cup SectionParts(m)
Apart(m) == \A p, q \in Parts(m) : p = q \/ PagesIn(p) \cap PagesIn(q) = {}
DevicePages(m) == {P2V(m.lapic), P2V(m.ioapic)}

\* The bootloader's report. Any other entry, and the framebuffer, may begin and
\* end inside a page, and overlap; a device may be in them. What is free is
\* usable, page 0 apart, and the heap begins after the kernel.
MachineOK(m) ==
  /\ m \in Reports
  /\ \A e \in Range(m.memmap) :
       e.usable => e.base % PageBytes = 0 /\ e.length % PageBytes = 0
  /\ \A p \in Exclusive(m) : \A q \in Parts(m) \ {p} : PagesIn(p) \cap PagesIn(q) = {}
  /\ m.free \subseteq {V2P(v) : v \in UNION {PagesIn(p) : p \in UsableParts(m)}} \ {0}
  /\ \A p \in Parts(m) : \A v \in PagesIn(p) :
       v \in Pages /\ v + p.shift \in Frames /\ v \notin HeapPages
  /\ \A v \in DevicePages(m) : v \in Pages /\ \A p \in Exclusive(m) : v \notin PagesIn(p)

Entries == [frame : Frames, flags : SUBSET {"P", "W", "U", "NX", "CD", "PS"}]
EntryOK(e) == e.frame \in Frames /\ e.flags \subseteq {"P", "W", "U", "NX", "CD", "PS"}

ASSUME VmmAssumption ==
  /\ E \in Nat \ {0, 1} /\ PageBytes \in Nat \ {0} /\ Hhdm \in Nat
  /\ Frames \subseteq Nat /\ IsFiniteSet(Frames) /\ 0 \in Frames
  /\ NULL \notin Frames \cup Entries /\ EntryOK(Junk)
  /\ HeapPages \subseteq Pages
  /\ \A m \in Machines : MachineOK(m)

VARIABLES
  machine,                 \* the bootloader's report
  mem,                     \* the entries of every frame
  free,                    \* the frames pmm_alloc_page can still give
  tables,                  \* history: the frames taken for page tables
  held,                    \* history: the frames taken for anything else
  pml4, cr3,               \* kernel_pml4 and CR3 (NULL: the bootloader's)
  nxe,                     \* EFER.NXE
  todo,                    \* the ranges vmm_init has yet to map, the first
                           \*   of them in progress
  devices,                 \* the device pages yet to be mapped
  tlb,                     \* translations the processor has cached
  asked,                   \* history: what the last successful call said of
                           \*   each virtual page
  panic

memory == <<mem, free, tables>>
vars == <<machine, memory, held, pml4, cr3, nxe, todo, devices, tlb, asked, panic>>

Entry(f, flags) == [frame |-> f, flags |-> flags]
Empty == Entry(0, {})
Present(e) == "P" \in e.flags

Init ==
  /\ machine \in Machines
  /\ mem = [f \in Frames |-> [i \in Index |-> Junk]]
  /\ free = machine.free
  /\ tables = {} /\ held = {}
  /\ pml4 = NULL /\ cr3 = NULL /\ nxe = FALSE
  /\ todo = <<>> /\ devices = <<>>
  /\ tlb = <<>> /\ asked = [v \in Pages |-> NULL]
  /\ panic = FALSE

(***************************************************************************)
(* A walk. It carries memory and where it has got to: a table, or NULL     *)
(* when pmm_alloc_page had no page for it.                                 *)
(***************************************************************************)
From(f) == [mem |-> mem, free |-> f, tables |-> tables, at |-> pml4]

\* pmm_alloc_page, as Pmm has it without the hint: the lowest free page.
Lowest == CHOOSE f \in free : \A g \in free : f <= g

\* Mutant: a new table is not cleared.
NewTableDirty(w, i, flags) ==
  LET f == CHOOSE f \in w.free : \A g \in w.free : f <= g IN
  IF w.free = {} THEN [w EXCEPT !.at = NULL]
  ELSE [w EXCEPT !.free = @ \ {f}, !.tables = @ \cup {f}, !.at = f,
                 !.mem[w.at][i] = Entry(f, flags)]

NewTable(w, i, flags) ==
  LET f == CHOOSE f \in w.free : \A g \in w.free : f <= g IN
  IF w.free = {} THEN [w EXCEPT !.at = NULL]
  ELSE [w EXCEPT !.free = @ \ {f}, !.tables = @ \cup {f}, !.at = f,
                 !.mem[f] = [j \in Index |-> Empty],
                 !.mem[w.at][i] = Entry(f, flags)]

\* One level down: whatever frame a present entry names is taken for a table.
Down(w, i, flags) ==
  IF w.at = NULL THEN w
  ELSE LET e == w.mem[w.at][i] IN
       IF Present(e) THEN [w EXCEPT !.at = e.frame] ELSE NewTable(w, i, flags)

Write(w, i, e) == IF w.at = NULL THEN w ELSE [w EXCEPT !.mem[w.at][i] = e]

\* vmm_map_page up to the flush.
MapPage(w, v, f, flags) ==
  LET table_flags == {"P", "W", "U"}
      pdpt == Down(w, PML4_INDEX(v), table_flags)
      pd == Down(pdpt, PDPT_INDEX(v), table_flags)
      pt == Down(pd, PD_INDEX(v), table_flags)
  IN  Write(pt, PT_INDEX(v), Entry(f, flags \cup {"P"}))

\* The body of vmm_map_range for a large page.
MapLargePage(w, v, f, flags) ==
  LET table_flags == {"P", "W"} \cup (flags \cap {"U"})
      pdpt == Down(w, PML4_INDEX(v), table_flags)
      pd == Down(pdpt, PDPT_INDEX(v), table_flags)
  IN  Write(pd, PD_INDEX(v), Entry(f, flags \cup {"P", "PS"}))

Becomes(w) == mem' = w.mem /\ free' = w.free /\ tables' = w.tables

\* What the caller asked for, in the terms of a translation.
Asked(f, flags) == [frame |-> f, flags |-> flags \ {"P"}]

(***************************************************************************)
(* What the processor makes of it: the frame, and what may be done there.  *)
(***************************************************************************)
Translate(v) ==
  LET e4 == mem[pml4][PML4_INDEX(v)]
      e3 == mem[e4.frame][PDPT_INDEX(v)]
      e2 == mem[e3.frame][PD_INDEX(v)]
      e1 == mem[e2.frame][PT_INDEX(v)]
      Through(path, f) ==
        IF \/ \E e \in path : ~Present(e)
           \/ ~nxe /\ \E e \in path : "NX" \in e.flags     \* a reserved bit
        THEN NULL
        ELSE [frame |-> f,
              flags |-> {x \in {"W", "U"} : \A e \in path : x \in e.flags}
                \cup {x \in {"NX"} : \E e \in path : x \in e.flags}
                \cup {x \in {"CD"} : \E e \in path : x \in e.flags}]
  IN  CASE ~Present(e4) -> NULL
        [] Present(e4) /\ ~Present(e3) -> NULL
        [] Present(e4) /\ Present(e3) /\ "PS" \in e2.flags ->
             Through({e4, e3, e2}, (e2.frame \div E) * E + PT_INDEX(v))
        [] OTHER -> IF Present(e2) THEN Through({e4, e3, e2, e1}, e1.frame) ELSE NULL

(***************************************************************************)
(* vmm_init                                                                *)
(***************************************************************************)
Extent(v, f, length, flags) == [virt |-> v, phys |-> f, length |-> length, flags |-> flags]

hhdm_range(e) ==
  LET first == PageDown(e.base) IN
  Extent(P2V(first), first, PageUp(e.base + e.length) - first, {"P", "W"})

vmm_map_hhdm == [i \in DOMAIN machine.memmap |-> hhdm_range(machine.memmap[i])]

\* Mutants: virtual_base is forgotten; the end is rounded down.
vmm_map_section_absolute(s) ==
  Extent(PageDown(s.start), machine.physical_base + PageDown(s.start),
        PageUp(s.end) - PageDown(s.start), s.flags \cup {"P"})
vmm_map_section_cut(s) ==
  Extent(PageDown(s.start),
        machine.physical_base + PageDown(s.start) - machine.virtual_base,
        PageDown(s.end) - PageDown(s.start), s.flags \cup {"P"})

vmm_map_section(s) ==
  Extent(PageDown(s.start),
        machine.physical_base + PageDown(s.start) - machine.virtual_base,
        PageUp(s.end) - PageDown(s.start), s.flags \cup {"P"})

vmm_map_kernel == [i \in DOMAIN machine.sections |-> vmm_map_section(machine.sections[i])]

vmm_map_framebuffer ==
  LET first == PageDown(machine.fb.address) IN
  <<Extent(first, V2P(first), PageUp(machine.fb.address + machine.fb.size) - first, {"P", "W"})>>

enable_nxe == nxe' = TRUE

\* Everything but the switch: the top table and the order of the ranges.
vmm_init ==
  /\ pml4 = NULL /\ ~panic
  /\ enable_nxe
  /\ IF free = {} THEN panic' = TRUE /\ UNCHANGED <<memory, pml4, todo>>
     ELSE /\ pml4' = Lowest
          /\ free' = free \ {Lowest} /\ tables' = {Lowest}
          /\ mem' = [mem EXCEPT ![Lowest] = [i \in Index |-> Empty]]
          /\ todo' = vmm_map_hhdm \o vmm_map_kernel \o vmm_map_framebuffer
          /\ UNCHANGED panic
  /\ UNCHANGED <<machine, held, cr3, devices, tlb, asked>>

\* Mutant: a large page whose frames are not aligned.
fits_large_unaligned(r) == r.virt % E = 0 /\ r.length >= E

fits_large(r) == r.virt % E = 0 /\ r.phys % E = 0 /\ r.length >= E

Mapping == cr3 = NULL /\ ~panic /\ todo # <<>>

\* One round of the loop of vmm_map_range; all its callers panic when it fails.
vmm_map_range ==
  /\ Mapping /\ Head(todo).length > 0
  /\ LET r == Head(todo)
         n == IF fits_large(r) THEN E ELSE 1
         w == IF fits_large(r) THEN MapLargePage(From(free), r.virt, r.phys, r.flags)
                               ELSE MapPage(From(free), r.virt, r.phys, r.flags)
     IN /\ Becomes(w)
        /\ panic' = (w.at = NULL)
        /\ IF w.at = NULL THEN UNCHANGED <<todo, asked>>
           ELSE /\ todo' = <<Extent(r.virt + n, r.phys + n, r.length - n, r.flags)>> \o Tail(todo)
                /\ asked' = [v \in Pages |->
                     IF v \in r.virt .. r.virt + n - 1 /\ v < r.virt + r.length
                     THEN Asked(r.phys + v - r.virt, r.flags) ELSE asked[v]]
  /\ UNCHANGED <<machine, held, pml4, cr3, nxe, devices, tlb>>

range_done ==
  /\ Mapping /\ Head(todo).length <= 0
  /\ todo' = Tail(todo)
  /\ UNCHANGED <<machine, memory, held, pml4, cr3, nxe, devices, tlb, asked, panic>>

\* Loading CR3 empties the TLB. The LAPIC's page comes next, in idt_init, the
\* I/O APIC's when the keyboard is initialised.
write_cr3 ==
  /\ cr3 = NULL /\ pml4 # NULL /\ todo = <<>> /\ ~panic
  /\ cr3' = pml4 /\ tlb' = <<>>
  /\ devices' = <<machine.lapic, machine.ioapic>>
  /\ UNCHANGED <<machine, memory, held, pml4, nxe, todo, asked, panic>>

(***************************************************************************)
(* After the switch: pages mapped and unmapped in the current space.       *)
(***************************************************************************)
Running == cr3 # NULL /\ ~panic

\* Mutant: no flush.
no_flush(v) == UNCHANGED tlb
flush_tlb(v) == tlb' = [u \in DOMAIN tlb \ {v} |-> tlb[u]]

\* vmm_map_page in the current space, when the free frames are avail.
vmm_map_page(avail, v, f, flags) ==
  LET w == MapPage(From(avail), v, f, flags) IN
  /\ Becomes(w)
  /\ IF w.at = NULL THEN UNCHANGED <<asked, tlb>>
     ELSE /\ asked' = [asked EXCEPT ![v] = Asked(f, flags)]
          /\ IF cr3 = pml4 THEN flush_tlb(v) ELSE UNCHANGED tlb

\* The caller ignores the result; its first access to the registers faults if
\* they are not mapped.
map_device ==
  LET f == Head(devices) IN
  /\ vmm_map_page(free, P2V(f), f, {"P", "W", "CD"})
  /\ panic' = (asked'[P2V(f)] = NULL)
  /\ devices' = Tail(devices)
  /\ UNCHANGED <<machine, held, pml4, cr3, nxe, todo>>

lapic_init == Running /\ Len(devices) = 2 /\ map_device
ioapic_init_keyboard == Running /\ Len(devices) = 1 /\ map_device

\* One page of expand_heap, after lapic_init. A page mapped by an expansion
\* that failed later is mapped again, to another frame, by the next. Without a
\* frame it returns at once.
expand_heap(v) ==
  /\ Running /\ Len(devices) < 2 /\ free # {}
  /\ vmm_map_page(free \ {Lowest}, v, Lowest, {"P", "W"})
  /\ held' = held \cup {Lowest}
  /\ UNCHANGED <<machine, pml4, cr3, nxe, todo, devices, panic>>

heap_is_full == Running /\ free = {} /\ UNCHANGED vars

\* No caller yet: of a heap page, by whoever would shrink the heap.
vmm_unmap_page(v) ==
  /\ Running
  /\ LET e4 == mem[pml4][PML4_INDEX(v)]
         e3 == mem[e4.frame][PDPT_INDEX(v)]
         e2 == mem[e3.frame][PD_INDEX(v)]
     IN /\ Present(e4) /\ Present(e3) /\ Present(e2)
        /\ Present(mem[e2.frame][PT_INDEX(v)])
        /\ mem' = [mem EXCEPT ![e2.frame][PT_INDEX(v)] = Empty]
  /\ asked' = [asked EXCEPT ![v] = NULL]
  /\ IF cr3 = pml4 THEN flush_tlb(v) ELSE UNCHANGED tlb
  /\ UNCHANGED <<machine, free, tables, held, pml4, cr3, nxe, todo, devices, panic>>

\* A frame no heap page maps goes back to the allocator.
Mapped(f) == \E v \in HeapPages : asked[v] # NULL /\ asked[v].frame = f
pmm_free_page(f) ==
  /\ Running /\ ~Mapped(f)
  /\ held' = held \ {f} /\ free' = free \cup {f}
  /\ UNCHANGED <<machine, mem, tables, pml4, cr3, nxe, todo, devices, tlb, asked, panic>>

\* The processor may cache a translation whenever it likes. It drops some at
\* will, too, which only makes a stale one less likely.
Fill(v) ==
  /\ Running /\ v \notin DOMAIN tlb /\ Translate(v) # NULL
  /\ tlb' = [u \in DOMAIN tlb \cup {v} |-> IF u = v THEN Translate(v) ELSE tlb[u]]
  /\ UNCHANGED <<machine, memory, held, pml4, cr3, nxe, todo, devices, asked, panic>>

Halted == panic /\ UNCHANGED vars

Boot ==
  \/ vmm_init \/ vmm_map_range \/ range_done \/ write_cr3
  \/ lapic_init \/ ioapic_init_keyboard
Next ==
  \/ Boot \/ Halted
  \/ heap_is_full
  \/ \E v \in HeapPages : expand_heap(v) \/ vmm_unmap_page(v) \/ Fill(v)
  \/ \E f \in held : pmm_free_page(f)

Spec == Init /\ [][Next]_vars

(***************************************************************************)
(* Properties                                                              *)
(***************************************************************************)
\* Type invariant: what a table's entry names is a frame that exists.
TypeOK ==
  /\ machine \in Machines
  /\ \A f \in Frames : \A i \in Index : EntryOK(mem[f][i])
  /\ free \subseteq Frames /\ tables \subseteq Frames /\ held \subseteq Frames
  /\ pml4 \in Frames \cup {NULL} /\ cr3 \in {NULL, pml4} /\ nxe \in BOOLEAN
  /\ DOMAIN tlb \subseteq HeapPages /\ panic \in BOOLEAN
  /\ \A v \in Pages : asked[v] = NULL \/ asked[v].frame \in Frames

\* The tables an entry of table f refers to.
NamesTable(e) == Present(e) /\ "PS" \notin e.flags
Children(f) == {mem[f][i].frame : i \in {i \in Index : NamesTable(mem[f][i])}}
Below(S) == UNION {Children(f) : f \in S}
References(S) == {r \in S \X Index : NamesTable(mem[r[1]][r[2]])}

\* The large page of part p that v is in, by its first page, and whether there
\* is one.
LargePage(v) == v - (v % E)
InLargePageOf(p, v) ==
  /\ p.first <= LargePage(v) /\ LargePage(v) + E <= p.end
  /\ (LargePage(v) + p.shift) % E = 0

\* The frames vmm_map_page takes for tables and are none: the first of a large
\* page when a page in it is in another part too, or is a device's.
Overlaid(m) == UNION {{LargePage(v) + p.shift : v \in {v \in PagesIn(p) :
    /\ InLargePageOf(p, v)
    /\ v \in DevicePages(m) \/ \E q \in Parts(m) \ {p} : v \in PagesIn(q)}} :
  p \in Parts(m)}

\* The tables are a tree: a table is reached from the top by one path and serves
\* nobody else. No frame but a table is written as one, those overlaid apart,
\* which are reserved memory. Where no two parts overlap every frame taken for
\* a table is in the tree: nothing is lost by a mapping that failed half way,
\* nor taken twice by the next.
TablesExact ==
  /\ \A f \in Frames \ (tables \cup Overlaid(machine)) : \A i \in Index : mem[f][i] = Junk
  /\ (tables \cup Overlaid(machine)) \cap (free \cup held) = {}
  /\ tables \cap Overlaid(machine) = {}
  /\ pml4 # NULL =>
       LET PDPTs == Below({pml4})  PDs == Below(PDPTs)  PTs == Below(PDs)
           above == {pml4} \cup PDPTs \cup PDs
           reached == above \cup PTs
       IN  /\ reached \subseteq tables
           /\ Cardinality(References(above)) = Cardinality(reached) - 1
           /\ Apart(machine) => reached = tables

\* What becomes of a request: a page in a large page stays as the large page
\* is, whose entry vmm_map_page does not change.
InLargePage(v) == \E p \in Parts(machine) : v \in PagesIn(p) /\ InLargePageOf(p, v)
Granted(v) ==
  IF asked[v] # NULL /\ InLargePage(v)
  THEN [asked[v] EXCEPT !.flags = @ \ {"CD"}] ELSE asked[v]

\* The processor translates each page as the last successful call for it said,
\* and no call disturbs another page: neither its frame nor what may be done.
\* Only a device in a large page of its memory map entry stays cached.
WalkExact == pml4 # NULL => \A v \in Pages : Translate(v) = Granted(v)

\* What the processor has cached is what the tables say.
TlbFresh == \A v \in DOMAIN tlb : tlb[v] = Translate(v)

\* The page is in this frame and can be written; a device's may be uncached.
Reaches(v, f) ==
  \/ Translate(v) = Asked(f, {"W"})
  \/ v \in DevicePages(machine) /\ Translate(v) = Asked(f, {"W", "CD"})

\* Every page of the memory map can be reached where P2V puts it, and with them
\* the tables themselves, which the next call must edit.
HhdmComplete ==
  /\ \A e \in Range(machine.memmap) :
       \A f \in PagesOf(e.base, e.length) : Reaches(P2V(f), f)
  /\ \A f \in tables : Translate(P2V(f)) = Asked(f, {"W"})

\* Every byte of a section of the kernel is where the linker put it and has the
\* section's protection: code and constants are not written, data not executed.
KernelProtected ==
  \A s \in Range(machine.sections) :
    \A v \in PagesOf(s.start, s.end - s.start) :
      Translate(v) = Asked(machine.physical_base + v - machine.virtual_base, s.flags)

\* From the switch on, whatever is mapped later, the space holds all the kernel
\* stands on: the memory map, the kernel itself and the framebuffer.
SpaceComplete == cr3 # NULL =>
  /\ HhdmComplete /\ KernelProtected
  /\ \A v \in PagesOf(machine.fb.address, machine.fb.size) : Reaches(v, V2P(v))
====
