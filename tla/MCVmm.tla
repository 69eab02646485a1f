---- MODULE MCVmm ----
(***************************************************************************)
(* Vmm with tables of four entries: 256 pages, large pages of four, four   *)
(* machines and as many free frames as it takes to fail at each of them.   *)
(***************************************************************************)
EXTENDS Vmm

\* 32 frames of memory, a framebuffer and two devices; pages of two bytes.
AllFrames == 0 .. 47
Garbage == [frame |-> 1, flags |-> {"P", "W"}]

\* The kernel at page 128: one page of requests, eight of code
\* from an unaligned start, one of constants, data that ends inside a page.
Section(first, last, flags) == [start |-> first, end |-> last, flags |-> flags]
Sections == <<Section(256, 257, {"NX"}), Section(258, 273, {}),
              Section(274, 275, {"NX"}), Section(276, 279, {"W", "NX"})>>

Machine(memmap, base, fb, lapic, ioapic, free_frames) ==
  [memmap |-> memmap, sections |-> Sections,
   physical_base |-> base, virtual_base |-> 128,
   fb |-> fb, lapic |-> lapic, ioapic |-> ioapic, free |-> free_frames]
Usable(base, length) == [base |-> base, length |-> length, usable |-> TRUE]
Reserved(base, length) == [base |-> base, length |-> length, usable |-> FALSE]

\* Reserved memory that ends inside a page; a framebuffer in the map. The
\* LAPIC's page lies in the last table of the framebuffer, the I/O APIC's in
\* a table of its own.
Ragged(free_frames) == Machine(
  <<Usable(0, 20), Reserved(20, 3), Reserved(24, 24), Usable(48, 14), Reserved(64, 13)>>, 12,
  [address |-> 2 * (64 + 32), size |-> 13], 39, 45, free_frames)

\* A kernel that lies across large pages; a framebuffer the map does not hold.
Shifted(free_frames) == Machine(
  <<Usable(0, 26), Reserved(26, 24), Usable(50, 14)>>, 13,
  [address |-> 2 * (64 + 32), size |-> 14], 41, 45, free_frames)

\* Reserved entries that overlap: three bytes of page 33 and 34 lie in the large
\* page from 32, mapped before it or after it; a framebuffer longer than
\* its entry. One device is in a large page of a reserved entry, the other in a
\* page of one that is mapped by itself.
Overlapping(small_first, lapic, ioapic, free_frames) ==
  LET small == <<Reserved(67, 2)>>  large == <<Reserved(64, 20)>> IN Machine(
  <<Usable(0, 20), Reserved(20, 28), Usable(48, 14)>>
    \o (IF small_first THEN small \o large ELSE large \o small)
    \o <<Reserved(84, 7)>>, 12,
  [address |-> 2 * (64 + 40), size |-> 10], lapic, ioapic, free_frames)

\* The first k frames of those usable.
Some(S, k) == {f \in S : Cardinality({g \in S : g < f}) < k}
SomeMachines ==
  {Ragged(Some(1 .. 9 \cup 24 .. 30, k)) : k \in 0 .. 16}
    \cup {Shifted(Some(1 .. 12 \cup 25 .. 31, k)) : k \in 8 .. 19}
    \cup {Overlapping(TRUE, 38, 45, Some(1 .. 9 \cup 24 .. 30, k)) : k \in 8 .. 16}
    \cup {Overlapping(FALSE, 45, 34, Some(1 .. 9 \cup 24 .. 30, k)) : k \in 8 .. 16}

\* The heap begins after the data: in the last table of the kernel, and in a
\* table that is still to be made.
SomeHeapPages == {140, 141, 144}
====
