---- MODULE MCPmm ----
(***************************************************************************)
(* Pmm on memories of ten to thirteen pages: pages of 4 bytes, words of 4  *)
(* pages, bytes of 2, so that a bitmap is three or four words long.        *)
(***************************************************************************)
EXTENDS Pmm

Entry(base, length, type) == [base |-> base, length |-> length, type |-> type]
Boot(entries, kernel) ==
  [entries |-> entries, kernel_base |-> kernel, hhdm |-> TRUE]

\* A kernel that ends inside a page, reclaimable memory, and usable memory on
\* both sides of it.
Mixed == Boot(<<Entry(0, 4, "RESERVED"), Entry(4, 20, "USABLE"),
                Entry(24, 6, "EXECUTABLE_AND_MODULES"),
                Entry(32, 4, "BOOTLOADER_RECLAIMABLE"),
                Entry(36, 12, "USABLE"), Entry(60, 8, "FRAMEBUFFER")>>, 26)

\* The first usable entry is too small for the bitmap; memory ends at a
\* multiple of no word.
Split == Boot(<<Entry(4, 4, "USABLE"), Entry(8, 4, "EXECUTABLE_AND_MODULES"),
                Entry(12, 24, "USABLE"), Entry(36, 3, "ACPI_NVS")>>, 8)

\* Maps pmm_init refuses.
NoKernel == Boot(<<Entry(4, 16, "USABLE")>>, 8)
NoRoom == Boot(<<Entry(4, 4, "EXECUTABLE_AND_MODULES"), Entry(8, 4, "USABLE"),
                 Entry(12, 29, "ACPI_RECLAIMABLE")>>, 4)
NoMap == Boot(<<>>, 0)

MCMemMaps == {Mixed, Split, NoKernel, NoRoom, NoMap}
MCCounts == 0 .. 3
MCAddrs == {a * 4 : a \in 0 .. 13} \cup {6}
====
