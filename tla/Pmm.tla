---- MODULE Pmm ----
(***************************************************************************)
(* The physical memory manager, src/kernel/memory/pmm.c: a bitmap with one *)
(* bit per page frame, built from the bootloader's memory map, searched    *)
(* from a hint (pmm_last_free_index) that is the index of a 64-bit word.   *)
(* The page size, the bits of a byte and of a word are constants, so that  *)
(* a checked instance has several words in a dozen pages.                  *)
(***************************************************************************)
EXTENDS Integers, Sequences

CONSTANTS
  PAGE,                    \* bytes of a page            (4096)
  BYTE,                    \* bits of a bitmap byte      (8)
  WORD,                    \* bits of a bitmap word      (64)
  MemMaps,                 \* what the bootloader may report
  Counts,                  \* the run lengths callers ask for and free
  Addrs,                   \* the addresses callers pass to the free calls
  MaxReclaims              \* calls of pmm_reclaim_bootloader_memory

NULL == 0

(***************************************************************************)
(* The memory map (limine.h) and what the Limine protocol promises of it.  *)
(***************************************************************************)
EntryTypes == {"USABLE", "RESERVED", "ACPI_RECLAIMABLE", "ACPI_NVS",
               "BAD_MEMORY", "BOOTLOADER_RECLAIMABLE",
               "EXECUTABLE_AND_MODULES", "FRAMEBUFFER"}
Entries == [base : Nat, length : Nat, type : EntryTypes]
BootInfo == [entries : Seq(Entries), kernel_base : Nat, hhdm : BOOLEAN]

End(e) == e.base + e.length
Overlap(e, f) == e.base < End(f) /\ f.base < End(e)
MayBeGranted(e) == e.type \in {"USABLE", "BOOTLOADER_RECLAIMABLE"}

\* Entries that may be granted are page aligned and overlap no other entry.
LimineProtocol(info) == \A i \in DOMAIN info.entries :
  LET e == info.entries[i] IN
  MayBeGranted(e) =>
    /\ e.base % PAGE = 0 /\ e.length % PAGE = 0
    /\ \A j \in DOMAIN info.entries \ {i} : ~Overlap(e, info.entries[j])

\* Whether no entry that may be granted holds the first page. pmm.c tests for
\* it where it places the bitmap, and nowhere else.
FirstPageReserved(info) == \A i \in DOMAIN info.entries :
  MayBeGranted(info.entries[i]) => info.entries[i].base > 0

ASSUME SizesAssumption ==
  /\ PAGE \in Nat \ {0} /\ BYTE \in Nat \ {0} /\ WORD \in Nat \ {0}
  /\ WORD % BYTE = 0
ASSUME MemMapsAssumption ==
  \A info \in MemMaps : info \in BootInfo /\ LimineProtocol(info)
\* The bootloader's memory is given up once: a second call would free pages
\* granted since.
ASSUME CallsAssumption ==
  Counts \subseteq Nat /\ 1 \in Counts /\ Addrs \subseteq Nat /\ MaxReclaims \in {0, 1}

VARIABLES
  memmap,                  \* the bootloader's responses
  initialized,             \* physical_memory_initialized
  kernel_start, kernel_end,\* _kernel_start_phys, _kernel_end_phys
  total_pages,             \* pmm_total_pages
  bitmap_size,             \* pmm_bitmap_size, in bytes
  bitmap_phys,             \* where pmm_bitmap lies in physical memory
  bitmap,                  \* the pages whose bit is set
  hint,                    \* pmm_last_free_index
  cr3, bootloader_cr3,     \* the active page tables, pmm_bootloader_cr3
  reclaims,                \* calls of pmm_reclaim_bootloader_memory so far
  held,                    \* ghost: the pages callers hold
  answer,                  \* the last allocation: pages asked, page returned
  panicked                 \* kernel_panic halted the machine

fixed == <<memmap, kernel_start, kernel_end, total_pages, bitmap_size,
           bitmap_phys, bootloader_cr3>>
vars == <<fixed, initialized, bitmap, hint, cr3, reclaims, held, answer,
          panicked>>

(***************************************************************************)
(* ALIGN_UP(v, 4096) / 4096, ALIGN_DOWN(v, 4096) / 4096 and the pages      *)
(* between two such bounds.                                                *)
(***************************************************************************)
PageUp(v) == (v + PAGE - 1) \div PAGE
PageDown(v) == v \div PAGE
PagesWithin(lo, hi) == PageUp(lo) .. PageDown(hi) - 1
PagesTouching(lo, hi) == PageDown(lo) .. PageUp(hi) - 1

Run(s, n) == s .. s + n - 1
Of(info, type) == {e \in {info.entries[i] : i \in DOMAIN info.entries} :
                     e.type = type}
Answer(n, s) == [count |-> n, page |-> s]

IsLowest(s, S) == s \in S /\ \A x \in S : s <= x

kernel_panic ==
  /\ panicked' = TRUE
  /\ UNCHANGED <<fixed, initialized, bitmap, hint, cr3, reclaims, held, answer>>

Init ==
  /\ memmap \in MemMaps
  /\ initialized = FALSE
  /\ kernel_start = 0 /\ kernel_end = 0
  /\ total_pages = 0 /\ bitmap_size = 0 /\ bitmap_phys = 0
  /\ bitmap = {} /\ hint = 0
  /\ cr3 = "bootloader" /\ bootloader_cr3 = "none"
  /\ reclaims = 0 /\ held = {} /\ answer = Answer(0, NULL)
  /\ panicked = FALSE

(***************************************************************************)
(* pmm_init                                                                *)
(***************************************************************************)
ValidRequests ==
  Len(memmap.entries) > 0 /\ memmap.kernel_base # 0 /\ memmap.hhdm

HoldsKernel(e) ==
  /\ e.type = "EXECUTABLE_AND_MODULES"
  /\ e.base <= memmap.kernel_base /\ memmap.kernel_base < End(e)

KernelEntries == {i \in DOMAIN memmap.entries : HoldsKernel(memmap.entries[i])}

Counted == {"USABLE", "BOOTLOADER_RECLAIMABLE", "EXECUTABLE_AND_MODULES",
            "ACPI_RECLAIMABLE", "ACPI_NVS"}
CountedEnds == {0} \cup {End(e) : e \in UNION {Of(memmap, t) : t \in Counted}}

\* Mutant: the size is not rounded up to whole words.
BitmapSizeUnrounded(total) == (total + BYTE - 1) \div BYTE

BitmapSize(total) ==
  ((total + WORD - 1) \div WORD) * (WORD \div BYTE)
    + (IF total % BYTE # 0 THEN 1 ELSE 0)

\* The page the bitmap would start at in a usable entry: never page 0.
SitePage(e) == IF PageUp(e.base) = 0 THEN 1 ELSE PageUp(e.base)
HoldsBitmap(e, size) ==
  /\ e.type = "USABLE"
  /\ SitePage(e) < PageDown(End(e))
  /\ (PageDown(End(e)) - SitePage(e)) * PAGE >= size

BitmapEntries(size) ==
  {i \in DOMAIN memmap.entries : HoldsBitmap(memmap.entries[i], size)}

UsablePages == UNION {PagesWithin(e.base, End(e)) : e \in Of(memmap, "USABLE")}

\* Mutant: the bitmap's own pages are left free.
BootBitmapUnprotected(kstart, kend, site, size) ==
  ((0 .. size * BYTE - 1) \ UsablePages) \cup PagesTouching(kstart, kend)

\* The bitmap when pmm_init is done: all set, then the usable pages cleared,
\* then the kernel's pages and the bitmap's own set again.
BootBitmap(kstart, kend, site, size) ==
  ((0 .. size * BYTE - 1) \ UsablePages)
    \cup PagesTouching(kstart, kend) \cup PagesTouching(site, site + size)

pmm_init ==
  /\ ~initialized          \* kernel_init calls it once
  /\ IF ~ValidRequests
     THEN kernel_panic
     ELSE
     \/ KernelEntries = {} /\ kernel_panic
     \/ \E k \in KernelEntries, highest \in CountedEnds :
        /\ IsLowest(k, KernelEntries)
        /\ \A x \in CountedEnds : x <= highest
        /\ LET total == PageUp(highest)
               size == BitmapSize(total)
           IN
           \/ BitmapEntries(size) = {} /\ kernel_panic
           \/ \E b \in BitmapEntries(size) :
              /\ IsLowest(b, BitmapEntries(size))
              /\ kernel_start' = memmap.kernel_base
              /\ kernel_end' = End(memmap.entries[k])
              /\ total_pages' = total
              /\ bitmap_size' = size
              /\ bitmap_phys' = SitePage(memmap.entries[b]) * PAGE
              /\ bitmap' = BootBitmap(kernel_start', kernel_end',
                                      bitmap_phys', size)
              /\ bootloader_cr3' = cr3
              /\ initialized' = TRUE
              /\ UNCHANGED <<memmap, hint, cr3, reclaims, held, answer, panicked>>

(***************************************************************************)
(* pmm_alloc_page, pmm_alloc_pages: a first pass from the hint to the end, *)
(* a second from the start to the hint, the lowest candidate of the first  *)
(* pass that has one.                                                      *)
(***************************************************************************)
FreePages == {p \in 0 .. total_pages - 1 : p \notin bitmap}
\* The starts of the runs of n free pages that lie between two bounds.
FreeRuns(lo, hi, n) == {s \in lo .. hi - n : Run(s, n) \subseteq FreePages}

\* Mutant: the search never wraps to the pages before the hint.
OnePass(from, hi, n) == FreeRuns(from, hi, n)

TwoPasses(from, hi, n) ==
  IF FreeRuns(from, hi, n) # {} THEN FreeRuns(from, hi, n)
                                ELSE FreeRuns(0, from, n)

\* The pages taken go to the caller, unless their address is NULL: a caller
\* that is told NULL has been given nothing.
Take(s, n) ==
  /\ bitmap' = bitmap \cup Run(s, n)
  /\ held' = IF s = NULL THEN held ELSE held \cup Run(s, n)
  /\ answer' = Answer(n, s)
  /\ UNCHANGED <<fixed, initialized, cr3, reclaims, panicked>>

ReturnNull(n) ==
  /\ answer' = Answer(n, NULL)
  /\ UNCHANGED <<fixed, initialized, bitmap, hint, cr3, reclaims, held, panicked>>

size64 == bitmap_size \div (WORD \div BYTE)

pmm_alloc_page ==
  IF ~initialized THEN kernel_panic ELSE
  LET first_index == IF hint >= size64 THEN 0 ELSE hint
      candidates == TwoPasses(first_index * WORD, size64 * WORD, 1)
  IN
  \/ \E page \in candidates :
       IsLowest(page, candidates) /\ Take(page, 1) /\ hint' = page \div WORD
  \/ candidates = {} /\ ReturnNull(1)

pmm_alloc_pages(count) ==
  IF count = 0 THEN ReturnNull(0)
  ELSE IF count = 1 THEN pmm_alloc_page
  ELSE IF ~initialized THEN kernel_panic ELSE
  LET first_page == IF hint * WORD >= total_pages THEN 0 ELSE hint * WORD
      candidates == TwoPasses(first_page, total_pages, count)
  IN
  \/ \E start \in candidates :
       /\ IsLowest(start, candidates)
       /\ Take(start, count)
       /\ hint' = (start + count) \div WORD
  \/ candidates = {} /\ ReturnNull(count)

(***************************************************************************)
(* pmm_free_page, pmm_free_pages. Callers free what they hold, or make one *)
(* of the mistakes the code tests for; a page that is used and was never   *)
(* granted is not an argument, and nothing in the code would notice it.    *)
(***************************************************************************)
Freeable(pages) ==
  \A p \in pages : p \in held \/ p >= total_pages \/ p \notin bitmap

Clear(pages) == bitmap' = bitmap \ pages /\ held' = held \ pages

\* Mutant: the hint is set to a page number instead of a word's index.
LowerHintToPage(page) == hint' = IF page \div WORD < hint THEN page ELSE hint

LowerHint(page) ==
  hint' = IF page \div WORD < hint THEN page \div WORD ELSE hint

pmm_free_page(addr) ==
  LET page == addr \div PAGE IN
  /\ initialized /\ addr # NULL
  /\ IF addr % PAGE # 0 \/ page >= total_pages \/ page \notin bitmap
     THEN kernel_panic
     ELSE /\ Freeable({page})
          /\ Clear({page})
          /\ LowerHint(page)
          /\ UNCHANGED <<fixed, initialized, cr3, reclaims, answer, panicked>>

\* The pages below the first that is already free are cleared before the
\* panic.
pmm_free_pages(addr, count) ==
  LET start == addr \div PAGE
      run == Run(start, count)
      twice == run \ bitmap
  IN
  /\ initialized /\ addr # NULL /\ count # 0
  /\ IF addr % PAGE # 0 \/ start + count > total_pages
     THEN kernel_panic
     ELSE /\ Freeable(run)
          /\ IF twice = {}
             THEN Clear(run) /\ LowerHint(start) /\ UNCHANGED panicked
             ELSE /\ \E t \in twice :
                       IsLowest(t, twice) /\ Clear(start .. t - 1)
                  /\ panicked' = TRUE
                  /\ UNCHANGED hint
          /\ UNCHANGED <<fixed, initialized, cr3, reclaims, answer>>

(***************************************************************************)
(* pmm_reclaim_bootloader_memory, and the switch of page tables that is    *)
(* its precondition (vmm_init's set_current_cr3).                          *)
(***************************************************************************)
ReclaimablePages ==
  UNION {PagesTouching(e.base, End(e)) :
           e \in Of(memmap, "BOOTLOADER_RECLAIMABLE")}

pmm_reclaim_bootloader_memory ==
  /\ initialized
  /\ reclaims < MaxReclaims
  /\ IF cr3 = bootloader_cr3 THEN kernel_panic ELSE
     /\ bitmap' = bitmap \ {p \in ReclaimablePages : p < total_pages}
     /\ hint' = 0
     /\ reclaims' = reclaims + 1
     /\ UNCHANGED <<fixed, initialized, cr3, held, answer, panicked>>

set_current_cr3 ==
  /\ initialized /\ cr3 # "kernel"
  /\ cr3' = "kernel"
  /\ UNCHANGED <<fixed, initialized, bitmap, hint, reclaims, held, answer, panicked>>

Running ==
  \/ pmm_init
  \/ pmm_alloc_page
  \/ \E n \in Counts : pmm_alloc_pages(n)
  \/ \E a \in Addrs : pmm_free_page(a)
  \/ \E a \in Addrs, n \in Counts : pmm_free_pages(a, n)
  \/ pmm_reclaim_bootloader_memory
  \/ set_current_cr3

\* hcf: a halted machine stays halted.
Halted == panicked /\ UNCHANGED vars

Next == (~panicked /\ Running) \/ Halted

Spec == Init /\ [][Next]_vars

(***************************************************************************)
(* Properties                                                              *)
(***************************************************************************)
BootFields ==
  /\ kernel_start \in Nat /\ kernel_end \in Nat
  /\ total_pages \in Nat /\ bitmap_size \in Nat /\ bitmap_phys \in Nat
  /\ bootloader_cr3 \in {"none", "bootloader"}

\* Type invariant. The hint always is the index of a word of the bitmap, or
\* the index after the last.
TypeOK ==
  /\ memmap \in MemMaps
  /\ initialized \in BOOLEAN /\ panicked \in BOOLEAN
  /\ BootFields
  /\ bitmap \subseteq Nat /\ held \subseteq Nat
  /\ hint \in 0 .. size64
  /\ cr3 \in {"bootloader", "kernel"}
  /\ reclaims \in 0 .. MaxReclaims
  /\ answer \in [count : Nat, page : Nat]

Covers(e, p) == e.base <= p * PAGE /\ (p + 1) * PAGE <= End(e)
Meets(p, lo, hi) == p * PAGE < hi /\ lo < (p + 1) * PAGE

\* The pages a caller may own, told from the bytes they hold: the whole page
\* is usable memory (or the bootloader's, once that is given up), and no byte
\* of it belongs to the kernel image or to the bitmap.
Grantable(p) ==
  /\ \/ \E e \in Of(memmap, "USABLE") : Covers(e, p)
     \/ reclaims > 0 /\ \E e \in Of(memmap, "BOOTLOADER_RECLAIMABLE") : Covers(e, p)
  /\ ~Meets(p, kernel_start, kernel_end)
  /\ ~Meets(p, bitmap_phys, bitmap_phys + bitmap_size)

Reserved == {p \in 0 .. total_pages - 1 : ~Grantable(p)}
Lost == {p \in bitmap : p < total_pages} \ (Reserved \cup held)

\* The bitmap is exact: a set bit is a reserved page or a page some caller
\* holds, so no page of the kernel image, the bitmap, or a hole of the memory
\* map is ever granted, and no page is lost. The exception is a page 0 the
\* memory map calls usable: granting it returns NULL and loses its run.
Conserved == initialized =>
  /\ Reserved \cup held \subseteq bitmap
  /\ held \cap Reserved = {} /\ held \subseteq 0 .. total_pages - 1
  /\ Lost # {} => NULL \in Lost

\* The bitmap has a bit for every page counted, the words scanned are the
\* bitmap's own, no bit is set outside it, and its bytes lie in one usable
\* entry (the rounding of pmm_bitmap_size to 64 pages, with its extra byte).
BitmapFits == initialized =>
  /\ total_pages <= size64 * WORD
  /\ size64 * WORD <= bitmap_size * BYTE
  /\ bitmap \subseteq 0 .. bitmap_size * BYTE - 1
  /\ \E e \in Of(memmap, "USABLE") :
       e.base <= bitmap_phys /\ bitmap_phys + bitmap_size <= End(e)

\* pmm.c implements PageAllocator: grants are free pages of nobody's, frees
\* make pages grantable again, and NULL means memory is short, whatever the
\* hint is (a run of 2n - 1 free pages cannot hide across the hint).
PA == INSTANCE PageAllocator WITH free <- FreePages, halted <- panicked
Implements == PA!PSpec
====
