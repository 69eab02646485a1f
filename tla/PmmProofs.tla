---- MODULE PmmProofs ----
(***************************************************************************)
(* Proofs about Pmm for every page, byte and word size, every memory map   *)
(* the Limine protocol allows and every sequence of calls.                 *)
(***************************************************************************)
EXTENDS Pmm, TLAPS

(***************************************************************************)
(* Arithmetic of pages                                                     *)
(***************************************************************************)

\* ALIGN_UP and ALIGN_DOWN, as page numbers, bound exactly the pages that lie
\* inside, or meet, a range of bytes.
LEMMA PageBounds ==
  ASSUME NEW v \in Nat
  PROVE  /\ PageUp(v) \in Nat /\ PageDown(v) \in Nat
         /\ \A p \in Nat : PageUp(v) <= p <=> v <= p * PAGE
         /\ \A p \in Nat : p < PageDown(v) <=> (p + 1) * PAGE <= v
         /\ \A p \in Nat : PageDown(v) <= p <=> v < (p + 1) * PAGE
         /\ \A p \in Nat : p < PageUp(v) <=> p * PAGE < v
<1>1. PageUp(v) \in Nat /\ PageDown(v) \in Nat
  BY SizesAssumption DEF PageUp, PageDown
<1>2. \A p \in Nat : PageUp(v) <= p <=> v <= p * PAGE
  BY SizesAssumption DEF PageUp
<1>3. \A p \in Nat : p < PageDown(v) <=> (p + 1) * PAGE <= v
  BY SizesAssumption DEF PageDown
<1>4. \A p \in Nat : p * PAGE \in Nat /\ (p + 1) * PAGE \in Nat
  BY SizesAssumption
<1> QED BY <1>1, <1>2, <1>3, <1>4

LEMMA WordBounds ==
  /\ WORD \div BYTE \in Nat \ {0}
  /\ \A n \in Nat : n \div (WORD \div BYTE) \in Nat
  /\ WORD = (WORD \div BYTE) * BYTE
  /\ \A p, s \in Nat : p < s * WORD => p \div WORD \in 0 .. s
  /\ \A p, s \in Nat : p <= s * WORD => p \div WORD \in 0 .. s
<1>1. WORD = (WORD \div BYTE) * BYTE /\ WORD \div BYTE \in Nat
  BY SizesAssumption
<1>2. WORD \div BYTE # 0
  BY <1>1, SizesAssumption
<1>3. \A n \in Nat : n \div (WORD \div BYTE) \in Nat
  BY <1>1, <1>2
<1>4. \A p, s \in Nat : p <= s * WORD => p \div WORD \in 0 .. s
  BY SizesAssumption
<1> QED BY <1>1, <1>2, <1>3, <1>4, SizesAssumption

\* The size pmm_init_bitmap_metadata computes: whole words, enough of them,
\* all within the bytes, whether or not the extra byte was added.
LEMMA BitmapSizeFits ==
  ASSUME NEW total \in Nat
  PROVE  /\ BitmapSize(total) \in Nat
         /\ total <= (BitmapSize(total) \div (WORD \div BYTE)) * WORD
         /\ (BitmapSize(total) \div (WORD \div BYTE)) * WORD <= BitmapSize(total) * BYTE
<1> DEFINE words == (total + WORD - 1) \div WORD
           bytes == WORD \div BYTE
           extra == IF total % BYTE # 0 THEN 1 ELSE 0
           q == BitmapSize(total) \div bytes
<1>1. words \in Nat /\ total <= words * WORD
  BY SizesAssumption
<1>2. bytes \in Nat \ {0} /\ WORD = bytes * BYTE /\ extra \in {0, 1}
  BY WordBounds
<1>3. BitmapSize(total) = words * bytes + extra
  BY DEF BitmapSize
<1> HIDE DEF words, bytes, extra
<1>4. BitmapSize(total) \in Nat
  BY <1>1, <1>2, <1>3
<1>5. words <= q /\ q \in Nat /\ q * bytes <= BitmapSize(total)
  BY <1>1, <1>2, <1>3, <1>4
<1>6. words * WORD <= q * WORD
  BY <1>1, <1>5, SizesAssumption
<1> HIDE DEF q
<1>7. q * WORD = (q * bytes) * BYTE
  <2>1. \A x, y, z \in Nat : x * (y * z) = (x * y) * z
    OBVIOUS
  <2> QED BY <2>1, <1>2, <1>5, SizesAssumption
<1>8. (q * bytes) * BYTE <= BitmapSize(total) * BYTE
  BY <1>2, <1>4, <1>5, SizesAssumption
<1>9. q * WORD \in Nat
  BY <1>5, SizesAssumption
<1>10. words * WORD \in Nat
  BY <1>1, SizesAssumption
<1>11. total <= q * WORD
  BY <1>1, <1>6, <1>9, <1>10
<1> QED BY <1>4, <1>7, <1>8, <1>11 DEF bytes, q

(***************************************************************************)
(* The memory map                                                          *)
(***************************************************************************)
Grants == {"USABLE", "BOOTLOADER_RECLAIMABLE"}

LEMMA EntryFacts ==
  ASSUME NEW info \in MemMaps, NEW type, NEW e \in Of(info, type)
  PROVE  /\ e \in Entries /\ e.type = type
         /\ e.base \in Nat /\ e.length \in Nat /\ End(e) \in Nat
<1>1. PICK i \in DOMAIN info.entries : e = info.entries[i] /\ e.type = type
  BY DEF Of
<1>2. info.entries \in Seq(Entries)
  BY MemMapsAssumption DEF BootInfo
<1>3. e \in Entries
  BY <1>1, <1>2
<1> QED BY <1>1, <1>3 DEF Entries, End

\* A page that lies in an entry that may be granted meets no entry of another
\* type, and lies in none.
LEMMA Disjoint ==
  ASSUME NEW info \in MemMaps, NEW t \in Grants, NEW e \in Of(info, t),
         NEW u, u # t, NEW f \in Of(info, u)
  PROVE  ~Overlap(e, f)
<1>1. PICK i \in DOMAIN info.entries : e = info.entries[i] /\ e.type = t
  BY DEF Of
<1>2. PICK j \in DOMAIN info.entries : f = info.entries[j] /\ f.type = u
  BY DEF Of
<1>3. i # j
  BY <1>1, <1>2
<1> QED BY <1>1, <1>2, <1>3, MemMapsAssumption DEF LimineProtocol, MayBeGranted, Grants

\* Entries that may be granted consist of whole pages.
LEMMA Aligned ==
  ASSUME NEW info \in MemMaps, NEW t \in Grants, NEW e \in Of(info, t)
  PROVE  /\ e.base = PageDown(e.base) * PAGE
         /\ End(e) = PageUp(End(e)) * PAGE
<1>1. PICK i \in DOMAIN info.entries : e = info.entries[i] /\ e.type = t
  BY DEF Of
<1>2. e.base % PAGE = 0 /\ e.length % PAGE = 0
  BY <1>1, MemMapsAssumption DEF LimineProtocol, MayBeGranted, Grants
<1>3. e.base \in Nat /\ e.length \in Nat
  BY EntryFacts
<1> DEFINE b == e.base \div PAGE
           l == e.length \div PAGE
<1>4. b \in Nat /\ l \in Nat /\ e.base = b * PAGE /\ e.length = l * PAGE
  BY <1>2, <1>3, SizesAssumption
<1> HIDE DEF b, l
<1>5. End(e) = (b + l) * PAGE
  BY <1>4, SizesAssumption DEF End
<1>6. ((b + l) * PAGE + PAGE - 1) \div PAGE = b + l
  BY <1>4, SizesAssumption
<1> QED BY <1>4, <1>5, <1>6 DEF PageUp, PageDown, b

(***************************************************************************)
(* The inductive invariant. Conserved is not inductive by itself: that a   *)
(* page of usable memory is below pmm_total_pages and meets neither the    *)
(* kernel image nor (when the bootloader owns it) the bitmap is what       *)
(* pmm_init computed from the map, and pmm_reclaim_bootloader_memory       *)
(* relies on it long after.                                                *)
(***************************************************************************)
MapOK == initialized => \A t \in Grants : \A e \in Of(memmap, t), p \in Nat :
  Covers(e, p) =>
    /\ p < total_pages
    /\ ~Meets(p, kernel_start, kernel_end)
    /\ t = "BOOTLOADER_RECLAIMABLE" =>
         ~Meets(p, bitmap_phys, bitmap_phys + bitmap_size)

Fresh == ~initialized =>
  /\ bitmap = {} /\ held = {} /\ total_pages = 0 /\ bitmap_size = 0
  /\ hint = 0 /\ reclaims = 0 /\ cr3 = "bootloader" /\ answer = Answer(0, NULL)

IInv == TypeOK /\ BitmapFits /\ Conserved /\ MapOK /\ Fresh

LEMMA InitInv == Init => IInv
<1> SUFFICES ASSUME Init PROVE IInv
  OBVIOUS
<1>1. size64 = 0
  <2>1. \A d \in Nat \ {0} : 0 \div d = 0
    OBVIOUS
  <2> QED BY <2>1, WordBounds DEF Init, size64
<1>2. TypeOK
  <2>1. hint \in 0 .. size64 /\ reclaims \in 0 .. MaxReclaims
    BY <1>1, CallsAssumption DEF Init
  <2>2. initialized \in BOOLEAN /\ panicked \in BOOLEAN
    BY DEF Init
  <2>3. answer \in [count : Nat, page : Nat]
    BY DEF Init, Answer, NULL
  <2> QED BY <2>1, <2>2, <2>3 DEF Init, TypeOK, BootFields
<1> QED BY <1>2 DEF Init, IInv, BitmapFits, Conserved, MapOK, Fresh

LEMMA PanicInv == ASSUME IInv, kernel_panic PROVE IInv'
BY DEF kernel_panic, fixed, IInv, TypeOK, BootFields, size64, BitmapFits,
       Conserved, Reserved, Lost, Grantable, MapOK, Fresh

\* A page of the run of whole pages between two bounds is covered.
LEMMA WithinCovers ==
  ASSUME NEW info \in MemMaps, NEW t, NEW e \in Of(info, t), NEW p \in Nat
  PROVE  p \in PagesWithin(e.base, End(e)) <=> Covers(e, p)
<1>1. e.base \in Nat /\ End(e) \in Nat
  BY EntryFacts
<1>2. /\ PageUp(e.base) \in Nat /\ PageDown(End(e)) \in Nat
      /\ PageUp(e.base) <= p <=> e.base <= p * PAGE
      /\ p < PageDown(End(e)) <=> (p + 1) * PAGE <= End(e)
  BY <1>1, PageBounds
<1>3. p \in PageUp(e.base) .. PageDown(End(e)) - 1
        <=> PageUp(e.base) <= p /\ p < PageDown(End(e))
  BY <1>2
<1> QED BY <1>2, <1>3 DEF PagesWithin, Covers

LEMMA TouchingMeets ==
  ASSUME NEW lo \in Nat, NEW hi \in Nat, NEW p \in Nat
  PROVE  p \in PagesTouching(lo, hi) <=> Meets(p, lo, hi)
<1>1. /\ PageDown(lo) \in Nat /\ PageUp(hi) \in Nat
      /\ PageDown(lo) <= p <=> lo < (p + 1) * PAGE
      /\ p < PageUp(hi) <=> p * PAGE < hi
  BY PageBounds
<1>2. p \in PageDown(lo) .. PageUp(hi) - 1 <=> PageDown(lo) <= p /\ p < PageUp(hi)
  BY <1>1
<1> QED BY <1>1, <1>2 DEF PagesTouching, Meets

\* For an entry made of whole pages the two coincide.
LEMMA TouchingCovers ==
  ASSUME NEW info \in MemMaps, NEW t \in Grants, NEW e \in Of(info, t), NEW p \in Nat
  PROVE  p \in PagesTouching(e.base, End(e)) <=> Covers(e, p)
<1>1. e.base \in Nat /\ End(e) \in Nat
  BY EntryFacts
<1> DEFINE b == PageDown(e.base)
           n == PageUp(End(e))
<1>2. b \in Nat /\ n \in Nat /\ e.base = b * PAGE /\ End(e) = n * PAGE
  BY <1>1, PageBounds, Aligned
<1> HIDE DEF b, n
<1>3. e.base <= p * PAGE <=> e.base < (p + 1) * PAGE
  <2>1. b * PAGE <= p * PAGE <=> b <= p
    BY <1>2, SizesAssumption
  <2>2. b * PAGE < (p + 1) * PAGE <=> b < p + 1
    BY <1>2, SizesAssumption
  <2> QED BY <1>2, <2>1, <2>2
<1>4. p * PAGE < End(e) <=> (p + 1) * PAGE <= End(e)
  <2>1. p * PAGE < n * PAGE <=> p < n
    BY <1>2, SizesAssumption
  <2>2. (p + 1) * PAGE <= n * PAGE <=> p + 1 <= n
    BY <1>2, SizesAssumption
  <2> QED BY <1>2, <2>1, <2>2
<1>5. p \in PagesTouching(e.base, End(e)) <=> Meets(p, e.base, End(e))
  BY <1>1, TouchingMeets
<1> QED BY <1>3, <1>4, <1>5 DEF Meets, Covers

\* A page cannot lie in entries of two types.
LEMMA OneOwner ==
  ASSUME NEW info \in MemMaps, NEW t \in Grants, NEW e \in Of(info, t),
         NEW p \in Nat, Covers(e, p),
         NEW lo \in Nat, NEW hi \in Nat, NEW u, u # t, NEW f \in Of(info, u),
         f.base <= lo, hi <= End(f)
  PROVE  ~Meets(p, lo, hi)
<1>1. ~Overlap(e, f)
  BY Disjoint
<1>2. e.base \in Nat /\ End(e) \in Nat /\ f.base \in Nat /\ End(f) \in Nat
  BY EntryFacts
<1>3. p * PAGE \in Nat /\ (p + 1) * PAGE \in Nat
  BY SizesAssumption
<1> QED BY <1>1, <1>2, <1>3 DEF Overlap, Covers, Meets

(***************************************************************************)
(* pmm_init establishes the invariant                                      *)
(***************************************************************************)

\* The highest end of the entries counted bounds every page that one of them
\* reaches, and so every page that may ever be granted.
LEMMA CountedBound ==
  ASSUME memmap \in MemMaps, NEW highest \in CountedEnds,
         \A x \in CountedEnds : x <= highest
  PROVE  /\ PageUp(highest) \in Nat
         /\ \A t \in Counted : \A e \in Of(memmap, t), p \in Nat :
              p * PAGE < End(e) => p < PageUp(highest)
         /\ \A t \in Grants : \A e \in Of(memmap, t), p \in Nat :
              Covers(e, p) => p < PageUp(highest)
<1>1. highest \in Nat
  BY EntryFacts DEF CountedEnds
<1>2. ASSUME NEW t \in Counted, NEW e \in Of(memmap, t), NEW p \in Nat,
             p * PAGE < End(e)
      PROVE  p < PageUp(highest)
  <2>1. End(e) \in CountedEnds
    BY DEF CountedEnds
  <2>2. End(e) <= highest /\ End(e) \in Nat
    BY <2>1, EntryFacts
  <2>3. p * PAGE < highest
    BY <1>1, <1>2, <2>2, SizesAssumption
  <2> QED BY <1>1, <2>3, PageBounds
<1>3. ASSUME NEW t \in Grants, NEW e \in Of(memmap, t), NEW p \in Nat, Covers(e, p)
      PROVE  t \in Counted /\ p * PAGE < End(e)
  <2>1. End(e) \in Nat
    BY EntryFacts
  <2> QED BY <1>3, <2>1, SizesAssumption DEF Covers, Counted, Grants
<1> QED BY <1>1, <1>2, <1>3, PageBounds

\* The bitmap's bytes lie in the entry they were placed in.
LEMMA SiteFits ==
  ASSUME memmap \in MemMaps, NEW b \in DOMAIN memmap.entries,
         NEW size \in Nat, HoldsBitmap(memmap.entries[b], size)
  PROVE  LET e == memmap.entries[b]
             site == SitePage(e) * PAGE
         IN  /\ e \in Of(memmap, "USABLE")
             /\ site \in Nat /\ e.base <= site /\ site + size <= End(e)
<1> DEFINE e == memmap.entries[b]
           first == SitePage(e)
           last == PageDown(End(e))
<1>1. e \in Of(memmap, "USABLE")
  BY DEF Of, HoldsBitmap
<1>2. e.base \in Nat /\ End(e) \in Nat
  BY <1>1, EntryFacts
<1>3. first \in Nat /\ PageUp(e.base) <= first
  <2>1. PageUp(e.base) \in Nat
    BY <1>2, PageBounds
  <2> QED BY <2>1 DEF SitePage
<1>4. e.base <= first * PAGE /\ first * PAGE \in Nat
  <2>1. PageUp(e.base) <= first <=> e.base <= first * PAGE
    BY <1>2, <1>3, PageBounds
  <2>2. first * PAGE \in Nat
    BY <1>3, SizesAssumption
  <2> QED BY <1>3, <2>1, <2>2
<1>5. last \in Nat /\ last * PAGE <= End(e)
  BY <1>2, SizesAssumption DEF PageDown
<1>6. (last - first) * PAGE >= size /\ first < last
  BY DEF HoldsBitmap
<1> HIDE DEF first, last
<1>7. first * PAGE + (last - first) * PAGE = last * PAGE
  BY <1>3, <1>5, SizesAssumption
<1>8. (last - first) * PAGE \in Nat /\ last * PAGE \in Nat
  BY <1>3, <1>5, <1>6, SizesAssumption
<1>9. first * PAGE + size <= End(e)
  BY <1>2, <1>4, <1>5, <1>6, <1>7, <1>8
<1> QED BY <1>1, <1>4, <1>9 DEF first

LEMMA BootInv == ASSUME IInv, pmm_init PROVE IInv'
<1>1. CASE kernel_panic
  BY <1>1, PanicInv
<1>2. ASSUME ~kernel_panic PROVE IInv'
  <2>1. memmap \in MemMaps /\ ~initialized /\ Fresh
    BY DEF IInv, TypeOK, pmm_init
  <2>2. PICK k \in DOMAIN memmap.entries, highest \in CountedEnds,
             b \in DOMAIN memmap.entries :
          /\ HoldsKernel(memmap.entries[k])
          /\ \A x \in CountedEnds : x <= highest
          /\ total_pages' = PageUp(highest)
          /\ bitmap_size' = BitmapSize(PageUp(highest))
          /\ HoldsBitmap(memmap.entries[b], BitmapSize(PageUp(highest)))
          /\ kernel_start' = memmap.kernel_base
          /\ kernel_end' = End(memmap.entries[k])
          /\ bitmap_phys' = SitePage(memmap.entries[b]) * PAGE
          /\ bitmap' = BootBitmap(kernel_start', kernel_end',
                                  bitmap_phys', bitmap_size')
          /\ bootloader_cr3' = cr3 /\ initialized' = TRUE
          /\ UNCHANGED <<memmap, hint, cr3, reclaims, held, answer, panicked>>
    BY <1>2 DEF pmm_init, KernelEntries, BitmapEntries
  <2> DEFINE ke == memmap.entries[k]
             ue == memmap.entries[b]
             size == bitmap_size'
  <2>3. /\ total_pages' \in Nat
        /\ \A t \in Counted : \A e \in Of(memmap, t), p \in Nat :
             p * PAGE < End(e) => p < total_pages'
        /\ \A t \in Grants : \A e \in Of(memmap, t), p \in Nat :
             Covers(e, p) => p < total_pages'
    BY <2>1, <2>2, CountedBound
  <2>4. /\ bitmap_size' \in Nat
        /\ total_pages' <= size64' * WORD
        /\ size64' * WORD <= bitmap_size' * BYTE
        /\ size64' \in Nat
    BY <2>2, <2>3, BitmapSizeFits, WordBounds DEF size64
  <2>5. /\ ue \in Of(memmap, "USABLE")
        /\ bitmap_phys' \in Nat /\ ue.base <= bitmap_phys'
        /\ bitmap_phys' + bitmap_size' <= End(ue)
    BY <2>1, <2>2, <2>4, SiteFits
  <2>6. /\ ke \in Of(memmap, "EXECUTABLE_AND_MODULES")
        /\ ke.base <= kernel_start' /\ kernel_end' = End(ke)
        /\ kernel_start' \in Nat /\ kernel_end' \in Nat
    <3>1. ke \in Of(memmap, "EXECUTABLE_AND_MODULES")
      BY <2>2 DEF HoldsKernel, Of
    <3>2. memmap.kernel_base \in Nat
      BY <2>1, MemMapsAssumption DEF BootInfo
    <3> QED BY <2>1, <2>2, <3>1, <3>2, EntryFacts DEF HoldsKernel
  <2>7. \A t \in Grants : \A e \in Of(memmap, t), p \in Nat : Covers(e, p) =>
          /\ ~Meets(p, kernel_start', kernel_end')
          /\ t # "USABLE" => ~Meets(p, bitmap_phys', bitmap_phys' + bitmap_size')
    <3> TAKE t \in Grants
    <3> TAKE e \in Of(memmap, t), p \in Nat
    <3> HAVE Covers(e, p)
    <3>1. ~Meets(p, kernel_start', kernel_end')
      BY <2>1, <2>6, OneOwner DEF Grants
    <3>2. ASSUME t # "USABLE"
          PROVE  ~Meets(p, bitmap_phys', bitmap_phys' + bitmap_size')
      BY <2>1, <2>4, <2>5, <3>2, OneOwner
    <3> QED BY <3>1, <3>2
  <2>8. MapOK'
    BY <2>2, <2>3, <2>7 DEF MapOK, Grants
  <2>13. bitmap_size' * BYTE \in Nat /\ size64' * WORD \in Nat
    <3>1. \A x, y \in Nat : x * y \in Nat
      OBVIOUS
    <3> QED BY <2>4, <3>1, SizesAssumption
  <2>9. ASSUME NEW p \in Nat, p < total_pages'
        PROVE  p \in bitmap' <=> ~Grantable(p)'
    <3>1. total_pages' <= bitmap_size' * BYTE /\ bitmap_size' * BYTE \in Nat
      BY <2>3, <2>4, <2>13
    <3>2. p \in UsablePages <=> \E e \in Of(memmap, "USABLE") : Covers(e, p)
      BY <2>1, WithinCovers DEF UsablePages
    <3>3. p \in PagesTouching(kernel_start', kernel_end')
            <=> Meets(p, kernel_start', kernel_end')
      BY <2>6, TouchingMeets
    <3>4. p \in PagesTouching(bitmap_phys', bitmap_phys' + bitmap_size')
            <=> Meets(p, bitmap_phys', bitmap_phys' + bitmap_size')
      BY <2>4, <2>5, TouchingMeets
    <3>5. p \in 0 .. bitmap_size' * BYTE - 1
      BY <2>3, <2>9, <3>1
    <3>6. ~(reclaims' > 0)
      BY <2>1, <2>2 DEF Fresh
    <3> QED BY <2>2, <3>2, <3>3, <3>4, <3>5, <3>6 DEF Grantable, BootBitmap
  <2>10. held' = {}
    BY <2>1, <2>2 DEF Fresh
  <2>11. bitmap' \subseteq 0 .. bitmap_size' * BYTE - 1
    <3>1. ASSUME NEW lo \in Nat, NEW hi \in Nat, NEW t \in Counted,
                 NEW e \in Of(memmap, t), hi <= End(e)
          PROVE  PagesTouching(lo, hi) \subseteq 0 .. bitmap_size' * BYTE - 1
      <4> SUFFICES ASSUME NEW p \in PagesTouching(lo, hi)
                   PROVE  p \in 0 .. bitmap_size' * BYTE - 1
        OBVIOUS
      <4>1. PageDown(lo) \in Nat /\ PageUp(hi) \in Nat
        BY PageBounds
      <4>2. p \in Nat
        BY <4>1 DEF PagesTouching
      <4>3. p * PAGE < hi /\ End(e) \in Nat
        BY <2>1, <4>2, TouchingMeets, EntryFacts DEF Meets
      <4>4. p < total_pages'
        BY <2>3, <3>1, <4>2, <4>3, SizesAssumption
      <4> QED BY <2>3, <2>4, <2>13, <4>2, <4>4
    <3>2. PagesTouching(kernel_start', kernel_end') \subseteq 0 .. bitmap_size' * BYTE - 1
      BY <2>6, <3>1 DEF Counted
    <3>3. PagesTouching(bitmap_phys', bitmap_phys' + bitmap_size')
            \subseteq 0 .. bitmap_size' * BYTE - 1
      BY <2>4, <2>5, <3>1 DEF Counted
    <3> QED BY <2>2, <3>2, <3>3 DEF BootBitmap
  <2>12. Conserved'
    <3> PICK total \in Nat : total_pages' = total
      BY <2>3
    <3>1. Reserved' = {p \in 0 .. total - 1 : p \in bitmap'}
      BY <2>9 DEF Reserved
    <3>2. \A p \in Nat : p \in bitmap' /\ p < total_pages' => p \in Reserved'
      BY <3>1
    <3>3. bitmap' \subseteq Nat
      BY <2>11, <2>13
    <3>4. Lost' = {}
      BY <3>2, <3>3 DEF Lost
    <3> QED BY <2>10, <3>1, <3>4 DEF Conserved
  <2>14. BitmapFits'
    BY <2>2, <2>4, <2>5, <2>11 DEF BitmapFits
  <2>15. TypeOK'
    <3>1. bitmap' \subseteq Nat /\ held' \subseteq Nat
      BY <2>10, <2>11, <2>13
    <3>2. hint' \in 0 .. size64'
      BY <2>1, <2>2, <2>4 DEF Fresh
    <3>3. BootFields'
      BY <2>1, <2>2, <2>3, <2>4, <2>5, <2>6 DEF BootFields, Fresh
    <3> QED BY <2>2, <3>1, <3>2, <3>3 DEF TypeOK, IInv
  <2>16. Fresh'
    BY <2>2 DEF Fresh
  <2> QED BY <2>8, <2>12, <2>14, <2>15, <2>16 DEF IInv
<1> QED BY <1>1, <1>2

(***************************************************************************)
(* Allocation                                                              *)
(***************************************************************************)
LEMMA FreePagesFacts ==
  ASSUME IInv, NEW p \in FreePages
  PROVE  p \in Nat /\ p < total_pages /\ p \notin bitmap /\ p \notin held
<1>1. initialized
  BY DEF FreePages, IInv, Fresh
<1> QED BY <1>1 DEF IInv, Conserved, TypeOK, BootFields, FreePages

\* What either search yields: a run of free pages.
LEMMA CandidateRun ==
  ASSUME NEW from, NEW hi, NEW n, NEW s \in TwoPasses(from, hi, n)
  PROVE  Run(s, n) \subseteq FreePages
BY DEF TwoPasses, FreeRuns

LEMMA TakeInv ==
  ASSUME IInv, initialized, NEW n \in Nat \ {0}, NEW s \in Nat,
         Run(s, n) \subseteq FreePages, Take(s, n), hint' \in 0 .. size64
  PROVE  IInv'
<1> USE DEF fixed
<1>1. \A p \in Run(s, n) : p \in Nat /\ p < total_pages /\ p \notin bitmap /\ p \notin held
  BY FreePagesFacts
<1>2. s \in Run(s, n)
  BY DEF Run
<1>3. /\ bitmap' = bitmap \cup Run(s, n)
      /\ held' = IF s = NULL THEN held ELSE held \cup Run(s, n)
      /\ UNCHANGED <<memmap, kernel_start, kernel_end, total_pages, bitmap_size,
                     bitmap_phys, bootloader_cr3, initialized, reclaims>>
  BY DEF Take
<1>4. Reserved' = Reserved /\ size64' = size64
  BY <1>3 DEF Reserved, Grantable, size64
<1>5. TypeOK'
  <2>1. answer' \in [count : Nat, page : Nat]
    BY DEF Take, Answer
  <2>2. bitmap' \subseteq Nat /\ held' \subseteq Nat
    BY <1>1, <1>3 DEF IInv, TypeOK
  <2> QED BY <1>3, <1>4, <2>1, <2>2 DEF Take, IInv, TypeOK, BootFields
<1>6. BitmapFits'
  <2>1. total_pages <= bitmap_size * BYTE /\ bitmap_size * BYTE \in Nat
    <3>1. bitmap_size \in Nat /\ total_pages \in Nat /\ size64 \in Nat
      BY WordBounds DEF IInv, TypeOK, BootFields, size64
    <3>2. \A x, y \in Nat : x * y \in Nat
      OBVIOUS
    <3>3. bitmap_size * BYTE \in Nat /\ size64 * WORD \in Nat
      BY <3>1, <3>2, SizesAssumption
    <3>4. total_pages <= size64 * WORD /\ size64 * WORD <= bitmap_size * BYTE
      BY DEF IInv, BitmapFits
    <3> QED BY <3>1, <3>3, <3>4
  <2>2. Run(s, n) \subseteq 0 .. bitmap_size * BYTE - 1
    <3> SUFFICES ASSUME NEW p \in Run(s, n) PROVE p \in 0 .. bitmap_size * BYTE - 1
      OBVIOUS
    <3>1. total_pages \in Nat /\ p \in Nat /\ p < total_pages
      BY <1>1 DEF IInv, TypeOK, BootFields
    <3> QED BY <2>1, <3>1
  <2> QED BY <1>3, <1>4, <2>2 DEF IInv, BitmapFits
<1>7. Conserved'
  <2>1. Reserved \cup held \subseteq bitmap /\ held \cap Reserved = {}
        /\ held \subseteq 0 .. total_pages - 1
        /\ (Lost # {} => NULL \in Lost)
    BY DEF IInv, Conserved
  <2>2. held' \subseteq held \cup Run(s, n)
    BY <1>3
  <2>3. total_pages \in Nat
    BY DEF IInv, TypeOK, BootFields
  <2>4. Reserved' \cup held' \subseteq bitmap'
    BY <1>3, <1>4, <2>1, <2>2
  <2>5. held' \cap Reserved' = {}
    BY <1>1, <1>4, <2>1, <2>2
  <2>6. held' \subseteq 0 .. total_pages' - 1
    <3> SUFFICES ASSUME NEW p \in held' PROVE p \in 0 .. total_pages - 1
      BY <1>3
    <3> QED BY <1>1, <2>1, <2>2, <2>3
  <2>7. Lost' # {} => NULL \in Lost'
    <3>1. CASE s # NULL
      <4>1. held' = held \cup Run(s, n)
        BY <1>3, <3>1
      <4>2. Lost' = Lost
        BY <1>1, <1>3, <1>4, <2>1, <4>1 DEF Lost
      <4> QED BY <2>1, <4>2
    <3>2. CASE s = NULL
      BY <1>1, <1>2, <1>3, <1>4, <2>1, <3>2 DEF Lost
    <3> QED BY <3>1, <3>2
  <2> QED BY <2>4, <2>5, <2>6, <2>7 DEF Conserved
<1>8. MapOK' /\ Fresh'
  BY <1>3 DEF IInv, MapOK, Fresh
<1> QED BY <1>5, <1>6, <1>7, <1>8 DEF IInv

LEMMA NullInv ==
  ASSUME IInv, NEW n \in Nat, ReturnNull(n), initialized \/ n = 0 PROVE IInv'
<1>1. answer' \in [count : Nat, page : Nat]
  BY DEF ReturnNull, Answer, NULL
<1> QED BY <1>1 DEF ReturnNull, fixed, IInv, TypeOK, BootFields, size64, BitmapFits,
       Conserved, Reserved, Lost, Grantable, MapOK, Fresh

\* Every search looks at all the pages there are.
LEMMA SearchCoversMemory ==
  ASSUME IInv, initialized
  PROVE  /\ size64 \in Nat /\ size64 * WORD \in Nat
         /\ total_pages \in Nat /\ total_pages <= size64 * WORD
         /\ hint \in Nat /\ hint * WORD \in Nat
<1>1. bitmap_size \in Nat /\ total_pages \in Nat /\ total_pages <= size64 * WORD
  BY DEF IInv, TypeOK, BootFields, BitmapFits
<1>2. size64 \in Nat
  BY <1>1, WordBounds DEF size64
<1>3. hint \in Nat
  BY <1>2 DEF IInv, TypeOK
<1> QED BY <1>1, <1>2, <1>3, SizesAssumption

\* A candidate is a page number, whichever pass found it.
LEMMA CandidateNat ==
  ASSUME IInv, NEW from \in Nat, NEW hi \in Nat, NEW n \in Nat \ {0},
         NEW s \in TwoPasses(from, hi, n)
  PROVE  s \in Nat /\ s \in FreePages /\ s + n <= total_pages
<1>1. Run(s, n) \subseteq FreePages
  BY CandidateRun
<1>2. s \in Nat
  BY DEF TwoPasses, FreeRuns
<1>3. s \in Run(s, n) /\ s + n - 1 \in Run(s, n)
  BY <1>2 DEF Run
<1>4. s + n - 1 < total_pages /\ total_pages \in Nat
  BY <1>1, <1>3, FreePagesFacts DEF IInv, TypeOK, BootFields
<1> QED BY <1>1, <1>2, <1>3, <1>4

LEMMA AllocPageInv == ASSUME IInv, pmm_alloc_page PROVE IInv'
<1> DEFINE from == (IF hint >= size64 THEN 0 ELSE hint) * WORD
           hi == size64 * WORD
<1>1. CASE ~initialized
  BY <1>1, PanicInv DEF pmm_alloc_page
<1>2. ASSUME initialized PROVE IInv'
  <2>1. CASE ReturnNull(1)
    BY <1>2, <2>1, NullInv
  <2>2. ASSUME NEW page \in TwoPasses(from, hi, 1), Take(page, 1), hint' = page \div WORD
        PROVE  IInv'
    <3>1. from \in Nat /\ hi \in Nat /\ size64 \in Nat
      BY <1>2, SearchCoversMemory, SizesAssumption
    <3> HIDE DEF from
    <3>2. page \in Nat /\ page + 1 <= total_pages
      BY <2>2, <3>1, CandidateNat
    <3>3. page < size64 * WORD
      BY <1>2, <3>2, SearchCoversMemory
    <3>4. hint' \in 0 .. size64
      BY <2>2, <3>1, <3>2, <3>3, WordBounds
    <3>5. Run(page, 1) \subseteq FreePages
      BY <2>2, CandidateRun
    <3> QED BY <1>2, <2>2, <3>2, <3>4, <3>5, TakeInv
  <2> QED BY <1>2, <2>1, <2>2 DEF pmm_alloc_page
<1> QED BY <1>1, <1>2

LEMMA AllocPagesInv ==
  ASSUME IInv, NEW count \in Nat, pmm_alloc_pages(count) PROVE IInv'
<1> DEFINE from == IF hint * WORD >= total_pages THEN 0 ELSE hint * WORD
<1>1. CASE count = 0
  BY <1>1, NullInv DEF pmm_alloc_pages
<1>2. CASE count = 1
  BY <1>2, AllocPageInv DEF pmm_alloc_pages
<1>3. CASE ~initialized /\ count \notin {0, 1}
  BY <1>3, PanicInv DEF pmm_alloc_pages
<1>4. ASSUME initialized, count \notin {0, 1} PROVE IInv'
  <2>1. CASE ReturnNull(count)
    BY <1>4, <2>1, NullInv
  <2>2. ASSUME NEW start \in TwoPasses(from, total_pages, count), Take(start, count),
               hint' = (start + count) \div WORD
        PROVE  IInv'
    <3>1. from \in Nat /\ total_pages \in Nat /\ size64 \in Nat
      BY <1>4, SearchCoversMemory
    <3> HIDE DEF from
    <3>2. start \in Nat /\ start + count <= total_pages
      BY <1>4, <2>2, <3>1, CandidateNat
    <3>3. start + count <= size64 * WORD
      BY <1>4, <3>2, SearchCoversMemory
    <3>4. hint' \in 0 .. size64
      BY <2>2, <3>1, <3>2, <3>3, WordBounds
    <3>5. Run(start, count) \subseteq FreePages
      BY <2>2, CandidateRun
    <3> QED BY <1>4, <2>2, <3>2, <3>4, <3>5, TakeInv
  <2> QED BY <1>4, <2>1, <2>2 DEF pmm_alloc_pages
<1> QED BY <1>1, <1>2, <1>3, <1>4

(***************************************************************************)
(* Freeing                                                                 *)
(***************************************************************************)

\* Clearing pages that were set and that callers could free returns pages
\* that were held, and nothing else.
LEMMA ClearInv ==
  ASSUME IInv, initialized, NEW pages, pages \subseteq bitmap, Freeable(pages),
         \A p \in pages : p < total_pages,
         Clear(pages), hint' \in 0 .. size64, panicked' \in BOOLEAN,
         UNCHANGED <<fixed, initialized, cr3, reclaims, answer>>
  PROVE  IInv'
<1> USE DEF fixed
<1>1. pages \subseteq held
  <2> SUFFICES ASSUME NEW p \in pages PROVE p \in held
    OBVIOUS
  <2>1. p \in Nat /\ total_pages \in Nat
    BY DEF IInv, TypeOK, BootFields
  <2> QED BY <2>1 DEF Freeable
<1>2. Reserved' = Reserved /\ size64' = size64
  BY DEF Reserved, Grantable, size64
<1>3. bitmap' = bitmap \ pages /\ held' = held \ pages
  BY DEF Clear
<1>4. Reserved \cup held \subseteq bitmap /\ held \cap Reserved = {}
      /\ held \subseteq 0 .. total_pages - 1 /\ (Lost # {} => NULL \in Lost)
  BY DEF IInv, Conserved
<1>5. Lost' = Lost
  BY <1>1, <1>2, <1>3, <1>4 DEF Lost
<1>6. Conserved'
  BY <1>1, <1>2, <1>3, <1>4, <1>5 DEF Conserved
<1>7. TypeOK'
  BY <1>2, <1>3 DEF IInv, TypeOK, BootFields
<1>8. BitmapFits'
  BY <1>2, <1>3 DEF IInv, BitmapFits
<1> QED BY <1>6, <1>7, <1>8 DEF IInv, MapOK, Fresh

LEMMA LowerHintRange ==
  ASSUME IInv, NEW page \in Nat, LowerHint(page) PROVE hint' \in 0 .. size64
<1>1. size64 \in Nat /\ hint \in 0 .. size64
  BY WordBounds DEF IInv, TypeOK, BootFields, size64
<1>2. page \div WORD \in Nat
  BY SizesAssumption
<1> QED BY <1>1, <1>2 DEF LowerHint

LEMMA FreePageInv ==
  ASSUME IInv, NEW addr \in Nat, pmm_free_page(addr) PROVE IInv'
<1> DEFINE page == addr \div PAGE
<1>1. CASE kernel_panic
  BY <1>1, PanicInv
<1>2. ASSUME ~kernel_panic PROVE IInv'
  <2>1. page \in Nat /\ total_pages \in Nat
    BY SizesAssumption DEF IInv, TypeOK, BootFields
  <2>2. /\ initialized /\ page \in bitmap /\ ~(page >= total_pages)
        /\ Freeable({page}) /\ Clear({page}) /\ LowerHint(page)
        /\ UNCHANGED <<fixed, initialized, cr3, reclaims, answer, panicked>>
    BY <1>2 DEF pmm_free_page
  <2>3. hint' \in 0 .. size64 /\ panicked' \in BOOLEAN
    BY <2>1, <2>2, LowerHintRange DEF IInv, TypeOK
  <2>4. \A p \in {page} : p < total_pages
    BY <2>1, <2>2
  <2> QED BY <2>2, <2>3, <2>4, ClearInv
<1> QED BY <1>1, <1>2

LEMMA FreePagesInv ==
  ASSUME IInv, NEW addr \in Nat, NEW count \in Nat, pmm_free_pages(addr, count)
  PROVE  IInv'
<1> DEFINE start == addr \div PAGE
           run == Run(start, count)
           twice == run \ bitmap
<1>1. CASE kernel_panic
  BY <1>1, PanicInv
<1>2. ASSUME ~kernel_panic PROVE IInv'
  <2>1. start \in Nat /\ total_pages \in Nat
    BY SizesAssumption DEF IInv, TypeOK, BootFields
  <2>2. /\ initialized /\ ~(start + count > total_pages) /\ Freeable(run)
        /\ UNCHANGED <<fixed, initialized, cr3, reclaims, answer>>
    BY <1>2 DEF pmm_free_pages
  <2>3. \A p \in run : p \in Nat /\ p < total_pages
    BY <2>1, <2>2 DEF Run
  <2>4. CASE twice = {}
    <3>1. Clear(run) /\ LowerHint(start) /\ UNCHANGED panicked
      BY <1>2, <2>4 DEF pmm_free_pages
    <3>2. hint' \in 0 .. size64 /\ panicked' \in BOOLEAN
      BY <2>1, <3>1, LowerHintRange DEF IInv, TypeOK
    <3>3. run \subseteq bitmap
      BY <2>4
    <3> QED BY <2>2, <2>3, <3>1, <3>2, <3>3, ClearInv
  <2>5. CASE twice # {}
    <3>1. PICK t \in twice : IsLowest(t, twice) /\ Clear(start .. t - 1)
      BY <1>2, <2>5 DEF pmm_free_pages
    <3>2. panicked' = TRUE /\ UNCHANGED hint
      BY <1>2, <2>5 DEF pmm_free_pages
    <3>3. hint' \in 0 .. size64
      BY <3>2 DEF IInv, TypeOK
    <3>4. t \in Nat /\ t < start + count
      BY <2>1, <3>1 DEF Run
    <3>5. \A p \in start .. t - 1 : p \in run
      BY <2>1, <3>4 DEF Run
    <3>6. \A p \in start .. t - 1 : p \in Nat /\ ~(t <= p)
      BY <2>1, <3>4
    <3>7. start .. t - 1 \subseteq bitmap
      BY <3>1, <3>5, <3>6 DEF IsLowest
    <3>8. Freeable(start .. t - 1)
      BY <2>2, <3>5 DEF Freeable
    <3> QED BY <2>2, <2>3, <3>1, <3>2, <3>3, <3>5, <3>7, <3>8, ClearInv
  <2> QED BY <2>4, <2>5
<1> QED BY <1>1, <1>2

(***************************************************************************)
(* Giving up the bootloader's memory                                       *)
(***************************************************************************)
LEMMA ReclaimableCovered ==
  ASSUME memmap \in MemMaps, NEW p \in Nat
  PROVE  p \in ReclaimablePages
           <=> \E e \in Of(memmap, "BOOTLOADER_RECLAIMABLE") : Covers(e, p)
BY TouchingCovers DEF ReclaimablePages, Grants

\* A page of the bootloader's memory lies in no usable entry.
LEMMA ReclaimableNotUsable ==
  ASSUME memmap \in MemMaps, NEW p \in Nat,
         NEW e \in Of(memmap, "BOOTLOADER_RECLAIMABLE"), Covers(e, p),
         NEW f \in Of(memmap, "USABLE")
  PROVE  ~Covers(f, p)
<1>1. f.base \in Nat /\ End(f) \in Nat /\ e.base \in Nat /\ End(e) \in Nat
  BY EntryFacts
<1>2. ~Meets(p, f.base, End(f))
  BY <1>1, OneOwner DEF Grants
<1>3. p * PAGE \in Nat /\ (p + 1) * PAGE \in Nat /\ p * PAGE < (p + 1) * PAGE
  BY SizesAssumption
<1> QED BY <1>1, <1>2, <1>3 DEF Meets, Covers

LEMMA ReclaimInv == ASSUME IInv, pmm_reclaim_bootloader_memory PROVE IInv'
<1>1. CASE kernel_panic
  BY <1>1, PanicInv
<1>2. ASSUME ~kernel_panic PROVE IInv'
  <2>1. /\ initialized /\ reclaims < MaxReclaims
        /\ bitmap' = bitmap \ {p \in ReclaimablePages : p < total_pages}
        /\ hint' = 0 /\ reclaims' = reclaims + 1
        /\ UNCHANGED <<fixed, initialized, cr3, held, answer, panicked>>
    BY <1>2 DEF pmm_reclaim_bootloader_memory
  <2>2. memmap \in MemMaps /\ reclaims = 0 /\ reclaims' = 1 /\ reclaims' \in 0 .. MaxReclaims
    BY <2>1, CallsAssumption DEF IInv, TypeOK
  <2>3. /\ Reserved \cup held \subseteq bitmap /\ held \cap Reserved = {}
        /\ held \subseteq 0 .. total_pages - 1 /\ (Lost # {} => NULL \in Lost)
        /\ total_pages \in Nat /\ bitmap \subseteq Nat
    BY <2>1 DEF IInv, Conserved, TypeOK, BootFields
  <2> DEFINE Usable(p) == \E e \in Of(memmap, "USABLE") : Covers(e, p)
             Given(p) == \E e \in Of(memmap, "BOOTLOADER_RECLAIMABLE") : Covers(e, p)
  <2>4. \A p \in Nat : Given(p) =>
          p < total_pages /\ ~Usable(p) /\ ~Grantable(p) /\ Grantable(p)'
    <3> SUFFICES ASSUME NEW p \in Nat, NEW e \in Of(memmap, "BOOTLOADER_RECLAIMABLE"),
                        Covers(e, p)
                 PROVE  p < total_pages /\ ~Usable(p) /\ ~Grantable(p) /\ Grantable(p)'
      OBVIOUS
    <3>1. /\ p < total_pages /\ ~Meets(p, kernel_start, kernel_end)
          /\ ~Meets(p, bitmap_phys, bitmap_phys + bitmap_size)
      BY <2>1 DEF IInv, MapOK, Grants
    <3>2. ~Usable(p)
      BY <2>2, ReclaimableNotUsable
    <3>3. ~Grantable(p)
      BY <2>2, <3>2 DEF Grantable
    <3>4. Grantable(p)'
      BY <2>1, <2>2, <3>1 DEF Grantable, fixed
    <3> QED BY <3>1, <3>2, <3>3, <3>4
  <2>5. \A p \in Nat : ~Given(p) => (Grantable(p) <=> Grantable(p)')
    BY <2>1, <2>2 DEF Grantable, fixed
  <2>6. \A p \in Nat : p \in bitmap' <=> p \in bitmap /\ ~Given(p)
    BY <2>1, <2>2, <2>4, ReclaimableCovered
  <2> HIDE DEF Usable, Given
  <2>7. total_pages' = total_pages /\ held' = held
    BY <2>1 DEF fixed
  <2>8. \A p \in Nat : p \in Reserved' <=> p \in Reserved /\ ~Given(p)
    BY <2>3, <2>4, <2>5, <2>7 DEF Reserved
  <2>9. \A p \in held : p \in Nat /\ p \notin Reserved /\ ~Given(p)
    BY <2>3, <2>4 DEF Reserved
  <2>10. Reserved \subseteq Nat /\ Reserved' \subseteq Nat /\ bitmap' \subseteq bitmap
    BY <2>1, <2>3, <2>7 DEF Reserved
  <2>11. \A p \in Nat : p \in Lost' <=> p \in Lost
    <3>1. \A p \in Nat : p \in Lost => ~Given(p)
      BY <2>3, <2>4 DEF Lost, Reserved
    <3>2. \A p \in Nat : p \in Lost <=>
            p \in bitmap /\ p < total_pages /\ p \notin Reserved /\ p \notin held
      BY DEF Lost
    <3>3. \A p \in Nat : p \in Lost' <=>
            p \in bitmap' /\ p < total_pages /\ p \notin Reserved' /\ p \notin held
      BY <2>7 DEF Lost
    <3> QED BY <2>6, <2>8, <3>1, <3>2, <3>3
  <2>12. Lost \subseteq Nat /\ Lost' \subseteq Nat
    BY <2>3, <2>10 DEF Lost
  <2>13. Lost' = Lost
    BY <2>11, <2>12
  <2>14. Reserved' \cup held' \subseteq bitmap'
    BY <2>3, <2>6, <2>7, <2>8, <2>9, <2>10
  <2>15. held' \cap Reserved' = {} /\ held' \subseteq 0 .. total_pages' - 1
    BY <2>3, <2>7, <2>8, <2>9
  <2>16. Conserved'
    BY <2>3, <2>13, <2>14, <2>15 DEF Conserved
  <2>17. TypeOK' /\ BitmapFits'
    <3>1. size64' = size64 /\ size64 \in Nat
      BY <2>1, SearchCoversMemory DEF fixed, size64
    <3>2. hint' \in 0 .. size64'
      BY <2>1, <3>1
    <3>3. bitmap' \subseteq Nat
      BY <2>3, <2>10
    <3> QED BY <2>1, <2>2, <2>10, <3>1, <3>2, <3>3
            DEF fixed, IInv, TypeOK, BootFields, BitmapFits
  <2>18. MapOK' /\ Fresh'
    BY <2>1 DEF fixed, IInv, MapOK, Fresh
  <2> QED BY <2>16, <2>17, <2>18 DEF IInv
<1> QED BY <1>1, <1>2

LEMMA SwitchInv == ASSUME IInv, set_current_cr3 PROVE IInv'
BY DEF set_current_cr3, fixed, IInv, TypeOK, BootFields, size64, BitmapFits,
       Conserved, Reserved, Lost, Grantable, MapOK, Fresh

(***************************************************************************)
(* The theorems                                                            *)
(***************************************************************************)
LEMMA NextInv == IInv /\ [Next]_vars => IInv'
<1> SUFFICES ASSUME IInv, [Next]_vars PROVE IInv'
  OBVIOUS
<1>1. CASE pmm_init
  BY <1>1, BootInv
<1>2. CASE pmm_alloc_page
  BY <1>2, AllocPageInv
<1>3. ASSUME NEW n \in Counts, pmm_alloc_pages(n) PROVE IInv'
  BY <1>3, AllocPagesInv, CallsAssumption
<1>4. ASSUME NEW a \in Addrs, pmm_free_page(a) PROVE IInv'
  BY <1>4, FreePageInv, CallsAssumption
<1>5. ASSUME NEW a \in Addrs, NEW n \in Counts, pmm_free_pages(a, n) PROVE IInv'
  BY <1>5, FreePagesInv, CallsAssumption
<1>6. CASE pmm_reclaim_bootloader_memory
  BY <1>6, ReclaimInv
<1>7. CASE set_current_cr3
  BY <1>7, SwitchInv
<1>8. CASE UNCHANGED vars
  BY <1>8 DEF vars, fixed, IInv, TypeOK, BootFields, size64, BitmapFits,
       Conserved, Reserved, Lost, Grantable, MapOK, Fresh
<1> QED BY <1>1, <1>2, <1>3, <1>4, <1>5, <1>6, <1>7, <1>8 DEF Next, Running, Halted

\* The inductive invariant holds in every reachable state.
LEMMA Invariance == Spec => []IInv
<1> QED BY InitInv, NextInv, PTL DEF Spec

\* Type correctness: in particular the hint never points beyond the word after
\* the bitmap's last, whatever was allocated and freed.
THEOREM PmmTypeOK == Spec => []TypeOK
<1>1. IInv => TypeOK
  BY DEF IInv
<1> QED BY <1>1, Invariance, PTL

\* For every memory map the Limine protocol allows, a set bit is a reserved
\* page or a page a caller holds: pmm.c never grants the kernel image, the
\* bitmap, a hole of the map or a page twice, and never loses a page but
\* through page 0.
THEOREM PmmConserved == Spec => []Conserved
<1>1. IInv => Conserved
  BY DEF IInv
<1> QED BY <1>1, Invariance, PTL

\* The bitmap's size, with its rounding to words and its extra byte, is always
\* enough, and the bitmap stays inside the memory it was given.
THEOREM PmmBitmapFits == Spec => []BitmapFits
<1>1. IInv => BitmapFits
  BY DEF IInv
<1> QED BY <1>1, Invariance, PTL

(***************************************************************************)
(* pmm.c implements PageAllocator                                          *)
(***************************************************************************)

\* When no entry that may be granted holds page 0, page 0 is never free.
LEMMA FreeFrames ==
  ASSUME IInv, \A info \in MemMaps : FirstPageReserved(info)
  PROVE  FreePages \subseteq PA!Frames \ held
<1> SUFFICES ASSUME NEW p \in FreePages PROVE p \in PA!Frames /\ p \notin held
  OBVIOUS
<1>1. p \in Nat /\ p < total_pages /\ p \notin bitmap /\ p \notin held
  BY FreePagesFacts
<1>2. initialized /\ total_pages \in Nat /\ memmap \in MemMaps
  BY DEF FreePages, IInv, Fresh, TypeOK, BootFields
<1>3. Grantable(p)
  BY <1>1, <1>2 DEF IInv, Conserved, Reserved
<1>4. PICK t \in Grants : \E e \in Of(memmap, t) : Covers(e, p)
  BY <1>3 DEF Grantable, Grants
<1> PICK e \in Of(memmap, t) : Covers(e, p)
  BY <1>4
<1>5. e.base > 0 /\ e.base \in Nat
  <2>1. PICK i \in DOMAIN memmap.entries : e = memmap.entries[i] /\ e.type = t
    BY DEF Of
  <2>2. MayBeGranted(memmap.entries[i])
    BY <2>1 DEF MayBeGranted, Grants
  <2> QED BY <1>2, <2>1, <2>2, EntryFacts DEF FirstPageReserved
<1>6. p # 0
  BY <1>5, SizesAssumption DEF Covers
<1> QED BY <1>1, <1>6 DEF PA!Frames, PA!NULL

LEMMA FreeFramesInv ==
  IInv /\ (\A info \in MemMaps : FirstPageReserved(info))
    => FreePages \subseteq PA!Frames \ held
BY FreeFrames

LEMMA TakeGrants ==
  ASSUME IInv, \A info \in MemMaps : FirstPageReserved(info),
         NEW n \in Nat \ {0}, NEW s \in FreePages,
         Run(s, n) \subseteq FreePages, Take(s, n)
  PROVE  PA!Grant(n)
<1>1. s # NULL
  BY FreeFrames DEF PA!Frames, PA!NULL, NULL
<1>2. FreePages' = FreePages \ Run(s, n)
  BY DEF FreePages, Take, fixed
<1> QED BY <1>1, <1>2 DEF PA!Grant, PA!Run, PA!Answer, Run, Answer, Take

\* The two passes miss a run only when it straddles the hint, and of 2n - 1
\* pages that straddle it, n lie on one side.
LEMMA TwoPassesRefuse ==
  ASSUME IInv, initialized, NEW from \in Nat, NEW hi \in Nat, total_pages <= hi,
         NEW n \in Nat \ {0}, TwoPasses(from, hi, n) = {},
         NEW s \in FreePages, Run(s, 2 * n - 1) \subseteq FreePages
  PROVE  FALSE
<1>1. FreeRuns(from, hi, n) = {} /\ FreeRuns(0, from, n) = {}
  BY DEF TwoPasses
<1>2. s \in Nat /\ total_pages \in Nat
  BY FreePagesFacts DEF IInv, TypeOK, BootFields
<1>3. s + 2 * n - 2 < total_pages
  <2>1. s + 2 * n - 2 \in Run(s, 2 * n - 1)
    BY <1>2 DEF Run
  <2> QED BY <2>1, FreePagesFacts
<1>4. Run(s, n) \subseteq Run(s, 2 * n - 1) /\ Run(s + n - 1, n) \subseteq Run(s, 2 * n - 1)
  BY <1>2 DEF Run
<1>5. CASE s + n <= from
  <2>1. s \in 0 .. from - n
    BY <1>2, <1>5
  <2> QED BY <1>1, <1>4, <2>1 DEF FreeRuns
<1>6. CASE s + n > from
  <2>1. s + n - 1 \in from .. hi - n
    BY <1>2, <1>3, <1>6
  <2> QED BY <1>1, <1>4, <2>1 DEF FreeRuns
<1> QED BY <1>2, <1>5, <1>6

LEMMA NullRefuses ==
  ASSUME IInv, NEW n \in Nat, ReturnNull(n),
         n > 0 => /\ initialized
                  /\ \E from, hi \in Nat :
                       total_pages <= hi /\ TwoPasses(from, hi, n) = {}
  PROVE  PA!Refuse(n)
<1>1. n > 0 => \A s \in FreePages : ~(PA!Run(s, 2 * n - 1) \subseteq FreePages)
  BY TwoPassesRefuse DEF PA!Run, Run
<1>2. UNCHANGED <<FreePages, held, panicked>> /\ answer' = PA!Answer(n, PA!NULL)
  BY DEF ReturnNull, FreePages, fixed, PA!Answer, Answer, PA!NULL, NULL
<1> QED BY <1>1, <1>2 DEF PA!Refuse

LEMMA PanicGivesBack == ASSUME kernel_panic PROVE PA!GiveBack
BY DEF kernel_panic, fixed, FreePages, PA!GiveBack

LEMMA ClearGivesBack ==
  ASSUME IInv, initialized, NEW pages, pages \subseteq bitmap, Freeable(pages),
         \A p \in pages : p \in Nat /\ p < total_pages,
         Clear(pages), UNCHANGED <<fixed, answer>>, panicked' \in {panicked, TRUE}
  PROVE  PA!GiveBack
<1>1. pages \subseteq held
  <2> SUFFICES ASSUME NEW p \in pages PROVE p \in held
    OBVIOUS
  <2>1. p \in Nat /\ total_pages \in Nat
    BY DEF IInv, TypeOK, BootFields
  <2> QED BY <2>1 DEF Freeable
<1>2. total_pages \in Nat
  BY DEF IInv, TypeOK, BootFields
<1>3. FreePages' = FreePages \cup pages
  BY <1>2 DEF FreePages, Clear, fixed
<1>4. held \ held' = pages /\ held' \subseteq held
  BY <1>1 DEF Clear
<1> QED BY <1>3, <1>4 DEF PA!GiveBack

LEMMA AllocPageRefines ==
  ASSUME IInv, \A info \in MemMaps : FirstPageReserved(info), pmm_alloc_page
  PROVE  PA!GiveBack \/ PA!Grant(1) \/ PA!Refuse(1)
<1> DEFINE from == (IF hint >= size64 THEN 0 ELSE hint) * WORD
           hi == size64 * WORD
<1>1. CASE ~initialized
  BY <1>1, PanicGivesBack DEF pmm_alloc_page
<1>2. ASSUME initialized PROVE PA!Grant(1) \/ PA!Refuse(1)
  <2>1. from \in Nat /\ hi \in Nat /\ total_pages <= hi
    BY <1>2, SearchCoversMemory, SizesAssumption
  <2>2. ASSUME NEW page \in TwoPasses(from, hi, 1), Take(page, 1) PROVE PA!Grant(1)
    <3> HIDE DEF from, hi
    <3> QED BY <2>1, <2>2, CandidateNat, CandidateRun, TakeGrants
  <2>3. ASSUME TwoPasses(from, hi, 1) = {}, ReturnNull(1) PROVE PA!Refuse(1)
    <3> HIDE DEF from, hi
    <3> QED BY <1>2, <2>1, <2>3, NullRefuses
  <2> QED BY <1>2, <2>2, <2>3 DEF pmm_alloc_page
<1> QED BY <1>1, <1>2

LEMMA AllocPagesRefines ==
  ASSUME IInv, \A info \in MemMaps : FirstPageReserved(info),
         NEW n \in Counts, pmm_alloc_pages(n)
  PROVE  \/ PA!GiveBack
         \/ \E m \in Counts : m > 0 /\ PA!Grant(m)
         \/ \E m \in Counts : PA!Refuse(m)
<1> DEFINE from == IF hint * WORD >= total_pages THEN 0 ELSE hint * WORD
<1> n \in Nat /\ 1 \in Counts
  BY CallsAssumption
<1>1. CASE n = 0
  BY <1>1, NullRefuses DEF pmm_alloc_pages
<1>2. CASE n = 1
  BY <1>2, AllocPageRefines DEF pmm_alloc_pages
<1>3. CASE ~initialized /\ n \notin {0, 1}
  BY <1>3, PanicGivesBack DEF pmm_alloc_pages
<1>4. ASSUME initialized, n \notin {0, 1} PROVE PA!Grant(n) \/ PA!Refuse(n)
  <2>1. from \in Nat /\ total_pages \in Nat /\ total_pages <= total_pages
    BY <1>4, SearchCoversMemory
  <2>2. ASSUME NEW start \in TwoPasses(from, total_pages, n), Take(start, n)
        PROVE  PA!Grant(n)
    <3> HIDE DEF from
    <3> QED BY <1>4, <2>1, <2>2, CandidateNat, CandidateRun, TakeGrants
  <2>3. ASSUME TwoPasses(from, total_pages, n) = {}, ReturnNull(n) PROVE PA!Refuse(n)
    <3> HIDE DEF from
    <3> QED BY <1>4, <2>1, <2>3, NullRefuses
  <2> QED BY <1>4, <2>2, <2>3 DEF pmm_alloc_pages
<1> QED BY <1>1, <1>2, <1>3, <1>4

LEMMA FreePageRefines ==
  ASSUME IInv, NEW addr \in Nat, pmm_free_page(addr) PROVE PA!GiveBack
<1> DEFINE page == addr \div PAGE
<1>1. CASE kernel_panic
  BY <1>1, PanicGivesBack
<1>2. ASSUME ~kernel_panic PROVE PA!GiveBack
  <2>1. page \in Nat /\ total_pages \in Nat
    BY SizesAssumption DEF IInv, TypeOK, BootFields
  <2>2. /\ initialized /\ page \in bitmap /\ ~(page >= total_pages)
        /\ Freeable({page}) /\ Clear({page})
        /\ UNCHANGED <<fixed, answer>> /\ panicked' \in {panicked, TRUE}
    BY <1>2 DEF pmm_free_page
  <2>3. \A p \in {page} : p \in Nat /\ p < total_pages
    BY <2>1, <2>2
  <2> QED BY <2>2, <2>3, ClearGivesBack
<1> QED BY <1>1, <1>2

LEMMA FreePagesRefines ==
  ASSUME IInv, NEW addr \in Nat, NEW count \in Nat, pmm_free_pages(addr, count)
  PROVE  PA!GiveBack
<1> DEFINE start == addr \div PAGE
           run == Run(start, count)
           twice == run \ bitmap
<1>1. CASE kernel_panic
  BY <1>1, PanicGivesBack
<1>2. ASSUME ~kernel_panic PROVE PA!GiveBack
  <2>1. start \in Nat /\ total_pages \in Nat
    BY SizesAssumption DEF IInv, TypeOK, BootFields
  <2>2. /\ initialized /\ ~(start + count > total_pages) /\ Freeable(run)
        /\ UNCHANGED <<fixed, answer>> /\ panicked' \in {panicked, TRUE}
    BY <1>2 DEF pmm_free_pages
  <2>3. \A p \in run : p \in Nat /\ p < total_pages
    BY <2>1, <2>2 DEF Run
  <2>4. CASE twice = {}
    <3>1. Clear(run) /\ run \subseteq bitmap
      BY <1>2, <2>4 DEF pmm_free_pages
    <3> QED BY <2>2, <2>3, <3>1, ClearGivesBack
  <2>5. CASE twice # {}
    <3>1. PICK t \in twice : IsLowest(t, twice) /\ Clear(start .. t - 1)
      BY <1>2, <2>5 DEF pmm_free_pages
    <3>2. t \in Nat /\ t < start + count
      BY <2>1, <3>1 DEF Run
    <3>3. \A p \in start .. t - 1 : p \in run
      BY <2>1, <3>2 DEF Run
    <3>4. \A p \in start .. t - 1 : p \in Nat /\ ~(t <= p)
      BY <2>1, <3>2
    <3>5. start .. t - 1 \subseteq bitmap
      BY <3>1, <3>3, <3>4 DEF IsLowest
    <3>6. Freeable(start .. t - 1)
      BY <2>2, <3>3 DEF Freeable
    <3> QED BY <2>2, <2>3, <3>1, <3>3, <3>5, <3>6, ClearGivesBack
  <2> QED BY <2>4, <2>5
<1> QED BY <1>1, <1>2

\* Boot and the reclaim only add to the free pages.
LEMMA MemoryAdded ==
  ASSUME IInv, IInv', \A info \in MemMaps : FirstPageReserved(info),
         pmm_init \/ pmm_reclaim_bootloader_memory
  PROVE  PA!GiveBack \/ PA!AddMemory
<1>1. CASE kernel_panic
  BY <1>1, PanicGivesBack
<1>2. ASSUME ~kernel_panic PROVE PA!AddMemory
  <2>1. UNCHANGED <<held, answer, panicked>>
    BY <1>2 DEF pmm_init, pmm_reclaim_bootloader_memory
  <2>2. FreePages' \subseteq PA!Frames \ held'
    <3>1. (IInv /\ (\A info \in MemMaps : FirstPageReserved(info)))'
            => (FreePages \subseteq PA!Frames \ held)'
      BY FreeFramesInv, PTL
    <3>2. (\A info \in MemMaps : FirstPageReserved(info))'
      BY DEF FirstPageReserved, MayBeGranted
    <3> QED BY <3>1, <3>2
  <2>3. FreePages \subseteq FreePages'
    <3>1. CASE pmm_init
      <4>1. FreePages = {}
        BY <3>1 DEF pmm_init, IInv, Fresh, FreePages
      <4> QED BY <4>1
    <3>2. CASE pmm_reclaim_bootloader_memory
      BY <1>2, <3>2 DEF pmm_reclaim_bootloader_memory, FreePages, fixed
    <3> QED BY <3>1, <3>2
  <2> QED BY <2>1, <2>2, <2>3 DEF PA!AddMemory
<1> QED BY <1>1, <1>2

LEMMA StepRefines ==
  ASSUME IInv, IInv', \A info \in MemMaps : FirstPageReserved(info), [Next]_vars
  PROVE  [PA!PNext]_PA!pvars
<1>1. CASE UNCHANGED vars
  BY <1>1 DEF vars, fixed, FreePages, PA!pvars
<1>2. ASSUME ~panicked, Running PROVE PA!PNext \/ UNCHANGED PA!pvars
  <2>1. CASE pmm_init \/ pmm_reclaim_bootloader_memory
    BY <1>2, <2>1, MemoryAdded DEF PA!PNext
  <2>2. CASE pmm_alloc_page
    <3>1. 1 \in Counts
      BY CallsAssumption
    <3> QED BY <1>2, <2>2, <3>1, AllocPageRefines DEF PA!PNext
  <2>3. ASSUME NEW n \in Counts, pmm_alloc_pages(n) PROVE PA!PNext
    BY <1>2, <2>3, AllocPagesRefines DEF PA!PNext
  <2>4. ASSUME NEW a \in Addrs, pmm_free_page(a) PROVE PA!PNext
    BY <1>2, <2>4, FreePageRefines, CallsAssumption DEF PA!PNext
  <2>5. ASSUME NEW a \in Addrs, NEW n \in Counts, pmm_free_pages(a, n) PROVE PA!PNext
    BY <1>2, <2>5, FreePagesRefines, CallsAssumption DEF PA!PNext
  <2>6. CASE set_current_cr3
    BY <2>6 DEF set_current_cr3, fixed, FreePages, PA!pvars
  <2> QED BY <1>2, <2>1, <2>2, <2>3, <2>4, <2>5, <2>6 DEF Running
<1> QED BY <1>1, <1>2 DEF Next, Halted

LEMMA InitRefines == Init => PA!PInit
<1> SUFFICES ASSUME Init PROVE PA!PInit
  OBVIOUS
<1>1. FreePages = {}
  BY DEF Init, FreePages
<1> QED BY <1>1 DEF Init, PA!PInit, PA!Answer, Answer, PA!NULL, NULL

\* The bitmap, the hint and the two passes implement the abstract allocator:
\* every grant is of free pages of nobody's, every page freed can be granted
\* again, and a refusal means that no 2n - 1 adjacent pages are free.
THEOREM PmmImplements ==
  ASSUME \A info \in MemMaps : FirstPageReserved(info)
  PROVE  Spec => Implements
<1>1. Init => PA!PInit
  BY InitRefines
<1>2. IInv /\ IInv' /\ [Next]_vars => [PA!PNext]_PA!pvars
  BY StepRefines
<1> QED BY <1>1, <1>2, Invariance, PTL DEF Spec, Implements, PA!PSpec
====
