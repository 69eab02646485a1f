---- MODULE Heap ----
(***************************************************************************)
(* The kernel heap, kernel/memory/heap.c: a first-fit list of free blocks  *)
(* with headers in front of them, grown a number of pages at a time. Its   *)
(* callers run one after the other (nothing in an interrupt allocates, and *)
(* only kmain calls it once threads run), so a call is one step.           *)
(*                                                                         *)
(* Memory is modelled by who wrote it last: a header, or the owner of a    *)
(* block with its own mark, so that one's bytes in another's block show.   *)
(* The page allocator and vmm_map_page are seen through their outcomes: a  *)
(* page is mapped until the frames run out.                                *)
(***************************************************************************)
EXTENDS Integers, SequencesExt

CONSTANTS
  ALIGN, HEADER_SIZE, PAGE_SIZE,       \* 16, 32 and 4096 in the code
  HeapTop,                 \* bound: the heap is not grown past this address
  MaxFrames,               \* bound: frames the page allocator has at a time
  Sizes,                   \* sizes asked for
  Marks                    \* what owners write

NULL == -1
Zero == 0

ASSUME HeapAssumption ==
  /\ ALIGN \in Nat \ {0} /\ HEADER_SIZE \in Nat \ {0} /\ HEADER_SIZE % ALIGN = 0
  /\ PAGE_SIZE \in Nat \ {0} /\ PAGE_SIZE % ALIGN = 0
  /\ HeapTop \in Nat /\ HeapTop % PAGE_SIZE = 0
  /\ MaxFrames \in Nat /\ Sizes \subseteq Nat
  /\ Marks \subseteq Nat \ {Zero}

Address == 0 .. HeapTop - 1
Header == -1                           \* the mark of a header's bytes
Stale == -2                            \* of bytes nobody owns any more, or yet

VARIABLES
  header,                  \* address -> [size, is_free] of every block
  free_list,               \* the free blocks, first to last
  memory,                  \* address -> the mark last written there
  heap_current_virtual,
  mapped,                  \* the pages that are mapped
  frames,                  \* frames the page allocator has left
  live                     \* the callers' view: pointer -> [n, mark]

heap == <<header, free_list, memory, heap_current_virtual, mapped, frames>>
vars == <<heap, live>>

\* The state a call works on, as one value.
Heap == [header |-> header, free_list |-> free_list, memory |-> memory,
         brk |-> heap_current_virtual, mapped |-> mapped, frames |-> frames]
HeapBecomes(h) ==
  /\ header' = h.header /\ free_list' = h.free_list /\ memory' = h.memory
  /\ heap_current_virtual' = h.brk /\ mapped' = h.mapped /\ frames' = h.frames

Init ==
  /\ header = [b \in {} |-> 0] /\ free_list = <<>>
  /\ memory = [a \in Address |-> Stale]
  /\ heap_current_virtual = 0                    \* __heap_start, page aligned
  /\ mapped = {} /\ frames = MaxFrames
  /\ live = [p \in {} |-> 0]

Fill(m, p, n, mark) == [a \in Address |-> IF a \in p .. p + n - 1 THEN mark ELSE m[a]]

\* Write the header of a block.
Put(h, b, size, is_free) ==
  [h EXCEPT !.header = [x \in DOMAIN h.header \cup {b} |->
              IF x = b THEN [size |-> size, is_free |-> is_free] ELSE h.header[x]],
            !.memory = Fill(@, b, HEADER_SIZE, Header)]

\* Mutant: sizes are not rounded.
NotAligned(size) == size
Aligned(size) == ((size + ALIGN - 1) \div ALIGN) * ALIGN

pages_needed(size) == (size + HEADER_SIZE + PAGE_SIZE - 1) \div PAGE_SIZE

\* Mutant: the heap grows before its pages are mapped.
Failed_grown(h, needed, done) ==
  LET first == h.brk \div PAGE_SIZE IN
  [h EXCEPT !.frames = 0, !.mapped = @ \cup first .. first + done - 1,
            !.brk = @ + needed * PAGE_SIZE]

\* A page could not be had or mapped: those before it stay mapped.
Failed(h, needed, done) ==
  LET first == h.brk \div PAGE_SIZE IN
  [h EXCEPT !.frames = 0, !.mapped = @ \cup first .. first + done - 1]

Grown(h, needed, tables) ==
  LET first == h.brk \div PAGE_SIZE
      h1 == Put(h, h.brk, needed * PAGE_SIZE - HEADER_SIZE, TRUE)
  IN  [h1 EXCEPT !.frames = @ - needed - tables,
                 !.mapped = @ \cup first .. first + needed - 1,
                 !.brk = @ + needed * PAGE_SIZE,
                 !.free_list = Append(@, h.brk)]

\* What expand_heap may leave: vmm_map_page takes a frame or not for a table.
expand_heap(h, minimum_size) ==
  LET needed == pages_needed(minimum_size) IN
  {[ok |-> TRUE, heap |-> Grown(h, needed, tables)] :
     tables \in {t \in {0, 1} : needed + t <= h.frames}}
  \cup {[ok |-> FALSE, heap |-> Failed(h, needed, done)] :
     done \in {d \in 0 .. needed - 1 : d <= h.frames /\ h.frames <= d + 1}}

Splits(have, size) == have >= size + HEADER_SIZE + ALIGN
Remainder(b, size) == b + HEADER_SIZE + size

\* Mutant: the size of the block stays what it was.
SplitKeepsSize(h, b, size, is_free) ==
  LET have == h.header[b].size
      r == Remainder(b, size)
  IN  IF Splits(have, size)
      THEN [Put(h, r, have - size - HEADER_SIZE, TRUE) EXCEPT !.free_list = <<r>> \o @]
      ELSE Put(h, b, have, is_free)

\* Cut a block to size; what is left goes first on the free list.
Split(h, b, size, is_free) ==
  LET have == h.header[b].size
      r == Remainder(b, size)
      h1 == Put(h, r, have - size - HEADER_SIZE, TRUE)
  IN  IF Splits(have, size)
      THEN [Put(h1, b, size, is_free) EXCEPT !.free_list = <<r>> \o @]
      ELSE Put(h, b, have, is_free)

\* The places of the free list with a block that fits, and the first of them.
Fitting(h, size) == {i \in DOMAIN h.free_list : h.header[h.free_list[i]].size >= size}
First(h, size) == {i \in Fitting(h, size) : \A j \in Fitting(h, size) : i <= j}

\* Mutant: the block stays on the free list.
take_linked(h, i, size) ==
  LET b == h.free_list[i] IN
  [heap |-> Split(h, b, size, FALSE), ptr |-> b + HEADER_SIZE]

\* That block is taken off the free list and cut to size.
take(h, i, size) ==
  LET b == h.free_list[i] IN
  [heap |-> Split([h EXCEPT !.free_list = RemoveAt(@, i)], b, size, FALSE),
   ptr |-> b + HEADER_SIZE]

FirstFit(h, size) == {take(h, i, size) : i \in First(h, size)}

\* The outcomes of a call: the heap, and the pointer returned.
Refused(h) == {[heap |-> h, ptr |-> NULL]}

kmalloc(h, size) ==
  LET n == Aligned(size) IN
  IF size = 0 THEN Refused(h)
  ELSE IF Fitting(h, n) # {} THEN FirstFit(h, n)
  ELSE UNION {IF e.ok THEN FirstFit(e.heap, n) ELSE Refused(e.heap) : e \in expand_heap(h, n)}

\* Mutant: a block already free is linked again.
kfree_unchecked(h, p) ==
  LET b == p - HEADER_SIZE IN
  [Put(h, b, h.header[b].size, TRUE) EXCEPT !.free_list = <<b>> \o @]

kfree(h, p) ==
  LET b == p - HEADER_SIZE IN
  IF h.header[b].is_free THEN h
  ELSE [Put(h, b, h.header[b].size, TRUE) EXCEPT !.free_list = <<b>> \o @]

kcalloc(h, num, size) ==
  {IF o.ptr = NULL THEN o
   ELSE [o EXCEPT !.heap.memory = Fill(@, o.ptr, num * size, Zero)] :
     o \in kmalloc(h, num * size)}

\* Mutant: nothing is copied.
CopyNothing(m, from, to, n) == m
Copy(m, from, to, n) ==
  [a \in Address |-> IF a \in to .. to + n - 1 THEN m[a - to + from] ELSE m[a]]

\* The block at p has moved to q: its bytes are copied, and it is freed.
moved(h, p, q, have) == kfree([h EXCEPT !.memory = Copy(@, p, q, have)], p)

krealloc(h, p, new_size) ==
  LET b == p - HEADER_SIZE
      n == Aligned(new_size)
      have == h.header[b].size
  IN
  IF new_size = 0 THEN Refused(kfree(h, p))
  ELSE IF have >= n THEN {[heap |-> Split(h, b, n, FALSE), ptr |-> p]}
  ELSE {IF o.ptr = NULL THEN o ELSE [o EXCEPT !.heap = moved(@, p, o.ptr, have)] :
          o \in kmalloc(h, n)}

(***************************************************************************)
(* The calls, and what their callers do with the memory: an owner writes   *)
(* its own mark in the bytes it asked for, and in no others.               *)
(***************************************************************************)
Own(p, n, mark) ==
  live' = [q \in DOMAIN live \cup {p} |-> IF q = p THEN [n |-> n, mark |-> mark] ELSE live[q]]
Disown(p) == [q \in DOMAIN live \ {p} |-> live[q]]

Unused == Marks \ {live[p].mark : p \in DOMAIN live}

\* One of the outcomes of a call, within the bound on the heap.
Outcomes(calls) == {o \in calls : o.heap.brk <= HeapTop}

Kmalloc(size, mark) ==
  \E o \in Outcomes(kmalloc(Heap, size)) :
    IF o.ptr = NULL THEN HeapBecomes(o.heap) /\ UNCHANGED live
    ELSE /\ Own(o.ptr, size, mark)
         /\ HeapBecomes([o.heap EXCEPT !.memory = Fill(@, o.ptr, size, mark)])

\* The owner of p gives up all but its first n bytes.
Released(p, n) ==
  IF p \in DOMAIN live THEN Fill(memory, p + n, live[p].n - n, Stale) ELSE memory

\* The owner of zeroed memory leaves it as it is.
Kcalloc(num, size) ==
  \E o \in Outcomes(kcalloc(Heap, num, size)) :
    /\ HeapBecomes(o.heap)
    /\ IF o.ptr = NULL THEN UNCHANGED live ELSE Own(o.ptr, num * size, Zero)

\* kfree ignores a pointer freed before whose block is still free.
Kfree(p) ==
  /\ HeapBecomes(kfree([Heap EXCEPT !.memory = Released(p, 0)], p))
  /\ live' = Disown(p)

\* The owner writes the bytes it has gained; what it had elsewhere is nobody's.
Krealloc(p, size) ==
  LET old == live[p]
      kept == IF size < old.n THEN size ELSE old.n
      Settled(m, q) ==
        Fill(IF q = p THEN m ELSE Fill(m, p, old.n, Stale), q + kept, size - kept, old.mark)
  IN
  \E o \in Outcomes(krealloc([Heap EXCEPT !.memory = Released(p, kept)], p, size)) :
    IF o.ptr = NULL
    THEN HeapBecomes(o.heap) /\ live' = IF size = 0 THEN Disown(p) ELSE live
    ELSE /\ HeapBecomes([o.heap EXCEPT !.memory = Settled(@, o.ptr)])
         /\ live' = [q \in (DOMAIN live \ {p}) \cup {o.ptr} |->
                       IF q = o.ptr THEN [old EXCEPT !.n = size] ELSE live[q]]

\* The page allocator serves others too.
PagesElsewhere ==
  /\ frames' \in {frames - 1, frames + 1} \cap 0 .. MaxFrames
  /\ UNCHANGED <<header, free_list, memory, heap_current_virtual, mapped, live>>

Freed == {b + HEADER_SIZE : b \in {x \in DOMAIN header : header[x].is_free}}

Next ==
  \/ \E size \in Sizes, mark \in Unused : Kmalloc(size, mark)
  \/ \E size \in Sizes : Kcalloc(2, size)
  \/ \E p \in DOMAIN live \cup Freed : Kfree(p)
  \/ \E p \in DOMAIN live, size \in Sizes : Krealloc(p, size)
  \/ PagesElsewhere

Spec == Init /\ [][Next]_vars

(***************************************************************************)
(* Properties                                                              *)
(***************************************************************************)
Blocks == DOMAIN header
End(b) == b + HEADER_SIZE + header[b].size

\* Type invariant; every address handed out, and every size, is aligned.
TypeOK ==
  /\ Blocks \subseteq Address
  /\ \A b \in Blocks : header[b].size \in Nat /\ header[b].is_free \in BOOLEAN
  /\ free_list \in Seq(Blocks)
  /\ memory \in [Address -> {Header, Stale, Zero} \cup Marks]
  /\ heap_current_virtual \in 0 .. HeapTop /\ frames \in 0 .. MaxFrames
  /\ \A b \in Blocks : b % ALIGN = 0 /\ header[b].size % ALIGN = 0

\* The blocks tile the heap: each ends where the next begins, the last where
\* the heap does. No block is ever lost, cut short or laid over another.
Tiled ==
  /\ heap_current_virtual > 0 => 0 \in Blocks
  /\ \A b \in Blocks :
       /\ End(b) \in Blocks \cup {heap_current_virtual}
       /\ \A x \in Blocks : ~(b < x /\ x < End(b))

\* The free list holds each free block once and nothing else; and every other
\* block is some caller's, so no memory is lost to both.
FreeListExact ==
  /\ \A i, j \in DOMAIN free_list : free_list[i] = free_list[j] => i = j
  /\ {free_list[i] : i \in DOMAIN free_list} = {b \in Blocks : header[b].is_free}
  /\ {b \in Blocks : ~header[b].is_free} = {p - HEADER_SIZE : p \in DOMAIN live}

\* Nobody's bytes are written by another: every owner reads back what it wrote,
\* through reallocation too, zeroed memory is zero, and no header is touched.
Intact ==
  /\ \A p \in DOMAIN live : \A a \in p .. p + live[p].n - 1 : memory[a] = live[p].mark
  /\ \A b \in Blocks : \A a \in b .. b + HEADER_SIZE - 1 : memory[a] = Header

\* The heap never reaches past its mapped pages, even when an expansion fails
\* part of the way.
Backed == \A a \in 0 .. heap_current_virtual - 1 : a \div PAGE_SIZE \in mapped

\* heap.c implements an allocator of disjoint regions.
R == INSTANCE Regions WITH
       live <- [p \in DOMAIN live |-> live[p].n],
       Addresses <- Address, Lengths <- Sizes \cup {2 * s : s \in Sizes}
Implements == R!RSpec
====
