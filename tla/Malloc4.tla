------------------------------- MODULE Malloc4 -------------------------------
(***************************************************************************)
(* The allocator of hw4 malloc_4.cpp.  It repeats malloc_3.cpp, which      *)
(* Malloc3 models, and changes four functions: sizes are rounded up to the *)
(* alignment, and large mappings are put in huge pages, which the next     *)
(* field of a mapped block's head records.                                 *)
(***************************************************************************)
EXTENDS Malloc3

CONSTANTS Align,            \* the 8 of _8_bit_align, in cells
          HugePageLimit,    \* HUGE_PAGE_LIMIT
          ScallocHugeLimit  \* SCALLOC_HUGE_PAGE_LIMIT

ASSUME AlignAssumption == Align \in Nat \ {0} /\ size_meta_data % Align = 0

(* Functions that malloc_4.cpp has word for word as malloc_3.cpp.           *)
sbrk_malloc4(h, block_size) == sbrk_malloc(h, block_size)
sfree4(h, p) == sfree(h, p)
sbrk_realloc4(h, b, block_size) == sbrk_realloc(h, b, block_size)
CopyAndFree4(new, p, size) == CopyAndFree(new, p, size)

-----------------------------------------------------------------------------
HUGE_PAGE == 1

\* Mutant of align: rounds down.
align_Down(size) == size - (size % Align)

\* Mutant of align: leaves the size alone.
align_Skip(size) == size

align(size) == IF size % Align # 0 THEN size - (size % Align) + Align ELSE size

\* A regular mapping's next is REGULAR_PAGE, the null pointer.
mmap_malloc4(h, size, force_hugepage) ==
  LET Mark(r) == IF r.block = Nil THEN r ELSE [r EXCEPT !.h.mem[r.block].next = HUGE_PAGE]
  IN  IF force_hugepage \/ size >= HugePageLimit
      THEN Mark(mmap_malloc(h, size))
      ELSE mmap_malloc(h, size)

smalloc4(h, requested) ==
  LET Allocate(size) ==
        IF BadSize(size) THEN [h |-> h, p |-> Nil]
        ELSE ToPointer(IF size + size_meta_data < SBRK_LIMIT
                       THEN sbrk_malloc4(h, size + size_meta_data)
                       ELSE mmap_malloc4(h, size + size_meta_data, FALSE))
  IN  Allocate(align(requested))

\* Mutant of ForcesHugePage: no limit.
ForcesHugePage_Always(size) == TRUE

ForcesHugePage(size) == size > ScallocHugeLimit

scalloc4(h, num, requested) ==
  LET Clear(r, size) ==
        IF r.p = Nil THEN r
        ELSE [r EXCEPT !.h.mem = [a \in Addr |-> IF a \in r.p .. r.p + size - 1
                                                 THEN Zero ELSE @[a]]]
      Allocate(size) ==
        IF BadSize(size) THEN [h |-> h, p |-> Nil]
        ELSE Clear(IF ForcesHugePage(size)
                   THEN ToPointer(mmap_malloc4(h, size + size_meta_data, TRUE))
                   ELSE smalloc4(h, size), size)
  IN  Allocate(align(num * requested))

\* Mutant of IsHuge: the flag is not looked at.
IsHuge_Never(h, b) == FALSE

IsHuge(h, b) == SizeOf(h, b) >= SBRK_LIMIT /\ h.mem[b].next = HUGE_PAGE

\* A block in a huge page moves to another huge page, whatever its new size.
srealloc4(h, p, requested) ==
  LET b == p - 1
      size == align(requested)
      Finish(r) ==
        IF r.block # Nil \/ r.h.fault # "none" THEN ToPointer(r)
        ELSE IF ~IsHead(r.h, b) THEN [h |-> Fault(r.h, "stale_head"), p |-> Nil]
        ELSE IF SizeOf(r.h, b) = size + size_meta_data THEN [h |-> r.h, p |-> p]
        ELSE CopyAndFree4(IF IsHuge(r.h, b)
                          THEN ToPointer(mmap_malloc4(r.h, size + size_meta_data, TRUE))
                          ELSE smalloc4(r.h, size), p, size)
  IN  IF BadSize(size) THEN [h |-> h, p |-> Nil]
      ELSE Finish(IF SizeOf(h, b) < SBRK_LIMIT
                  THEN sbrk_realloc4(h, b, size + size_meta_data)
                  ELSE [h |-> h, block |-> Nil])

-----------------------------------------------------------------------------
Smalloc4(v, size) ==
  /\ ~Holding(v)
  /\ Return(v, smalloc4(heap, size), [NoPointer EXCEPT !.size = size])

Scalloc4(v, num, size) ==
  /\ ~Holding(v)
  /\ Return(v, scalloc4(heap, num, size),
            [p |-> Nil, size |-> num * size, fill |-> "zero", filled |-> num * size])

Sfree4(v) ==
  /\ Holding(v)
  /\ client' = [client EXCEPT ![v] = NoPointer]
  /\ heap' = Settle(sfree4(heap, client[v].p), client')

Srealloc4(v, size) ==
  /\ Holding(v)
  /\ Return(v, srealloc4(heap, client[v].p, size),
            [client[v] EXCEPT !.size = size, !.filled = Min({@, size})])

\* The calls that do not copy a block after a merge to the left (ReallocSound of
\* Malloc3) and do not make a block in a huge page as small as a block of the heap.
ReallocSound4(v, size) ==
  /\ ReallocSound(v, align(size))
  /\ ~BadSize(align(size)) /\ IsHuge(heap, client[v].p - 1) =>
       align(size) + size_meta_data >= SBRK_LIMIT

Alloc4(v) ==
  \/ \E size \in Sizes : Smalloc4(v, size)
  \/ \E num \in {1, 2}, size \in Sizes : num * size \in Sizes /\ Scalloc4(v, num, size)
  \/ Store(v)
  \/ Sfree4(v)

SoundNext4 ==
  \/ Stopped
  \/ /\ Alive
     /\ \E v \in Vars :
          \/ Alloc4(v)
          \/ \E size \in Sizes : Holding(v) /\ ReallocSound4(v, size) /\ Srealloc4(v, size)

SoundSpec4 == Init /\ [][SoundNext4]_vars
-----------------------------------------------------------------------------
\* Rounding sizes up is enough to keep every block of the heap, used or free,
\* split or merged, at an aligned address (Challenge 7).
Aligned == \A b \in ToSet(Blocks) : b % Align = 0 /\ SizeOf(heap, b) % Align = 0

\* srealloc never moves a block out of the huge pages it was put in, whatever
\* page type its new size alone would get it.
HugeStaysHuge ==
  [][\A v \in Vars :
       Holding(v) /\ client'[v].p # Nil
         /\ heap.mem[client[v].p - 1].next = HUGE_PAGE
         => heap'.mem[client'[v].p - 1].next = HUGE_PAGE]_vars
=============================================================================
