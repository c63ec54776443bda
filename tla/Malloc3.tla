------------------------------- MODULE Malloc3 -------------------------------
(***************************************************************************)
(* The allocator of hw4 malloc_3.cpp over a memory of cells.  A block is   *)
(* one head cell, its payload cells and one tail cell; head_metadata_t,    *)
(* tail_metadata_t and a unit of payload each take one cell.  Cells below  *)
(* HeapMax belong to the heap that sbrk grows; each mmap takes one of      *)
(* MaxMaps regions above it.  A cell nobody mapped is Unmapped.            *)
(*                                                                         *)
(* Every C function is an operator from a heap to a heap, so that one      *)
(* action is one whole call.  A read of something that is not there is     *)
(* undefined behaviour: the heap records the fault and nothing follows.    *)
(* The cookie of a tail is abstracted to the cell's being a tail.          *)
(***************************************************************************)
EXTENDS Integers, Sequences, FiniteSets, SequencesExt

CONSTANTS Vars,            \* the client's pointer variables
          Sizes,           \* payload sizes the client asks for
          SizeLimit,       \* SIZE_LIMIT
          SbrkPayload,     \* the 128 KB of SBRK_LIMIT
          RedundantPayload,\* the 128 bytes of REDUNDANT_SIZE
          HeapMax,         \* sbrk fails past this break
          MaxMaps,         \* mmap fails when so many regions are mapped
          MapCells,        \* cells reserved for one region
          MaxOom           \* the client gives up after so many failures of sbrk

ASSUME SizesAssumption ==
  /\ Sizes \subseteq Nat
  /\ \A size \in Sizes : size <= SizeLimit => size + 2 <= MapCells

VARIABLES heap,    \* the memory and the globals of malloc_3.cpp
          client   \* what the client knows of each of its pointers

vars == <<heap, client>>

Nil == -1
MapBase(k) == HeapMax + 1 + k * (MapCells + 1)
Addr == 0 .. MapBase(MaxMaps)

size_meta_data == 2
SBRK_LIMIT == SbrkPayload + size_meta_data
REDUNDANT_SIZE == RedundantPayload + size_meta_data

-----------------------------------------------------------------------------
(* Cells.                                                                  *)

Cell(kind, size, is_free, next, prev) ==
  [kind |-> kind, size |-> size, is_free |-> is_free, next |-> next, prev |-> prev]

Plain(kind) == Cell(kind, 0, FALSE, Nil, Nil)
Unmapped == Plain("unmapped")
Junk == Plain("junk")
Zero == Plain("zero")
HeadCell(size, is_free, next, prev) == Cell("head", size, is_free, next, prev)
TailCell(size) == Cell("tail", size, FALSE, Nil, Nil)
\* The i-th cell of what the client stores through variable v.
DataCell(v, i) == Cell(v, i, FALSE, Nil, Nil)

IsMapped(h, a) == a \in Addr /\ h.mem[a] # Unmapped
IsHead(h, b) == b \in Addr /\ h.mem[b].kind = "head"
SizeOf(h, b) == h.mem[b].size
EndOf(h, b) == b + SizeOf(h, b)
TAIL_METADATA(h, b) == EndOf(h, b) - 1

MapsOf(h) == {b \in {MapBase(k) : k \in 0 .. MaxMaps - 1} : IsMapped(h, b)}

Fault(h, what) == [h EXCEPT !.fault = IF @ = "none" THEN what ELSE @]

-----------------------------------------------------------------------------
(* The helpers of malloc_3.cpp.                                            *)

SbrkFails(h, delta) == h.brk + delta > HeapMax

sbrk(h, delta) ==
  [h EXCEPT !.brk = @ + delta,
            !.mem = [a \in Addr |-> IF a \in h.brk .. h.brk + delta - 1
                                    THEN Junk ELSE h.mem[a]]]

set_tail(h, b) == [h EXCEPT !.mem[TAIL_METADATA(h, b)] = TailCell(SizeOf(h, b))]

\* A tail without the cookie ends the process, and so does a tail that is not there.
check_cookie(h, b) ==
  CASE ~IsHead(h, b) \/ ~IsMapped(h, TAIL_METADATA(h, b)) -> Fault(h, "segv")
    [] OTHER -> IF h.mem[TAIL_METADATA(h, b)].kind = "tail" THEN h
                ELSE Fault(h, "cookie")

memmove(h, dst, src, n) ==
  IF \A i \in 0 .. n - 1 : IsMapped(h, src + i) /\ IsMapped(h, dst + i)
  THEN [h EXCEPT !.mem = [a \in Addr |-> IF a \in dst .. dst + n - 1
                                         THEN h.mem[src + a - dst] ELSE h.mem[a]]]
  ELSE Fault(h, "segv")

\* init_sbrk_alloc_block with alloc = false.
init_sbrk_alloc_block(h, b, size) ==
  set_tail([h EXCEPT !.mem[b] = HeadCell(size, FALSE, Nil, Nil)], b)

wilderness_sbrk_block_increase(h, b, size) ==
  IF SbrkFails(h, size - SizeOf(h, b))
  THEN [h |-> [h EXCEPT !.oom = @ + 1], block |-> Nil]
  ELSE [h |-> set_tail([sbrk(h, size - SizeOf(h, b)) EXCEPT !.mem[b].size = size], b),
        block |-> b]

-----------------------------------------------------------------------------
(* The free list: blocks ordered by size, then by address.                 *)

RECURSIVE ListFrom(_, _, _)
ListFrom(h, b, fuel) ==
  IF b = Nil \/ fuel = 0 THEN <<>>
  ELSE <<b>> \o (IF IsHead(h, b) THEN ListFrom(h, h.mem[b].next, fuel - 1) ELSE <<>>)

\* The blocks a traversal from sbrk_free_head meets.  It ends at the first that is
\* not a head, which is among them: whoever comes to it reads what is not there.
FreeList(h) == ListFrom(h, h.sbrk_free_head, HeapMax)

CookiesOK(h, blocks) == \A b \in blocks : check_cookie(h, b).fault = h.fault

Precedes(h, b, c) ==
  \/ SizeOf(h, b) < SizeOf(h, c)
  \/ SizeOf(h, b) = SizeOf(h, c) /\ b < c

BestFit(h, list, fits) ==
  list[CHOOSE i \in fits : \A j \in fits \ {i} :
         \/ SizeOf(h, list[i]) < SizeOf(h, list[j])
         \/ SizeOf(h, list[i]) = SizeOf(h, list[j]) /\ i < j]

\* The last block of the heap, counted as if it had grown before it has.
GrowFree(h, b, size) ==
  wilderness_sbrk_block_increase(
    [h EXCEPT !.free_bytes_num = @ + size - SizeOf(h, b),
              !.allocated_bytes_num = @ + size - SizeOf(h, b)], b, size)

\* Mutant: not the exact size.
Fits_Strictly(h, b, size) == SizeOf(h, b) > size

Fits(h, b, size) == SizeOf(h, b) >= size

\* Best fit; failing that, the wilderness block grown to size.
find_sbrk_free_block(h, size) ==
  LET Choose(list, fits, last) ==
        CASE ~CookiesOK(h, ToSet(list)) -> [h |-> Fault(h, "cookie"), block |-> Nil]
          [] CookiesOK(h, ToSet(list)) /\ fits # {} ->
               [h |-> h, block |-> BestFit(h, list, fits)]
          [] CookiesOK(h, ToSet(list)) /\ fits = {} /\ last # {} ->
               GrowFree(h, CHOOSE b \in last : TRUE, size)
          [] OTHER -> [h |-> h, block |-> Nil]
      Search(list) ==
        Choose(list, {i \in DOMAIN list : Fits(h, list[i], size)},
                     {b \in ToSet(list) : EndOf(h, b) = h.brk})
  IN  Search(FreeList(h))

SetNext(mem, b, x) == IF b = Nil THEN mem ELSE [mem EXCEPT ![b].next = x]
SetPrev(mem, b, x) == IF b = Nil THEN mem ELSE [mem EXCEPT ![b].prev = x]

add_sbrk_free_block(h, b) ==
  LET Link(prev, next) ==
        [h EXCEPT !.mem = SetNext(SetPrev([@ EXCEPT ![b] = HeadCell(@.size, TRUE, next, prev)],
                                          next, b), prev, b),
                  !.sbrk_free_head = IF prev = Nil THEN b ELSE @]
      LinkAt(list, at) ==
        IF IF at > 1 THEN ~CookiesOK(h, {list[i] : i \in DOMAIN list \cap 1 .. at})
                     ELSE list # <<>> /\ ~IsHead(h, list[1])
        THEN Fault(h, "cookie")
        ELSE Link(IF at = 1 THEN Nil ELSE list[at - 1],
                  IF at > Len(list) THEN Nil ELSE list[at])
      Insert(list) ==
        LinkAt(list, Min({i \in DOMAIN list : Precedes(h, b, list[i])} \cup {Len(list) + 1}))
  IN  Insert(FreeList(h))

\* Mutant of remove_sbrk_free_block: the next block keeps its prev.
remove_sbrk_free_block_OneWay(h, b) ==
  LET Unlinked(mem) == [mem EXCEPT ![b] = HeadCell(@.size, FALSE, Nil, Nil)]
  IN  IF h.sbrk_free_head = b
      THEN [h EXCEPT !.mem = Unlinked(@), !.sbrk_free_head = h.mem[b].next]
      ELSE [h EXCEPT !.mem = SetNext(Unlinked(@), h.mem[b].prev, h.mem[b].next)]

\* Removing the head leaves the next block's prev as it was.
remove_sbrk_free_block(h, b) ==
  LET Unlinked(mem) == [mem EXCEPT ![b] = HeadCell(@.size, FALSE, Nil, Nil)]
      prev == h.mem[b].prev
      next == h.mem[b].next
  IN  IF h.sbrk_free_head = b
      THEN [h EXCEPT !.mem = Unlinked(@), !.sbrk_free_head = next]
      ELSE IF CookiesOK(h, {prev, next} \ {Nil})
      THEN [h EXCEPT !.mem = SetPrev(SetNext(Unlinked(@), prev, next), next, prev)]
      ELSE Fault(h, "cookie")

init_sbrk_free_block(h, b, size) ==
  add_sbrk_free_block(set_tail([h EXCEPT !.mem[b] = HeadCell(size, FALSE, Nil, Nil)], b), b)

-----------------------------------------------------------------------------
(* Merging, splitting and the two allocators.                              *)

\* Mutant of Absorb: the neighbour's metadata does not become payload.
Absorb_KeepBytes(h, b) ==
  remove_sbrk_free_block(
    [h EXCEPT !.free_blocks_num = @ - 1,
              !.allocated_blocks_num = @ - 1,
              !.free_bytes_num = @ - (SizeOf(h, b) - size_meta_data)], b)

\* A free neighbour stops being a block of its own.
Absorb(h, b) ==
  remove_sbrk_free_block(
    [h EXCEPT !.free_blocks_num = @ - 1,
              !.allocated_blocks_num = @ - 1,
              !.free_bytes_num = @ - (SizeOf(h, b) - size_meta_data),
              !.allocated_bytes_num = @ + size_meta_data], b)

\* Mutant of MovePayload: the data stay behind.
MovePayload_Never(h, left, b) == h

MovePayload(h, left, b) == memmove(h, left + 1, b + 1, SizeOf(h, b) - size_meta_data)

merge_sbrk_blocks(h, b, merge_left, merge_right, copy_data) ==
  LET looksLeft == merge_left /\ h.sbrk_head # b
      IsFree(c) == c # Nil /\ h.mem[c].is_free
      TakenSize(c) == IF IsFree(c) THEN SizeOf(h, c) ELSE 0
      AbsorbFree(g, c) == IF IsFree(c) THEN Absorb(g, c) ELSE g
      Copy(g, left) ==
        IF IsFree(left) /\ copy_data
        THEN MovePayload(g, left, b) ELSE g
      Whole(g, c, size) == [h |-> init_sbrk_alloc_block(g, c, size), block |-> c]
      With(left, right) ==
        IF CookiesOK(h, {left, right} \ {Nil})
        THEN Whole(AbsorbFree(Copy(AbsorbFree(h, left), left), right),
                   IF IsFree(left) THEN left ELSE b,
                   SizeOf(h, b) + TakenSize(left) + TakenSize(right))
        ELSE [h |-> Fault(h, "cookie"), block |-> b]
  IN  IF looksLeft /\ h.mem[b - 1].kind # "tail"
      THEN [h |-> Fault(h, "segv"), block |-> b]
      ELSE With(IF looksLeft THEN b - SizeOf(h, b - 1) ELSE Nil,
                IF merge_right /\ EndOf(h, b) # h.brk THEN EndOf(h, b) ELSE Nil)

\* Give the cells after the first `size' of block b back, if they are enough.
split_block_if_needed(h, b, size) ==
  LET Split(rest) ==
        init_sbrk_free_block(
          init_sbrk_alloc_block(
            [h EXCEPT !.free_blocks_num = @ + 1,
                      !.free_bytes_num = @ + rest - size_meta_data,
                      !.allocated_blocks_num = @ + 1,
                      !.allocated_bytes_num = @ - size_meta_data], b, size),
          b + size, rest)
  IN  IF SizeOf(h, b) - size >= REDUNDANT_SIZE THEN Split(SizeOf(h, b) - size) ELSE h

\* The counters move even when the new block could not be made.
sbrk_malloc(h, size) ==
  LET Take(g, b) ==
        remove_sbrk_free_block(
          [g EXCEPT !.free_blocks_num = @ - 1,
                    !.free_bytes_num = @ - (SizeOf(g, b) - size_meta_data)], b)
      Count(g) == [g EXCEPT !.sbrk_head = 0,
                            !.allocated_blocks_num = @ + 1,
                            !.allocated_bytes_num = @ + size - size_meta_data]
      Extend(g) ==
        IF SbrkFails(g, size)
        THEN [h |-> [Count(g) EXCEPT !.oom = @ + 1], block |-> Nil]
        ELSE [h |-> init_sbrk_alloc_block(sbrk(Count(g), size), g.brk, size),
              block |-> g.brk]
      Use(found) ==
        IF found.h.fault # "none" THEN found
        ELSE IF found.block = Nil THEN Extend(found.h)
        ELSE [found EXCEPT !.h = split_block_if_needed(Take(@, found.block), found.block, size)]
  IN  Use(IF h.sbrk_head = Nil THEN [h |-> h, block |-> Nil]
          ELSE find_sbrk_free_block(h, size))

mmap_malloc(h, size) ==
  LET Map(b) ==
        [h EXCEPT !.mem = [a \in Addr |-> IF a \in b .. b + size - 1 THEN Junk ELSE h.mem[a]],
                  !.allocated_blocks_num = @ + 1,
                  !.allocated_bytes_num = @ + size - size_meta_data]
      Place(unused) ==
        IF unused = {} THEN [h |-> h, block |-> Nil]
        ELSE [h |-> init_sbrk_alloc_block(Map(Min(unused)), Min(unused), size),
              block |-> Min(unused)]
  IN  Place({MapBase(k) : k \in 0 .. MaxMaps - 1} \ MapsOf(h))

\* The exported functions take and return payload pointers.
ToPointer(r) == [h |-> r.h, p |-> IF r.block = Nil THEN Nil ELSE r.block + 1]

BadSize(size) == size = 0 \/ size > SizeLimit

smalloc(h, size) ==
  IF BadSize(size) THEN [h |-> h, p |-> Nil]
  ELSE ToPointer(IF size + size_meta_data < SBRK_LIMIT
                 THEN sbrk_malloc(h, size + size_meta_data)
                 ELSE mmap_malloc(h, size + size_meta_data))

scalloc(h, num, size) ==
  LET Clear(r) ==
        IF r.p = Nil THEN r
        ELSE [r EXCEPT !.h.mem = [a \in Addr |-> IF a \in r.p .. r.p + num * size - 1
                                                 THEN Zero ELSE @[a]]]
  IN  Clear(smalloc(h, num * size))

\* Mutant of sbrk_free: only the block on the left is merged.
sbrk_free_LeftOnly(h, b) ==
  LET Release(m) ==
        IF m.h.fault # "none" THEN m.h
        ELSE add_sbrk_free_block(
               [m.h EXCEPT !.free_blocks_num = @ + 1,
                           !.free_bytes_num = @ + SizeOf(m.h, m.block) - size_meta_data],
               m.block)
  IN  Release(merge_sbrk_blocks(h, b, TRUE, FALSE, FALSE))

sbrk_free(h, b) ==
  LET Release(m) ==
        IF m.h.fault # "none" THEN m.h
        ELSE add_sbrk_free_block(
               [m.h EXCEPT !.free_blocks_num = @ + 1,
                           !.free_bytes_num = @ + SizeOf(m.h, m.block) - size_meta_data],
               m.block)
  IN  Release(merge_sbrk_blocks(h, b, TRUE, TRUE, FALSE))

mmap_free(h, b) ==
  [h EXCEPT !.allocated_blocks_num = @ - 1,
            !.allocated_bytes_num = @ - (SizeOf(h, b) - size_meta_data),
            !.mem = [a \in Addr |-> IF a \in b .. EndOf(h, b) - 1
                                    THEN Unmapped ELSE h.mem[a]]]

\* Mutant of sfree: takes the payload for the block.
sfree_NoOffset(h, p) ==
  LET Free(g) ==
        IF g.fault # "none" \/ g.mem[p].is_free THEN g
        ELSE IF SizeOf(g, p) < SBRK_LIMIT THEN sbrk_free(g, p)
        ELSE mmap_free(g, p)
  IN  Free(check_cookie(h, p))

sfree(h, p) ==
  LET Free(g, b) ==
        IF g.fault # "none" \/ g.mem[b].is_free THEN g
        ELSE IF SizeOf(g, b) < SBRK_LIMIT THEN sbrk_free(g, b)
        ELSE mmap_free(g, b)
  IN  Free(check_cookie(h, p - 1), p - 1)

\* The last block of the heap grows in place.  When sbrk fails the code
\* computes a payload address from a null block and returns that.
GrowUsed(h, b, size) ==
  LET Checked(r) == IF r.block = Nil THEN [r EXCEPT !.h = Fault(@, "wild_pointer")] ELSE r
  IN  Checked(wilderness_sbrk_block_increase(
                [h EXCEPT !.allocated_bytes_num = @ + size - SizeOf(h, b)], b, size))

sbrk_realloc(h, b, size) ==
  LET Large(m) == SizeOf(m.h, m.block) >= size
      AtBreak(m) == EndOf(m.h, m.block) = h.brk
      Failed(m) == m.h.fault # "none"
      Split(m) == [m EXCEPT !.h = split_block_if_needed(@, m.block, size)]
      MergedAll(m) ==
        IF Failed(m) \/ Large(m) THEN m
        ELSE IF AtBreak(m) THEN GrowUsed(m.h, m.block, size)
        ELSE [m EXCEPT !.block = Nil]
      MergedRight(m) ==
        IF Failed(m) THEN m
        ELSE IF Large(m) THEN Split(m)
        ELSE MergedAll(merge_sbrk_blocks(m.h, m.block, TRUE, TRUE, TRUE))
      MergedLeft(m) ==
        IF Failed(m) THEN m
        ELSE IF Large(m) THEN Split(m)
        ELSE IF AtBreak(m) THEN GrowUsed(m.h, m.block, size)
        ELSE MergedRight(merge_sbrk_blocks(m.h, m.block, FALSE, TRUE, FALSE))
      InPlace(m) ==
        IF Large(m) THEN Split(m)
        ELSE MergedLeft(merge_sbrk_blocks(h, b, TRUE, FALSE, TRUE))
  IN  InPlace([h |-> h, block |-> b])

\* The new size is copied, whatever the old one was: a block that grows is read past
\* its end, and beyond the break or the mapping there is nothing to read.
CopyAndFree(new, p, size) ==
  LET Longer(h) == size + size_meta_data > SizeOf(h, p - 1)
      Release(g) ==
        IF g.fault = "none" THEN [h |-> sfree(g, p), p |-> new.p]
        ELSE [h |-> IF Longer(new.h) THEN Fault(new.h, "overread") ELSE g, p |-> Nil]
  IN  IF new.p = Nil THEN new ELSE Release(memmove(new.h, new.p, p, size))

\* When no place was found around the old block, it may still have been
\* merged with its neighbours and its payload moved; old_block is read again.
srealloc(h, p, size) ==
  LET b == p - 1
      block_size == size + size_meta_data
      Finish(r) ==
        IF r.block # Nil \/ r.h.fault # "none" THEN ToPointer(r)
        ELSE IF ~IsHead(r.h, b) THEN [h |-> Fault(r.h, "stale_head"), p |-> Nil]
        ELSE IF SizeOf(r.h, b) = block_size THEN [h |-> r.h, p |-> p]
        ELSE CopyAndFree(smalloc(r.h, size), p, size)
  IN  IF BadSize(size) THEN [h |-> h, p |-> Nil]
      ELSE Finish(IF SizeOf(h, b) < SBRK_LIMIT THEN sbrk_realloc(h, b, block_size)
                  ELSE [h |-> h, block |-> Nil])

RECURSIVE WalkFrom(_, _)
WalkFrom(h, a) ==
  IF a >= h.brk \/ ~IsHead(h, a) \/ SizeOf(h, a) = 0 THEN <<>>
  ELSE <<a>> \o WalkFrom(h, EndOf(h, a))

-----------------------------------------------------------------------------
(* The program and its client.  client[v] is the pointer in v, the size    *)
(* that was asked for it, and how many cells of what they stored there.    *)

NoPointer == [p |-> Nil, size |-> 0, fill |-> "none", filled |-> 0]

Init ==
  /\ heap = [mem |-> [a \in Addr |-> Unmapped], brk |-> 0,
             sbrk_head |-> Nil, sbrk_free_head |-> Nil,
             free_blocks_num |-> 0, free_bytes_num |-> 0,
             allocated_blocks_num |-> 0, allocated_bytes_num |-> 0,
             fault |-> "none", oom |-> 0]
  /\ client = [v \in Vars |-> NoPointer]

Holding(v) == client[v].p # Nil

\* Between two calls the value of a cell that nobody can read before writing it is
\* forgotten.  These are the cells that are neither the metadata of a block nor
\* something the client stored, if the blocks fill the heap and the free list and the
\* client name no others.  Once that is not so the memory stays as it was written.
Settle(h, c) ==
  LET row == ToSet(WalkFrom(h, 0))
      blocks == row \cup MapsOf(h)
      named == ToSet(FreeList(h)) \cup {c[v].p - 1 : v \in {u \in Vars : c[u].p # Nil}}
      meta == blocks \cup {TAIL_METADATA(h, b) : b \in blocks}
      stored == UNION {c[v].p .. c[v].p + c[v].filled - 1 : v \in Vars}
      Kept(a) == h.mem[a] = Unmapped \/ a \in meta \cup stored
  IN  IF named \subseteq blocks /\ h.brk \in {0} \cup {EndOf(h, b) : b \in row}
      THEN [h EXCEPT !.mem = [a \in Addr |-> IF Kept(a) THEN h.mem[a] ELSE Junk]]
      ELSE h

\* A call returns r; a null result leaves the client with what it had.
Return(v, r, now) ==
  /\ client' = IF r.p = Nil THEN client ELSE [client EXCEPT ![v] = [now EXCEPT !.p = r.p]]
  /\ heap' = Settle(r.h, client')

Smalloc(v, size) ==
  /\ ~Holding(v)
  /\ Return(v, smalloc(heap, size), [NoPointer EXCEPT !.size = size])

Scalloc(v, num, size) ==
  /\ ~Holding(v)
  /\ Return(v, scalloc(heap, num, size),
            [p |-> Nil, size |-> num * size, fill |-> "zero", filled |-> num * size])

\* The client stores something through v, within what it asked for.
Store(v) ==
  /\ Holding(v)
  /\ heap' = [heap EXCEPT !.mem =
       [a \in Addr |-> IF a \in client[v].p .. client[v].p + client[v].size - 1
                       THEN DataCell(v, a - client[v].p) ELSE heap.mem[a]]]
  /\ client' = [client EXCEPT ![v].fill = "own", ![v].filled = client[v].size]

Sfree(v) ==
  /\ Holding(v)
  /\ client' = [client EXCEPT ![v] = NoPointer]
  /\ heap' = Settle(sfree(heap, client[v].p), client')

Srealloc(v, size) ==
  /\ Holding(v)
  /\ Return(v, srealloc(heap, client[v].p, size),
            [client[v] EXCEPT !.size = size, !.filled = Min({@, size})])

\* The calls of srealloc that do not come to the fallback copy after the block was
\* merged into a free one below it.
ReallocSound(v, size) ==
  LET b == client[v].p - 1
      CanCopy(r) == r.block = Nil /\ r.h.fault = "none"
      MergedLeft == b > 0 /\ heap.mem[b - SizeOf(heap, b - 1)].is_free
  IN  \/ BadSize(size) \/ SizeOf(heap, b) >= SBRK_LIMIT
      \/ ~CanCopy(sbrk_realloc(heap, b, size + size_meta_data))
      \/ ~MergedLeft

Alive == heap.fault = "none" /\ heap.oom < MaxOom

\* Everything but srealloc.
AllocNext ==
  /\ Alive
  /\ \E v \in Vars :
       \/ \E size \in Sizes : Smalloc(v, size)
       \/ \E num \in {1, 2}, size \in Sizes : num * size \in Sizes /\ Scalloc(v, num, size)
       \/ Store(v)
       \/ Sfree(v)

SoundRealloc ==
  /\ Alive
  /\ \E v \in Vars, size \in Sizes : Holding(v) /\ ReallocSound(v, size) /\ Srealloc(v, size)

AnyRealloc ==
  /\ Alive
  /\ \E v \in Vars, size \in Sizes : Srealloc(v, size)

Stopped == ~Alive /\ UNCHANGED vars

SoundSpec == Init /\ [][AllocNext \/ SoundRealloc \/ Stopped]_vars
Spec == Init /\ [][AllocNext \/ AnyRealloc \/ Stopped]_vars

-----------------------------------------------------------------------------
(* Properties.                                                             *)

\* The blocks from sbrk_head on, each where the one before it ends.
Blocks == WalkFrom(heap, 0)
FreeBlocks == {b \in ToSet(Blocks) : heap.mem[b].is_free}
Maps == MapsOf(heap)

Payload(blocks) == MapThenSumSet(LAMBDA b : SizeOf(heap, b) - size_meta_data, blocks)

\* Every variable keeps its type.
TypeOK ==
  /\ DOMAIN heap.mem = Addr
  /\ heap.brk \in 0 .. HeapMax
  /\ heap.sbrk_head \in {Nil, 0}
  /\ heap.sbrk_free_head \in Addr \cup {Nil}
  /\ client \in [Vars -> [p: Addr \cup {Nil}, size: Nat,
                          fill: {"none", "zero", "own"}, filled: Nat]]

\* No call of the client's makes malloc_3.cpp read what is not there, act on
\* a stale block or find a cookie overwritten.  Two faults of srealloc are set apart:
\* the address it returns when sbrk did not let the last block grow (lines 388 and
\* 404), and the copy that reads past a mapping or the break because it is as long as
\* the new block and not as the old one (line 447).
NoFault ==
  \/ heap.fault \in {"none", "overread"}
  \/ heap.fault = "wild_pointer" /\ heap.oom > 0

\* "If non of the options worked just allocate and copy to new block" (line 407): what
\* srealloc copies and frees is the block that it was given, and still a block.
CopiesOldBlock == heap.fault # "stale_head"

\* Splits, merges and growth keep the heap a row of whole blocks from
\* sbrk_head to the program break, each with a tail that agrees with its head,
\* which is what the walk to the left in _merge_sbrk_blocks relies on.
HeapTiled ==
  LET last == Blocks[Len(Blocks)]
  IN  /\ \A b \in ToSet(Blocks) : heap.mem[TAIL_METADATA(heap, b)] = TailCell(SizeOf(heap, b))
      /\ IF Blocks = <<>> THEN heap.brk = 0 ELSE EndOf(heap, last) = heap.brk

\* The free list holds every free block of the heap and nothing else, ordered
\* by size and then by address, and can be unlinked from anywhere: only the
\* first block's prev may be stale.
FreeListExact ==
  LET list == FreeList(heap)
  IN  /\ ToSet(list) = FreeBlocks
      /\ \A i, j \in DOMAIN list : i < j => Precedes(heap, list[i], list[j])
      /\ \A i \in 2 .. Len(list) : heap.mem[list[i]].prev = list[i - 1]

\* The heap is well formed: types, blocks and free list.
HeapWellFormed == TypeOK /\ HeapTiled /\ FreeListExact

\* Until sbrk first fails the four counters say what the heap holds.
CountersExact ==
  heap.oom > 0 \/
    /\ heap.free_blocks_num = Cardinality(FreeBlocks)
    /\ heap.free_bytes_num = Payload(FreeBlocks)
    /\ heap.allocated_blocks_num = Len(Blocks) + Cardinality(Maps)
    /\ heap.allocated_bytes_num = Payload(ToSet(Blocks) \cup Maps)

\* What the client was promised: each of its pointers is a used block of its
\* own, at least as large as it asked for, and holds what was stored in it,
\* across every call on other pointers and every srealloc of its own, until a fault.
ClientIntact ==
  heap.fault = "none" =>
    \A v \in {u \in Vars : Holding(u)} :
      LET c == client[v]
          b == c.p - 1
      IN  /\ b \in ToSet(Blocks) \cup Maps
          /\ ~heap.mem[b].is_free
          /\ SizeOf(heap, b) - size_meta_data >= c.size
          /\ \A u \in Vars \ {v} : client[u].p # c.p
          /\ \A i \in 0 .. c.filled - 1 :
               heap.mem[c.p + i] = IF c.fill = "zero" THEN Zero ELSE DataCell(v, i)

\* _sbrk_free merges with both neighbours (Challenge 2): a free block that touches the
\* block being freed is part of one free block with it afterwards.  (srealloc leaves
\* free blocks next to each other, so more cannot be said of the heap as a whole.)
SfreeCoalesces ==
  [][\A v \in Vars, n \in FreeBlocks :
       LET b == client[v].p - 1
           Touch == EndOf(heap, n) = b \/ EndOf(heap, b) = n
       IN  Holding(v) /\ b < HeapMax /\ client'[v].p = Nil /\ Touch =>
             \E c \in FreeBlocks' : {n, b} \subseteq c .. EndOf(heap', c) - 1]_vars

\* An allocation lets the heap grow only when no free block is large enough.  (srealloc
\* first looks at the neighbours of its own block only.)
GrowsOnlyWhenNothingFits ==
  [][heap'.brk > heap.brk /\ (\A v \in Vars : Holding(v) => client'[v] = client[v]) =>
       \E v \in Vars :
         /\ client'[v] # client[v]
         /\ \A b \in FreeBlocks : SizeOf(heap, b) < client'[v].size + size_meta_data]_vars
=============================================================================
