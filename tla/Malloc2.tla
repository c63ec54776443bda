------------------------------- MODULE Malloc2 -------------------------------
(***************************************************************************)
(* The first-fit allocator of hw4 malloc_2.cpp.  The heap is the row of    *)
(* blocks from global_head to the program break; a block is never split,   *)
(* merged or given back, so a pointer is the index of its block.  Each C   *)
(* function is an operator from a heap to a heap, and one action is one    *)
(* whole call.  What the client stores is left out.                        *)
(***************************************************************************)
EXTENDS Integers, Sequences, FiniteSets, FiniteSetsExt

CONSTANTS Vars,      \* the client's pointer variables
          Sizes,     \* payload sizes the client asks for
          SizeLimit, \* SIZE_LIMIT
          Meta,      \* sizeof(head_metadata_t)
          HeapMax    \* sbrk fails past this break

ASSUME SizesAssumption == Sizes \subseteq Nat /\ Meta \in Nat

VARIABLES heap,      \* the blocks and the globals of malloc_2.cpp
          client     \* each variable's block and the size asked for

vars == <<heap, client>>

Nil == 0

Init ==
  /\ heap = [blocks |-> <<>>, global_head |-> FALSE, fault |-> FALSE,
             free_blocks_num |-> 0, free_bytes_num |-> 0,
             allocated_blocks_num |-> 0, allocated_bytes_num |-> 0]
  /\ client = [v \in Vars |-> [p |-> Nil, size |-> 0]]

-----------------------------------------------------------------------------
BadSize(size) == size = 0 \/ size > SizeLimit

Break(h) == MapThenSumSet(LAMBDA i : h.blocks[i].size, DOMAIN h.blocks)

Refuse(h) == [h |-> h, p |-> Nil]

\* The loop ends at the last block without testing its size.
find_free_block(h, block_size) ==
  Min({Len(h.blocks)} \cup {i \in 1 .. Len(h.blocks) - 1 :
                             h.blocks[i].is_free /\ h.blocks[i].size >= block_size})

Reuse(h, i) ==
  [h |-> [h EXCEPT !.blocks[i].is_free = FALSE,
                   !.free_blocks_num = @ - 1,
                   !.free_bytes_num = @ - (h.blocks[i].size - Meta)],
   p |-> i]

\* A new block at the break, unless sbrk fails.
init_alloc_block(h, size) ==
  IF Break(h) + size + Meta > HeapMax THEN Refuse(h)
  ELSE [h |-> [h EXCEPT !.blocks = Append(@, [size |-> size + Meta, is_free |-> FALSE]),
                        !.allocated_blocks_num = @ + 1,
                        !.allocated_bytes_num = @ + size],
        p |-> Len(h.blocks) + 1]

\* global_head is set before the first block is there: if that block cannot
\* be made, the next call reads a head past the break.
smalloc(h, size) ==
  LET Found(i) == IF h.blocks[i].is_free THEN Reuse(h, i) ELSE init_alloc_block(h, size)
  IN  IF BadSize(size) THEN Refuse(h)
      ELSE IF ~h.global_head THEN init_alloc_block([h EXCEPT !.global_head = TRUE], size)
      ELSE IF h.blocks = <<>> THEN Refuse([h EXCEPT !.fault = TRUE])
      ELSE Found(find_free_block(h, size + Meta))

\* memset writes what smalloc(num * size) returned.
scalloc(h, num, size) == smalloc(h, num * size)

\* Mutant: counts a block as free again although it is free.
sfree_NoTest(h, i) ==
  [h EXCEPT !.blocks[i].is_free = TRUE,
            !.free_blocks_num = @ + 1,
            !.free_bytes_num = @ + h.blocks[i].size - Meta]

sfree(h, i) ==
  IF h.blocks[i].is_free THEN h
  ELSE [h EXCEPT !.blocks[i].is_free = TRUE,
                 !.free_blocks_num = @ + 1,
                 !.free_bytes_num = @ + h.blocks[i].size - Meta]

\* Mutant: frees the old block before it asks for the new one.
srealloc_FreeFirst(h, i, size) ==
  IF BadSize(size) THEN Refuse(h)
  ELSE IF h.blocks[i].size >= size + Meta THEN [h |-> h, p |-> i]
  ELSE smalloc(sfree(h, i), size)

srealloc(h, i, size) ==
  LET Move(new) == IF new.p = Nil THEN new ELSE [new EXCEPT !.h = sfree(@, i)]
  IN  IF BadSize(size) THEN Refuse(h)
      ELSE IF h.blocks[i].size >= size + Meta THEN [h |-> h, p |-> i]
      ELSE Move(smalloc(h, size))

-----------------------------------------------------------------------------
Holding(v) == client[v].p # Nil

Return(v, r, size) ==
  /\ heap' = r.h
  /\ client' = IF r.p = Nil THEN client ELSE [client EXCEPT ![v] = [p |-> r.p, size |-> size]]

Smalloc(v, size) == ~Holding(v) /\ Return(v, smalloc(heap, size), size)

Scalloc(v, num, size) == ~Holding(v) /\ Return(v, scalloc(heap, num, size), num * size)

Sfree(v) ==
  /\ Holding(v)
  /\ heap' = sfree(heap, client[v].p)
  /\ client' = [client EXCEPT ![v] = [p |-> Nil, size |-> 0]]

\* A block the client freed is freed again, which sfree ignores.
DoubleFree(i) ==
  /\ heap.blocks[i].is_free
  /\ heap' = sfree(heap, i)
  /\ UNCHANGED client

Srealloc(v, size) == Holding(v) /\ Return(v, srealloc(heap, client[v].p, size), size)

Next ==
  \/ heap.fault /\ UNCHANGED vars
  \/ /\ ~heap.fault
     /\ \/ \E v \in Vars, size \in Sizes : Smalloc(v, size)
        \/ \E v \in Vars, size \in Sizes : 2 * size \in Sizes /\ Scalloc(v, 2, size)
        \/ \E v \in Vars : Sfree(v)
        \/ \E i \in DOMAIN heap.blocks : DoubleFree(i)
        \/ \E v \in Vars, size \in Sizes : Srealloc(v, size)

Spec == Init /\ [][Next]_vars

-----------------------------------------------------------------------------
FreeBlocks == {i \in DOMAIN heap.blocks : heap.blocks[i].is_free}
Payload(S) == MapThenSumSet(LAMBDA i : heap.blocks[i].size - Meta, S)

\* Every variable keeps its type and no size_t counter wraps below zero.
TypeOK ==
  /\ heap.blocks \in Seq([size: Nat, is_free: BOOLEAN])
  /\ {heap.free_blocks_num, heap.free_bytes_num,
      heap.allocated_blocks_num, heap.allocated_bytes_num} \subseteq Nat
  /\ client \in [Vars -> [p: Nat, size: Nat]]

\* The four counters of malloc_2.cpp always say what the row of blocks holds.
CountersExact ==
  /\ heap.free_blocks_num = Cardinality(FreeBlocks)
  /\ heap.free_bytes_num = Payload(FreeBlocks)
  /\ heap.allocated_blocks_num = Len(heap.blocks)
  /\ heap.allocated_bytes_num = Payload(DOMAIN heap.blocks)

\* What the counters and the blocks say agrees, and has its type.
HeapSound == TypeOK /\ CountersExact

\* A used block belongs to exactly one of the client's pointers, so nothing is
\* handed out twice and nothing is lost, srealloc's move included.
BlocksOwnedOnce ==
  /\ \A v \in Vars : Holding(v) => client[v].p \in DOMAIN heap.blocks \ FreeBlocks
  /\ \A v, u \in Vars : Holding(v) /\ client[v].p = client[u].p => v = u
  /\ DOMAIN heap.blocks \ FreeBlocks \subseteq {client[v].p : v \in Vars}

\* "returns the first fit free block" (malloc_2.cpp:65): the block behind a
\* pointer is large enough for what smalloc or srealloc was asked.
FitsRequest ==
  \A v \in Vars : Holding(v) => heap.blocks[client[v].p].size >= client[v].size + Meta
=============================================================================
