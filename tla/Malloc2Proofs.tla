---------------------------- MODULE Malloc2Proofs ----------------------------
(***************************************************************************)
(* The allocator of hw4 malloc_2.cpp, for any number of pointers and all    *)
(* sizes: no block is handed out twice and none is lost, and the counters   *)
(* of blocks are exact.                                                    *)
(***************************************************************************)
EXTENDS Malloc2, FiniteSetTheorems, SequenceTheorems, WellFoundedInduction, TLAPS

Block == [size : Nat, is_free : BOOLEAN]
HeapType ==
  [blocks : Seq(Block), global_head : BOOLEAN, fault : BOOLEAN,
   free_blocks_num : Int, free_bytes_num : Int,
   allocated_blocks_num : Int, allocated_bytes_num : Int]

\* The blocks of a heap that are free, and those that are in use.
Frees(h) == {i \in DOMAIN h.blocks : h.blocks[i].is_free}
Used(h) == DOMAIN h.blocks \ Frees(h)

\* A heap whose counters of blocks are exact.
Counted(h) ==
  /\ h \in HeapType
  /\ h.free_blocks_num = Cardinality(Frees(h))
  /\ h.allocated_blocks_num = Len(h.blocks)

-----------------------------------------------------------------------------
(* Numbers.                                                                *)

\* Every set of naturals that is not empty has a least element.
LEMMA LeastNatural ==
  ASSUME NEW S \in SUBSET Nat, S # {}
  PROVE  \E m \in S : \A k \in S : m <= k
<1>1. \E m \in S : \A y \in S : ~ (<<y, m>> \in OpToRel(<, Nat))
  BY NatLessThanWellFounded, WFMin, ZenonT(30)
<1>2. \A y, m \in Nat : y < m => <<y, m>> \in OpToRel(<, Nat)
  BY SMTT(30) DEF OpToRel
<1>3. \E m \in S : \A y \in S : ~ (y < m)
  BY <1>1, <1>2, ZenonT(30)
<1> QED BY <1>3, SMTT(30)

\* find_free_block returns a block of the row.
LEMMA FoundBlock ==
  ASSUME NEW h \in HeapType, h.blocks # << >>, NEW n
  PROVE  find_free_block(h, n) \in DOMAIN h.blocks
<1>1. h.blocks \in Seq(Block)
  BY SMTT(30) DEF HeapType
<1>2. Len(h.blocks) \in Nat /\ Len(h.blocks) >= 1 /\ DOMAIN h.blocks = 1 .. Len(h.blocks)
  BY <1>1, EmptySeq, LenProperties, SMTT(30)
<1>3. PICK S : S = {Len(h.blocks)} \cup {i \in 1 .. Len(h.blocks) - 1 :
                             h.blocks[i].is_free /\ h.blocks[i].size >= n}
  BY ZenonT(30)
<1>4. S \subseteq 1 .. Len(h.blocks) /\ S \in SUBSET Nat /\ S # {}
  <2>1. 1 .. Len(h.blocks) - 1 \subseteq 1 .. Len(h.blocks) /\ Len(h.blocks) \in 1 .. Len(h.blocks)
        /\ 1 .. Len(h.blocks) \subseteq Nat
    BY <1>2, SMTT(30)
  <2> QED BY <1>3, <2>1, ZenonT(30)
<1>5. Min(S) \in S
  BY <1>4, LeastNatural, ZenonT(30) DEF Min
<1> QED BY <1>2, <1>3, <1>4, <1>5, ZenonT(30) DEF find_free_block

-----------------------------------------------------------------------------
(* What each function does to the blocks in use.                           *)

\* A block changes between free and used.
Differ(h, i, free, blocks) ==
  /\ blocks \in Seq(Block) /\ Len(blocks) = Len(h.blocks)
  /\ DOMAIN blocks = DOMAIN h.blocks
  /\ blocks[i].is_free <=> free
  /\ \A j \in DOMAIN h.blocks : j # i => blocks[j] = h.blocks[j]

\* An assignment to is_free changes one block and leaves the row as long.
LEMMA Flipped ==
  ASSUME NEW h \in HeapType, NEW i \in DOMAIN h.blocks, NEW free \in BOOLEAN
  PROVE  Differ(h, i, free, [h.blocks EXCEPT ![i].is_free = free])
<1>0. PICK blocks : blocks = [h.blocks EXCEPT ![i].is_free = free]
  BY ZenonT(30)
<1>1. h.blocks \in Seq(Block)
  BY SMTT(30) DEF HeapType
<1>2. /\ Len(h.blocks) \in Nat /\ DOMAIN h.blocks = 1 .. Len(h.blocks)
      /\ h.blocks \in [1 .. Len(h.blocks) -> Block]
  BY <1>1, LenProperties, SMTT(30)
<1>3. h.blocks[i] \in Block
  BY <1>2, ZenonT(30)
<1>4. PICK b : b = [h.blocks[i] EXCEPT !.is_free = free]
  BY ZenonT(30)
<1>5. b \in Block /\ (b.is_free <=> free)
  BY <1>3, <1>4, ZenonT(30) DEF Block
<1>6. blocks = [h.blocks EXCEPT ![i] = b]
  BY <1>0, <1>4, ZenonT(30)
<1>7. /\ blocks \in [1 .. Len(h.blocks) -> Block] /\ blocks[i] = b
      /\ \A j \in DOMAIN h.blocks : j # i => blocks[j] = h.blocks[j]
  BY <1>2, <1>5, <1>6, ZenonT(30)
<1>8. blocks \in Seq(Block) /\ Len(blocks) = Len(h.blocks) /\ DOMAIN blocks = 1 .. Len(h.blocks)
  BY <1>2, <1>7, SMTT(30)
<1> QED BY <1>0, <1>2, <1>5, <1>7, <1>8, ZenonT(30) DEF Differ

\* What Append makes of a sequence.
Appended(S, s, e, v) ==
  /\ v \in Seq(S) /\ Len(v) = Len(s) + 1
  /\ \A i \in 1 .. Len(s) : v[i] = s[i]
  /\ v[Len(s) + 1] = e

\* Append keeps the elements and puts one after them.
LEMMA AppendOne ==
  ASSUME NEW S, NEW s \in Seq(S), NEW e \in S
  PROVE  Appended(S, s, e, Append(s, e))
  BY AppendProperties, SMTT(30) DEF Appended

\* A block of the row is free or in use, and there are finitely many.
LEMMA RowFacts ==
  ASSUME NEW h \in HeapType
  PROVE  /\ h.blocks \in Seq(Block) /\ Len(h.blocks) \in Nat
         /\ DOMAIN h.blocks = 1 .. Len(h.blocks)
         /\ IsFiniteSet(Frees(h)) /\ Cardinality(Frees(h)) \in Nat
         /\ 0 \notin DOMAIN h.blocks /\ DOMAIN h.blocks \subseteq Nat
<1>1. h.blocks \in Seq(Block)
  BY SMTT(30) DEF HeapType
<1>2. Len(h.blocks) \in Nat /\ DOMAIN h.blocks = 1 .. Len(h.blocks)
  BY <1>1, LenProperties, SMTT(30)
<1>3. IsFiniteSet(1 .. Len(h.blocks))
  BY <1>2, FS_Interval, SMTT(30)
<1>4. Frees(h) \subseteq 1 .. Len(h.blocks)
  BY <1>2, ZenonT(30) DEF Frees
<1>5. IsFiniteSet(Frees(h))
  BY <1>3, <1>4, FS_Subset, ZenonT(30)
<1>6. Cardinality(Frees(h)) \in Nat
  BY <1>5, FS_CardinalityType, ZenonT(30)
<1>7. 0 \notin 1 .. Len(h.blocks) /\ 1 .. Len(h.blocks) \subseteq Nat
  BY <1>2, SMTT(30)
<1> QED BY <1>1, <1>2, <1>5, <1>6, <1>7, ZenonT(30)

\* What a function that returns a block has done: none is returned and the blocks in
\* use are the same, or one that was not in use is now.
Gives(h, r) ==
  /\ Counted(r.h)
  /\ \/ r.p = Nil /\ Used(r.h) = Used(h)
     \/ r.p \in Nat \ ({Nil} \cup Used(h)) /\ Used(r.h) = Used(h) \cup {r.p}

\* A call that returns NULL and leaves the heap alone gives no block.
LEMMA RefuseGives ==
  ASSUME NEW h, Counted(h)
  PROVE  Gives(h, Refuse(h))
<1>1. Refuse(h).h = h /\ Refuse(h).p = Nil
  BY ZenonT(30) DEF Refuse
<1> QED BY <1>1, ZenonT(30) DEF Gives

\* A heap with other flags, or other counters of bytes, is as good.
LEMMA SameBlocks ==
  ASSUME NEW h, Counted(h), NEW g \in HeapType, g.blocks = h.blocks,
         g.free_blocks_num = h.free_blocks_num,
         g.allocated_blocks_num = h.allocated_blocks_num
  PROVE  Counted(g) /\ Used(g) = Used(h)
<1>1. Frees(g) = Frees(h)
  BY ZenonT(30) DEF Frees
<1> QED BY <1>1, ZenonT(30) DEF Counted, Used

\* smalloc marks a free block that it found: one more block is in use, one less free.
LEMMA ReuseGives ==
  ASSUME NEW h, Counted(h), NEW i \in Frees(h)
  PROVE  Gives(h, Reuse(h, i))
<1>1. h \in HeapType /\ i \in DOMAIN h.blocks /\ i \notin Used(h)
  BY ZenonT(30) DEF Counted, Frees, Used
<1>2. PICK blocks : blocks = [h.blocks EXCEPT ![i].is_free = FALSE]
  BY ZenonT(30)
<1>3. /\ blocks \in Seq(Block) /\ Len(blocks) = Len(h.blocks)
      /\ DOMAIN blocks = DOMAIN h.blocks /\ ~blocks[i].is_free
      /\ \A j \in DOMAIN h.blocks : j # i => blocks[j] = h.blocks[j]
  <2>1. Differ(h, i, FALSE, [h.blocks EXCEPT ![i].is_free = FALSE])
    BY <1>1, Flipped, ZenonT(30)
  <2> QED BY <1>2, <2>1, ZenonT(30) DEF Differ
<1>4. PICK bytes \in Int : bytes = h.free_bytes_num - (h.blocks[i].size - Meta)
  <2>1. h.blocks[i] \in Block
    BY <1>1, RowFacts, ElementOfSeq, ZenonT(30)
  <2>2. h.blocks[i].size \in Nat
    BY <2>1, SMTT(30) DEF Block
  <2>3. h.free_bytes_num \in Int
    BY <1>1, SMTT(30) DEF HeapType
  <2> QED BY <2>2, <2>3, SizesAssumption, SMTT(30)
<1>5. PICK g : g = [h EXCEPT !.blocks = blocks, !.free_blocks_num = h.free_blocks_num - 1,
                             !.free_bytes_num = bytes]
  OBVIOUS
<1>6. Reuse(h, i) = [h |-> g, p |-> i]
  BY <1>2, <1>4, <1>5, ZenonT(30) DEF Reuse
<1>7. /\ g \in HeapType /\ g.blocks = blocks
      /\ g.free_blocks_num = h.free_blocks_num - 1
      /\ g.allocated_blocks_num = h.allocated_blocks_num
  <2>1. h.free_blocks_num - 1 \in Int
    BY <1>1, SMTT(30) DEF HeapType
  <2> QED BY <1>1, <1>3, <1>4, <1>5, <2>1, ZenonT(30) DEF HeapType
<1>8. Frees(g) = Frees(h) \ {i}
  BY <1>1, <1>3, <1>7, ZenonT(30) DEF Frees
<1>9. Used(g) = Used(h) \cup {i}
  BY <1>1, <1>3, <1>7, <1>8, ZenonT(30) DEF Used
<1>10. Cardinality(Frees(g)) = Cardinality(Frees(h)) - 1
  <2>1. IsFiniteSet(Frees(h))
    BY <1>1, RowFacts, ZenonT(30)
  <2> QED BY <1>8, <2>1, FS_RemoveElement, ZenonT(30)
<1>11. Counted(g)
  BY <1>3, <1>7, <1>10, ZenonT(30) DEF Counted
<1>12. i \in Nat \ ({Nil} \cup Used(h))
  BY <1>1, RowFacts, ZenonT(30) DEF Nil
<1>13. Reuse(h, i).h = g /\ Reuse(h, i).p = i
  <2>1. [h |-> g, p |-> i].h = g /\ [h |-> g, p |-> i].p = i
    BY SMTT(30)
  <2> QED BY <1>6, <2>1, ZenonT(30)
<1> QED BY <1>9, <1>11, <1>12, <1>13, ZenonT(30) DEF Gives

\* smalloc puts a new block at the end of the row: one more block, and it is in use.
LEMMA AppendGives ==
  ASSUME NEW h, Counted(h), NEW size \in Nat
  PROVE  Gives(h, init_alloc_block(h, size))
<1>1. CASE Break(h) + size + Meta > HeapMax
  BY <1>1, RefuseGives, ZenonT(30) DEF init_alloc_block
<1>2. CASE ~(Break(h) + size + Meta > HeapMax)
  <2>1. h \in HeapType
    BY DEF Counted
  <2>2. PICK n \in Nat : n = Len(h.blocks)
    BY <2>1, RowFacts, ZenonT(30)
  <2>3. PICK b : b = [size |-> size + Meta, is_free |-> FALSE]
    BY ZenonT(30)
  <2>4. b \in Block /\ ~b.is_free
    <3>1. size + Meta \in Nat /\ FALSE \in BOOLEAN
      BY SizesAssumption, SMTT(30)
    <3> QED BY <2>3, <3>1, ZenonT(30) DEF Block
  <2>5. PICK blocks : blocks = Append(h.blocks, b)
    BY ZenonT(30)
  <2>6. /\ blocks \in Seq(Block) /\ Len(blocks) = n + 1
        /\ \A i \in 1 .. n : blocks[i] = h.blocks[i]
        /\ blocks[n + 1] = b
    <3>1. h.blocks \in Seq(Block)
      BY <2>1, RowFacts, ZenonT(30)
    <3>2. Appended(Block, h.blocks, b, Append(h.blocks, b))
      BY <2>4, <3>1, AppendOne, ZenonT(30)
    <3> QED BY <2>2, <2>5, <3>2, ZenonT(30) DEF Appended
  <2>7. /\ DOMAIN blocks = 1 .. n + 1 /\ DOMAIN h.blocks = 1 .. n
        /\ 1 .. n + 1 = (1 .. n) \cup {n + 1} /\ n + 1 \notin 1 .. n /\ n + 1 \in Nat \ {0}
    <3>1. DOMAIN h.blocks = 1 .. n
      BY <2>1, <2>2, RowFacts, ZenonT(30)
    <3>2. DOMAIN blocks = 1 .. n + 1
      BY <2>6, LenProperties, ZenonT(30)
    <3>3. 1 .. n + 1 = (1 .. n) \cup {n + 1} /\ n + 1 \notin 1 .. n /\ n + 1 \in Nat \ {0}
      BY SMTT(30)
    <3> QED BY <3>1, <3>2, <3>3, SMTT(30)
  <2>8. PICK g : g = [h EXCEPT !.blocks = blocks,
                               !.allocated_blocks_num = h.allocated_blocks_num + 1,
                               !.allocated_bytes_num = h.allocated_bytes_num + size]
    OBVIOUS
  <2>9. init_alloc_block(h, size) = [h |-> g, p |-> n + 1]
    BY <1>2, <2>2, <2>3, <2>5, <2>8, ZenonT(30) DEF init_alloc_block
  <2>10. /\ g \in HeapType /\ g.blocks = blocks
         /\ g.free_blocks_num = h.free_blocks_num
         /\ g.allocated_blocks_num = h.allocated_blocks_num + 1
    <3>1. h.allocated_blocks_num + 1 \in Int /\ h.allocated_bytes_num + size \in Int
      BY <2>1, SMTT(30) DEF HeapType
    <3> QED BY <2>1, <2>6, <2>8, <3>1, ZenonT(30) DEF HeapType
  <2>11. Frees(g) = Frees(h)
    BY <2>4, <2>6, <2>7, <2>10, ZenonT(30) DEF Frees
  <2>12. Used(g) = Used(h) \cup {n + 1} /\ n + 1 \notin Used(h)
    BY <2>4, <2>6, <2>7, <2>10, <2>11, ZenonT(30) DEF Used, Frees
  <2>13. Counted(g)
    BY <2>2, <2>6, <2>10, <2>11, ZenonT(30) DEF Counted
  <2>14. init_alloc_block(h, size).h = g /\ init_alloc_block(h, size).p = n + 1
    <3>1. [h |-> g, p |-> n + 1].h = g /\ [h |-> g, p |-> n + 1].p = n + 1
      BY SMTT(30)
    <3> QED BY <2>9, <3>1, ZenonT(30)
  <2>15. n + 1 \in Nat \ ({Nil} \cup Used(h))
    BY <2>7, <2>12, ZenonT(30) DEF Nil
  <2> QED BY <2>12, <2>13, <2>14, <2>15, ZenonT(30) DEF Gives
<1> QED BY <1>1, <1>2

\* A size that smalloc is asked for gives a block that was not in use, or none.
LEMMA SmallocGives ==
  ASSUME NEW h, Counted(h), NEW size \in Nat
  PROVE  Gives(h, smalloc(h, size))
<1>1. h \in HeapType
  BY DEF Counted
<1>2. CASE BadSize(size)
  BY <1>2, RefuseGives, ZenonT(30) DEF smalloc
<1>3. CASE ~BadSize(size) /\ ~h.global_head
  <2>1. PICK g : g = [h EXCEPT !.global_head = TRUE]
    BY ZenonT(30)
  <2>2. /\ g \in HeapType /\ g.blocks = h.blocks
        /\ g.free_blocks_num = h.free_blocks_num
        /\ g.allocated_blocks_num = h.allocated_blocks_num
    <3>1. TRUE \in BOOLEAN
      OBVIOUS
    <3> QED BY <1>1, <2>1, <3>1, ZenonT(30) DEF HeapType
  <2>3. Counted(g) /\ Used(g) = Used(h)
    BY <2>2, SameBlocks, ZenonT(30)
  <2>4. Gives(g, init_alloc_block(g, size))
    BY <2>3, AppendGives, ZenonT(30)
  <2>5. smalloc(h, size) = init_alloc_block(g, size)
    BY <1>3, <2>1, ZenonT(30) DEF smalloc
  <2> QED BY <2>3, <2>4, <2>5, ZenonT(30) DEF Gives
<1>4. CASE ~BadSize(size) /\ h.global_head /\ h.blocks = << >>
  <2>1. PICK g : g = [h EXCEPT !.fault = TRUE]
    BY ZenonT(30)
  <2>2. /\ g \in HeapType /\ g.blocks = h.blocks
        /\ g.free_blocks_num = h.free_blocks_num
        /\ g.allocated_blocks_num = h.allocated_blocks_num
    <3>1. TRUE \in BOOLEAN
      OBVIOUS
    <3> QED BY <1>1, <2>1, <3>1, ZenonT(30) DEF HeapType
  <2>3. Counted(g) /\ Used(g) = Used(h)
    BY <2>2, SameBlocks, ZenonT(30)
  <2>4. Gives(g, Refuse(g))
    BY <2>3, RefuseGives, ZenonT(30)
  <2>5. smalloc(h, size) = Refuse(g)
    BY <1>4, <2>1, ZenonT(30) DEF smalloc
  <2> QED BY <2>3, <2>4, <2>5, ZenonT(30) DEF Gives
<1>5. CASE ~BadSize(size) /\ h.global_head /\ h.blocks # << >>
  <2>1. PICK i \in DOMAIN h.blocks : i = find_free_block(h, size + Meta)
    BY <1>1, <1>5, FoundBlock, ZenonT(30)
  <2>2. smalloc(h, size) =
          IF h.blocks[i].is_free THEN Reuse(h, i) ELSE init_alloc_block(h, size)
    BY <1>5, <2>1, ZenonT(30) DEF smalloc
  <2>3. CASE h.blocks[i].is_free
    BY <2>2, <2>3, ReuseGives, ZenonT(30) DEF Frees
  <2>4. CASE ~h.blocks[i].is_free
    BY <2>2, <2>4, AppendGives, ZenonT(30)
  <2> QED BY <2>3, <2>4
<1> QED BY <1>2, <1>3, <1>4, <1>5, ZenonT(30)

\* A block that is freed is no longer in use, and no other changes; one that is free
\* already stays as it is.
LEMMA SfreeFrees ==
  ASSUME NEW h, Counted(h), NEW i \in DOMAIN h.blocks
  PROVE  Counted(sfree(h, i)) /\ Used(sfree(h, i)) = Used(h) \ {i}
<1>1. h \in HeapType
  BY DEF Counted
<1>2. CASE h.blocks[i].is_free
  <2>1. sfree(h, i) = h
    BY <1>2, ZenonT(30) DEF sfree
  <2>2. Used(h) = Used(h) \ {i}
    BY <1>2, ZenonT(30) DEF Used, Frees
  <2> QED BY <2>1, <2>2, ZenonT(30)
<1>3. CASE ~h.blocks[i].is_free
  <2>1. PICK blocks : blocks = [h.blocks EXCEPT ![i].is_free = TRUE]
    BY ZenonT(30)
  <2>2. /\ blocks \in Seq(Block) /\ Len(blocks) = Len(h.blocks)
        /\ DOMAIN blocks = DOMAIN h.blocks /\ blocks[i].is_free
        /\ \A j \in DOMAIN h.blocks : j # i => blocks[j] = h.blocks[j]
    <3>1. Differ(h, i, TRUE, [h.blocks EXCEPT ![i].is_free = TRUE])
      BY <1>1, Flipped, ZenonT(30)
    <3> QED BY <2>1, <3>1, ZenonT(30) DEF Differ
  <2>3. PICK bytes \in Int : bytes = h.free_bytes_num + h.blocks[i].size - Meta
    <3>1. h.blocks[i] \in Block
      BY <1>1, RowFacts, ElementOfSeq, ZenonT(30)
    <3>2. h.blocks[i].size \in Nat
      BY <3>1, SMTT(30) DEF Block
    <3>3. h.free_bytes_num \in Int
      BY <1>1, SMTT(30) DEF HeapType
    <3> QED BY <3>2, <3>3, SizesAssumption, SMTT(30)
  <2>4. PICK g : g = [h EXCEPT !.blocks = blocks, !.free_blocks_num = h.free_blocks_num + 1,
                               !.free_bytes_num = bytes]
    OBVIOUS
  <2>5. sfree(h, i) = g
    BY <1>3, <2>1, <2>3, <2>4, ZenonT(30) DEF sfree
  <2>6. /\ g \in HeapType /\ g.blocks = blocks
        /\ g.free_blocks_num = h.free_blocks_num + 1
        /\ g.allocated_blocks_num = h.allocated_blocks_num
    <3>1. h.free_blocks_num + 1 \in Int
      BY <1>1, SMTT(30) DEF HeapType
    <3> QED BY <1>1, <2>2, <2>3, <2>4, <3>1, ZenonT(30) DEF HeapType
  <2>7. Frees(g) = Frees(h) \cup {i} /\ i \notin Frees(h)
    BY <1>3, <2>2, <2>6, ZenonT(30) DEF Frees
  <2>8. Used(g) = Used(h) \ {i}
    BY <2>2, <2>6, <2>7, ZenonT(30) DEF Used
  <2>9. Cardinality(Frees(g)) = Cardinality(Frees(h)) + 1
    <3>1. IsFiniteSet(Frees(h))
      BY <1>1, RowFacts, ZenonT(30)
    <3> QED BY <2>7, <3>1, FS_AddElement, ZenonT(30)
  <2>10. Counted(g)
    BY <2>2, <2>6, <2>9, ZenonT(30) DEF Counted
  <2> QED BY <2>5, <2>8, <2>10, ZenonT(30)
<1> QED BY <1>2, <1>3

\* What smalloc returns is a heap and a pointer.
LEMMA SmallocRecord ==
  ASSUME NEW h, NEW size
  PROVE  \E g, q : smalloc(h, size) = [h |-> g, p |-> q]
<1>1. ASSUME NEW g PROVE \E x, q : Refuse(g) = [h |-> x, p |-> q]
  BY ZenonT(30) DEF Refuse
<1>2. ASSUME NEW g PROVE \E x, q : init_alloc_block(g, size) = [h |-> x, p |-> q]
  BY <1>1, ZenonT(30) DEF init_alloc_block
<1>3. ASSUME NEW i PROVE \E x, q : Reuse(h, i) = [h |-> x, p |-> q]
  BY ZenonT(30) DEF Reuse
<1> QED BY <1>1, <1>2, <1>3, ZenonT(30) DEF smalloc

\* srealloc of a block in use returns none, the same block, or another one that was
\* not in use instead of it.
LEMMA SreallocGives ==
  ASSUME NEW h, Counted(h), NEW i \in Used(h), NEW size \in Nat
  PROVE  /\ Counted(srealloc(h, i, size).h)
         /\ \/ /\ srealloc(h, i, size).p \in {Nil, i}
               /\ Used(srealloc(h, i, size).h) = Used(h)
            \/ /\ srealloc(h, i, size).p \in Nat \ ({Nil} \cup Used(h))
               /\ Used(srealloc(h, i, size).h) = (Used(h) \ {i}) \cup {srealloc(h, i, size).p}
<1>1. CASE BadSize(size)
  <2>1. srealloc(h, i, size) = Refuse(h)
    BY <1>1, ZenonT(30) DEF srealloc
  <2>2. Refuse(h).h = h /\ Refuse(h).p = Nil
    BY ZenonT(30) DEF Refuse
  <2> QED BY <2>1, <2>2, ZenonT(30)
<1>2. CASE ~BadSize(size) /\ h.blocks[i].size >= size + Meta
  <2>1. srealloc(h, i, size) = [h |-> h, p |-> i]
    BY <1>2, ZenonT(30) DEF srealloc
  <2>2. [h |-> h, p |-> i].h = h /\ [h |-> h, p |-> i].p = i
    BY SMTT(30)
  <2> QED BY <2>1, <2>2, ZenonT(30)
<1>3. CASE ~BadSize(size) /\ ~(h.blocks[i].size >= size + Meta)
  <2>1. PICK new : new = smalloc(h, size)
    OBVIOUS
  <2>2. Gives(h, new)
    BY <2>1, SmallocGives, ZenonT(30)
  <2>3. srealloc(h, i, size) = IF new.p = Nil THEN new ELSE [new EXCEPT !.h = sfree(@, i)]
    BY <1>3, <2>1, ZenonT(30) DEF srealloc
  <2>4. CASE new.p = Nil
    BY <2>2, <2>3, <2>4, ZenonT(30) DEF Gives
  <2>5. CASE new.p # Nil
    <3>1. /\ new.p \in Nat \ ({Nil} \cup Used(h)) /\ Counted(new.h)
          /\ Used(new.h) = Used(h) \cup {new.p}
      BY <2>2, <2>5, ZenonT(30) DEF Gives
    <3>2. i \in DOMAIN new.h.blocks
      BY <3>1, ZenonT(30) DEF Used
    <3>3. /\ Counted(sfree(new.h, i))
          /\ Used(sfree(new.h, i)) = (Used(h) \cup {new.p}) \ {i}
      BY <3>1, <3>2, SfreeFrees, ZenonT(30)
    <3>4. (Used(h) \cup {new.p}) \ {i} = (Used(h) \ {i}) \cup {new.p}
      BY <3>1, ZenonT(30)
    <3>5. srealloc(h, i, size).h = sfree(new.h, i) /\ srealloc(h, i, size).p = new.p
      <4>1. PICK g, q : new = [h |-> g, p |-> q]
        BY <2>1, SmallocRecord, ZenonT(30)
      <4>2. new.h = g /\ new.p = q
        BY <4>1, SMTT(30)
      <4>3. [new EXCEPT !.h = sfree(@, i)] = [h |-> sfree(g, i), p |-> q]
        BY <4>1, <4>2, SMTT(30)
      <4>4. [h |-> sfree(g, i), p |-> q].h = sfree(g, i) /\ [h |-> sfree(g, i), p |-> q].p = q
        BY SMTT(30)
      <4> QED BY <2>3, <2>5, <4>2, <4>3, <4>4, ZenonT(30)
    <3> QED BY <3>1, <3>3, <3>4, <3>5, ZenonT(30)
  <2> QED BY <2>4, <2>5
<1> QED BY <1>1, <1>2, <1>3, SMTT(30)

-----------------------------------------------------------------------------
(* The client's pointers.                                                  *)

\* The pointers of a client are those of the blocks in use, each held once.
Holds(c, used) ==
  /\ \A v \in Vars : c[v].p # Nil => c[v].p \in used
  /\ \A v, u \in Vars : c[v].p # Nil /\ c[v].p = c[u].p => v = u
  /\ used \subseteq {c[v].p : v \in Vars}

ClientType == [Vars -> [p : Nat, size : Nat]]

\* The inductive invariant.
OInv == Counted(heap) /\ client \in ClientType /\ Holds(client, Used(heap))

\* What the client becomes when one of its variables is assigned.
Assigned(c, d, v, q) ==
  d \in ClientType /\ d[v].p = q /\ \A u \in Vars : u # v => d[u] = c[u]

\* An assignment to a variable changes that variable only.
LEMMA Stored ==
  ASSUME NEW c \in ClientType, NEW v \in Vars, NEW q \in Nat, NEW n \in Nat,
         NEW d, d = [c EXCEPT ![v] = [p |-> q, size |-> n]]
  PROVE  Assigned(c, d, v, q)
  BY SMTT(30) DEF ClientType, Assigned

\* A variable that holds nothing gets a block that was not in use.
LEMMA Given ==
  ASSUME OInv, NEW v \in Vars, ~Holding(v), NEW r, Gives(heap, r), NEW n \in Nat,
         Return(v, r, n)
  PROVE  OInv'
<1>1. heap' = r.h /\ Counted(heap')
  BY ZenonT(30) DEF Return, Gives
<1>2. CASE r.p = Nil
  <2>1. client' = client /\ Used(heap') = Used(heap)
    BY <1>2, <1>1, ZenonT(30) DEF Return, Gives
  <2> QED BY <1>1, <2>1, ZenonT(30) DEF OInv
<1>3. CASE r.p # Nil
  <2>1. /\ client' = [client EXCEPT ![v] = [p |-> r.p, size |-> n]]
        /\ r.p \in Nat /\ r.p \notin Used(heap) /\ Used(heap') = Used(heap) \cup {r.p}
    BY <1>3, <1>1, ZenonT(30) DEF Return, Gives
  <2>2. client' \in ClientType /\ client'[v].p = r.p /\ \A u \in Vars : u # v => client'[u] = client[u]
    <3>1. client \in ClientType
      BY DEF OInv
    <3>2. Assigned(client, client', v, r.p)
      BY <2>1, <3>1, Stored, ZenonT(30)
    <3> QED BY <3>2, ZenonT(30) DEF Assigned
  <2>3. client[v].p = Nil
    BY DEF Holding
  <2>4. Holds(client', Used(heap'))
    <3>1. Nil \notin Used(heap)
      <4>1. heap \in HeapType
        BY DEF OInv, Counted
      <4> QED BY <4>1, RowFacts, ZenonT(30) DEF Used, Nil
    <3>2. \A u \in Vars : client'[u].p # Nil => client'[u].p \in Used(heap')
      BY <2>1, <2>2, ZenonT(30) DEF OInv, Holds
    <3>3. ASSUME NEW u \in Vars, NEW w \in Vars, client'[u].p # Nil,
                 client'[u].p = client'[w].p
          PROVE  u = w
      BY <2>1, <2>2, <3>3, ZenonT(30) DEF OInv, Holds
    <3>4. ASSUME NEW b \in Used(heap') PROVE \E u \in Vars : b = client'[u].p
      <4>1. CASE b = r.p
        BY <2>2, <4>1, ZenonT(30)
      <4>2. CASE b \in Used(heap)
        <5>1. PICK u \in Vars : b = client[u].p
          BY <4>2, ZenonT(30) DEF OInv, Holds
        <5>2. u # v
          BY <2>3, <3>1, <4>2, <5>1, ZenonT(30)
        <5> QED BY <2>2, <5>1, <5>2, ZenonT(30)
      <4> QED BY <2>1, <4>1, <4>2, ZenonT(30)
    <3> QED BY <3>2, <3>3, <3>4, ZenonT(30) DEF Holds
  <2> QED BY <1>1, <2>2, <2>4, ZenonT(30) DEF OInv
<1> QED BY <1>2, <1>3

\* A variable gives its block back.
LEMMA GivenBack ==
  ASSUME OInv, NEW v \in Vars, Sfree(v)
  PROVE  OInv'
<1>1. PICK i : i = client[v].p
  OBVIOUS
<1>2. /\ i # Nil /\ heap' = sfree(heap, i)
      /\ client' = [client EXCEPT ![v] = [p |-> Nil, size |-> 0]]
  BY <1>1, ZenonT(30) DEF Sfree, Holding
<1>3. i \in Used(heap)
  BY <1>1, <1>2, ZenonT(30) DEF OInv, Holds
<1>4. Counted(heap') /\ Used(heap') = Used(heap) \ {i}
  <2>1. i \in DOMAIN heap.blocks
    BY <1>3, ZenonT(30) DEF Used
  <2> QED BY <1>2, <2>1, SfreeFrees, ZenonT(30) DEF OInv
<1>5. client' \in ClientType /\ client'[v].p = Nil /\ \A u \in Vars : u # v => client'[u] = client[u]
  <2>1. client \in ClientType /\ Nil \in Nat /\ 0 \in Nat
    BY DEF OInv, Nil
  <2>2. Assigned(client, client', v, Nil)
    BY <1>2, <2>1, Stored, ZenonT(30)
  <2> QED BY <2>2, ZenonT(30) DEF Assigned
<1>6. Holds(client', Used(heap'))
  <2>1. ASSUME NEW u \in Vars, client'[u].p # Nil PROVE client'[u].p \in Used(heap')
    <3>1. u # v
      BY <1>5, <2>1, ZenonT(30)
    <3>2. client[u].p \in Used(heap) /\ client[u].p # i
      BY <1>1, <1>5, <2>1, <3>1, ZenonT(30) DEF OInv, Holds
    <3> QED BY <1>4, <1>5, <3>1, <3>2, ZenonT(30)
  <2>2. ASSUME NEW u \in Vars, NEW w \in Vars, client'[u].p # Nil,
               client'[u].p = client'[w].p
        PROVE  u = w
    BY <1>5, <2>2, ZenonT(30) DEF OInv, Holds
  <2>3. ASSUME NEW b \in Used(heap') PROVE \E u \in Vars : b = client'[u].p
    <3>1. PICK u \in Vars : b = client[u].p
      BY <1>4, <2>3, ZenonT(30) DEF OInv, Holds
    <3>2. u # v
      BY <1>1, <1>4, <2>3, <3>1, ZenonT(30)
    <3> QED BY <1>5, <3>1, <3>2, ZenonT(30)
  <2> QED BY <2>1, <2>2, <2>3, ZenonT(30) DEF Holds
<1> QED BY <1>4, <1>5, <1>6 DEF OInv

\* A variable's block is resized, in its place or by a move to another one.
LEMMA Resized ==
  ASSUME OInv, NEW v \in Vars, NEW size \in Nat, Srealloc(v, size)
  PROVE  OInv'
<1>1. PICK i : i = client[v].p
  OBVIOUS
<1>2. PICK r : r = srealloc(heap, i, size)
  OBVIOUS
<1>3. i # Nil /\ heap' = r.h
      /\ client' = IF r.p = Nil THEN client ELSE [client EXCEPT ![v] = [p |-> r.p, size |-> size]]
  BY <1>1, <1>2, ZenonT(30) DEF Srealloc, Return, Holding
<1>4. i \in Used(heap)
  BY <1>1, <1>3, ZenonT(30) DEF OInv, Holds
<1>5. /\ Counted(heap')
      /\ \/ r.p \in {Nil, i} /\ Used(heap') = Used(heap)
         \/ r.p \in Nat \ ({Nil} \cup Used(heap)) /\ Used(heap') = (Used(heap) \ {i}) \cup {r.p}
  BY <1>2, <1>3, <1>4, SreallocGives, ZenonT(30) DEF OInv
<1>6. CASE r.p = Nil
  <2>1. client' = client /\ Used(heap') = Used(heap)
    BY <1>3, <1>5, <1>6, ZenonT(30)
  <2> QED BY <1>5, <2>1, ZenonT(30) DEF OInv
<1>7. CASE r.p # Nil
  <2>1. r.p \in Nat
    <3>1. i \in Nat
      BY <1>1, SMTT(30) DEF OInv, ClientType
    <3> QED BY <1>5, <1>7, <3>1, ZenonT(30)
  <2>2. client' \in ClientType /\ client'[v].p = r.p /\ \A u \in Vars : u # v => client'[u] = client[u]
    <3>1. client \in ClientType
      BY DEF OInv
    <3>2. client' = [client EXCEPT ![v] = [p |-> r.p, size |-> size]]
      BY <1>3, <1>7, ZenonT(30)
    <3>3. Assigned(client, client', v, r.p)
      BY <2>1, <3>1, <3>2, Stored, ZenonT(30)
    <3> QED BY <3>3, ZenonT(30) DEF Assigned
  <2>3. \A u \in Vars : u # v => client[u].p # i
    BY <1>1, <1>3, ZenonT(30) DEF OInv, Holds
  <2>4. r.p = i \/ r.p \notin Used(heap)
    BY <1>5, <1>7, ZenonT(30)
  <2>5. \A b : b \in Used(heap') <=> b = r.p \/ (b \in Used(heap) /\ b # i)
    <3>1. CASE r.p = i /\ Used(heap') = Used(heap)
      BY <1>4, <3>1, ZenonT(30)
    <3>2. CASE Used(heap') = (Used(heap) \ {i}) \cup {r.p}
      BY <3>2, ZenonT(30)
    <3> QED BY <1>5, <1>7, <3>1, <3>2, ZenonT(30)
  <2>6. Holds(client', Used(heap'))
    <3>1. ASSUME NEW u \in Vars, client'[u].p # Nil PROVE client'[u].p \in Used(heap')
      <4>1. CASE u = v
        BY <2>2, <2>5, <4>1, ZenonT(30)
      <4>2. CASE u # v
        BY <2>2, <2>3, <2>5, <3>1, <4>2, ZenonT(30) DEF OInv, Holds
      <4> QED BY <4>1, <4>2
    <3>2. ASSUME NEW u \in Vars, u # v, client'[u].p # Nil PROVE client'[u].p # r.p
      BY <2>2, <2>3, <2>4, <3>2, ZenonT(30) DEF OInv, Holds
    <3>3. ASSUME NEW u \in Vars, NEW w \in Vars, client'[u].p # Nil,
                 client'[u].p = client'[w].p
          PROVE  u = w
      BY <2>2, <3>2, <3>3, ZenonT(30) DEF OInv, Holds
    <3>4. ASSUME NEW b \in Used(heap') PROVE \E u \in Vars : b = client'[u].p
      <4>1. CASE b = r.p
        BY <2>2, <4>1, ZenonT(30)
      <4>2. CASE b # r.p
        <5>1. PICK u \in Vars : b = client[u].p
          BY <2>5, <3>4, <4>2, ZenonT(30) DEF OInv, Holds
        <5>2. u # v
          BY <1>1, <2>5, <3>4, <4>2, <5>1, ZenonT(30)
        <5> QED BY <2>2, <5>1, <5>2, ZenonT(30)
      <4> QED BY <4>1, <4>2
    <3> QED BY <3>1, <3>3, <3>4, ZenonT(30) DEF Holds
  <2> QED BY <1>5, <2>2, <2>6, SMTT(30) DEF OInv
<1> QED BY <1>6, <1>7, SMTT(30)

\* At the beginning there are no blocks and no pointers.
LEMMA InitOInv == Init => OInv
<1> SUFFICES ASSUME Init PROVE OInv
  OBVIOUS
<1>1. /\ heap.blocks = << >> /\ heap.free_blocks_num = 0 /\ heap.allocated_blocks_num = 0
  BY SMTT(30) DEF Init
<1>2. heap \in HeapType
  <2>1. << >> \in Seq(Block) /\ 0 \in Int /\ FALSE \in BOOLEAN
    BY EmptySeq, SMTT(30)
  <2> QED BY <2>1, ZenonT(30) DEF Init, HeapType
<1>3. DOMAIN heap.blocks = {} /\ Len(heap.blocks) = 0
  BY <1>1, SMTT(30)
<1>4. Frees(heap) = {} /\ Used(heap) = {}
  BY <1>3, ZenonT(30) DEF Frees, Used
<1>5. Counted(heap)
  BY <1>1, <1>2, <1>3, <1>4, FS_EmptySet, ZenonT(30) DEF Counted
<1>6. client \in ClientType /\ \A v \in Vars : client[v].p = Nil
  BY SMTT(30) DEF Init, ClientType, Nil
<1>7. Holds(client, Used(heap))
  BY <1>4, <1>6, ZenonT(30) DEF Holds
<1> QED BY <1>5, <1>6, <1>7 DEF OInv

\* Every call keeps it.
LEMMA NextOInv == OInv /\ [Next]_vars => OInv'
<1> SUFFICES ASSUME OInv, [Next]_vars PROVE OInv'
  OBVIOUS
<1>1. CASE UNCHANGED vars
  BY <1>1, ZenonT(30) DEF vars, OInv
<1>2. ASSUME NEW v \in Vars, NEW size \in Sizes, Smalloc(v, size) PROVE OInv'
  <2>1. size \in Nat
    BY SizesAssumption, ZenonT(30)
  <2>2. Gives(heap, smalloc(heap, size))
    BY <2>1, SmallocGives, ZenonT(30) DEF OInv
  <2> QED BY <1>2, <2>1, <2>2, Given, ZenonT(30) DEF Smalloc
<1>3. ASSUME NEW v \in Vars, NEW size \in Sizes, 2 * size \in Sizes, Scalloc(v, 2, size)
      PROVE  OInv'
  <2>1. 2 * size \in Nat
    BY <1>3, SizesAssumption, ZenonT(30)
  <2>2. Gives(heap, scalloc(heap, 2, size))
    BY <2>1, SmallocGives, ZenonT(30) DEF OInv, scalloc
  <2> QED BY <1>3, <2>1, <2>2, Given, ZenonT(30) DEF Scalloc
<1>4. ASSUME NEW v \in Vars, Sfree(v) PROVE OInv'
  BY <1>4, GivenBack, ZenonT(30)
<1>5. ASSUME NEW i \in DOMAIN heap.blocks, DoubleFree(i) PROVE OInv'
  <2>1. heap' = heap /\ client' = client
    BY <1>5, ZenonT(30) DEF DoubleFree, sfree
  <2> QED BY <2>1, ZenonT(30) DEF OInv
<1>6. ASSUME NEW v \in Vars, NEW size \in Sizes, Srealloc(v, size) PROVE OInv'
  <2>1. size \in Nat
    BY SizesAssumption, ZenonT(30)
  <2> QED BY <1>6, <2>1, Resized, ZenonT(30)
<1> QED BY <1>1, <1>2, <1>3, <1>4, <1>5, <1>6, ZenonT(30) DEF Next

\* So it always holds.
LEMMA OwnersInv == Spec => []OInv
  BY InitOInv, NextOInv, PTL DEF Spec

\* BlocksOwnedOnce: after any calls, failing ones included, every block in use belongs to
\* one pointer of the client: smalloc never hands out a block twice, and srealloc
\* loses none when it moves.
THEOREM OwnersCorrect == Spec => []BlocksOwnedOnce
<1>1. OInv => BlocksOwnedOnce
  BY ZenonT(30) DEF OInv, Holds, BlocksOwnedOnce, Holding, Used, Frees, FreeBlocks
<1> QED BY <1>1, OwnersInv, PTL

\* The counters of blocks (the sums of bytes are left to the runs) say what the row of
\* blocks holds, a block that was freed twice being counted once.
THEOREM BlocksCounted ==
  Spec => [](/\ heap.free_blocks_num = Cardinality(FreeBlocks)
             /\ heap.allocated_blocks_num = Len(heap.blocks))
<1>1. OInv => /\ heap.free_blocks_num = Cardinality(FreeBlocks)
              /\ heap.allocated_blocks_num = Len(heap.blocks)
  BY ZenonT(30) DEF OInv, Counted, Frees, FreeBlocks
<1> QED BY <1>1, OwnersInv, PTL
=============================================================================
