------------------------- MODULE CyclicQueueProofs -------------------------
(***************************************************************************)
(* What add_queue_element and remove_queue_element do to the number of     *)
(* elements of a ring of any size, over any set of elements.               *)
(***************************************************************************)
EXTENDS CyclicQueue, SequenceTheorems, TLAPS

\* `% size' in server.c only ever wraps an index that is one past the end.
LEMMA WrapOnce ==
  ASSUME NEW a \in 0 .. Size
  PROVE  a % Size = IF a = Size THEN 0 ELSE a
BY SizeAssumption

\* The ring that init_cyclic_queue builds is well formed and empty.
LEMMA InitQueue ==
  ASSUME NEW S, NoSession \in S
  PROVE  /\ init_cyclic_queue \in CyclicQueueOf(S)
         /\ QueueOK(init_cyclic_queue)
         /\ Count(init_cyclic_queue) = 0
BY DEF init_cyclic_queue, CyclicQueueOf, QueueOK, Count, QueueIsEmpty

\* A ring never counts more elements than it has slots, and it is empty
\* exactly when it counts none.
LEMMA CountRange ==
  ASSUME NEW S, NEW q \in CyclicQueueOf(S), QueueOK(q)
  PROVE  /\ Count(q) \in 0 .. Size
         /\ QueueIsEmpty(q) <=> Count(q) = 0
         /\ QueueIsFull(q) <=> Count(q) = Size
<1>1. CASE q.head = -1 /\ q.tail = -1
  BY <1>1, SizeAssumption DEF Count, QueueIsEmpty, QueueIsFull
<1>2. CASE q.head \in Slots /\ q.tail \in Slots
  <2>1. /\ q.head \in Int /\ 0 <= q.head /\ q.head < Size
        /\ q.tail \in Int /\ 0 <= q.tail /\ q.tail < Size
    BY <1>2, SizeAssumption DEF Slots
  <2> QED
    BY <2>1, SizeAssumption DEF Count, QueueIsEmpty, QueueIsFull
<1> QED BY <1>1, <1>2 DEF QueueOK

\* add_queue_element into a ring that is not full adds one element.
LEMMA AddCount ==
  ASSUME NEW S, NEW q \in CyclicQueueOf(S), QueueOK(q), Count(q) < Size,
         NEW element \in S
  PROVE  /\ add_queue_element(q, element) \in CyclicQueueOf(S)
         /\ QueueOK(add_queue_element(q, element))
         /\ Count(add_queue_element(q, element)) = Count(q) + 1
<1> DEFINE t == (q.tail + 1) % Size
           r == add_queue_element(q, element)
<1>1. ~QueueIsFull(q)
  BY CountRange, SizeAssumption
<1>2. q.tail \in Int /\ q.tail + 1 \in 0 .. Size /\ q.head \in Int
  BY SizeAssumption DEF CyclicQueueOf, Slots
<1>3. t = IF q.tail + 1 = Size THEN 0 ELSE q.tail + 1
  BY <1>2, WrapOnce
<1>4. t \in Slots
  BY <1>2, <1>3, SizeAssumption DEF Slots
<1>5. /\ r.head = IF q.head = -1 THEN 0 ELSE q.head
      /\ r.tail = t
      /\ r = [head |-> r.head, tail |-> r.tail,
              elements_array |-> [q.elements_array EXCEPT ![t] = element]]
  BY <1>1 DEF add_queue_element, QueueIsEmpty
<1>6. r.head \in Slots
  BY <1>5, SizeAssumption DEF CyclicQueueOf, Slots
<1>7. r \in CyclicQueueOf(S)
  BY <1>4, <1>5, <1>6 DEF CyclicQueueOf
<1>8. QueueOK(r)
  BY <1>4, <1>5, <1>6 DEF QueueOK
<1>9. Count(r) = Count(q) + 1
  <2> HIDE DEF t, r
  <2>1. CASE q.head = -1
    BY <1>3, <1>5, <2>1, SizeAssumption DEF QueueOK, Count, QueueIsEmpty, Slots
  <2>2. CASE q.head # -1
    BY <1>1, <1>3, <1>5, <2>2, SizeAssumption
    DEF QueueOK, Count, QueueIsEmpty, QueueIsFull, Slots
  <2> QED BY <2>1, <2>2
<1> QED BY <1>7, <1>8, <1>9

\* remove_queue_element, from either end, removes exactly one element of a
\* ring that has one, and its out parameter is an element of the ring.
LEMMA RemoveCount ==
  ASSUME NEW S, NEW q \in CyclicQueueOf(S), QueueOK(q), Count(q) > 0,
         NEW type \in RemoveType, NEW element
  PROVE  /\ remove_queue_element(q, type) \in CyclicQueueOf(S)
         /\ QueueOK(remove_queue_element(q, type))
         /\ Count(remove_queue_element(q, type)) = Count(q) - 1
         /\ removed_element(q, element, type) \in S
<1> DEFINE r == remove_queue_element(q, type)
<1>1. ~QueueIsEmpty(q)
  BY CountRange, SizeAssumption
<1>2. q.head \in Slots /\ q.tail \in Slots
  BY <1>1 DEF QueueOK, QueueIsEmpty
<1>3. removed_element(q, element, type) \in S
  BY <1>1, <1>2 DEF removed_element, CyclicQueueOf
<1>4. r \in CyclicQueueOf(S) /\ QueueOK(r) /\ Count(r) = Count(q) - 1
  <2>1. CASE q.head = q.tail
    <3>1. r = [q EXCEPT !.head = -1, !.tail = -1]
      BY <1>1, <2>1 DEF remove_queue_element
    <3>2. r \in CyclicQueueOf(S) /\ r.head = -1 /\ r.tail = -1
      BY <3>1 DEF CyclicQueueOf
    <3> HIDE DEF r
    <3> QED
      BY <1>1, <1>2, <2>1, <3>2, SizeAssumption DEF QueueOK, Count, QueueIsEmpty, Slots
  <2>2. CASE q.head # q.tail /\ type = "HEAD"
    <3> DEFINE h == IF q.head + 1 = Size THEN 0 ELSE q.head + 1
    <3>1. (q.head + 1) % Size = h
      BY <1>2, SizeAssumption, WrapOnce DEF Slots
    <3>2. r = [q EXCEPT !.head = h]
      BY <1>1, <2>2, <3>1 DEF remove_queue_element
    <3>3. h \in Slots
      BY <1>2, SizeAssumption DEF Slots
    <3>4. r \in CyclicQueueOf(S) /\ r.head = h /\ r.tail = q.tail
      BY <3>2, <3>3 DEF CyclicQueueOf
    <3> HIDE DEF r
    <3> QED
      BY <1>1, <1>2, <2>2, <3>3, <3>4, SizeAssumption
      DEF QueueOK, Count, QueueIsEmpty, Slots
  <2>3. CASE q.head # q.tail /\ type = "TAIL"
    <3> DEFINE t == IF q.tail = 0 THEN Size - 1 ELSE q.tail - 1
    <3>1. r = [q EXCEPT !.tail = t]
      BY <1>1, <2>3 DEF remove_queue_element
    <3>2. t \in Slots
      BY <1>2, SizeAssumption DEF Slots
    <3>3. r \in CyclicQueueOf(S) /\ r.head = q.head /\ r.tail = t
      BY <3>1, <3>2 DEF CyclicQueueOf
    <3> HIDE DEF r
    <3> QED
      BY <1>1, <1>2, <2>3, <3>2, <3>3, SizeAssumption
      DEF QueueOK, Count, QueueIsEmpty, Slots
  <2> QED BY <2>1, <2>2, <2>3 DEF RemoveType
<1> QED BY <1>3, <1>4

-----------------------------------------------------------------------------
(* The same operations on Contents, the sequence that the ring stands for. *)

\* The i-th oldest element of a ring is in one of its slots.
LEMMA SlotRange ==
  ASSUME NEW S, NEW q \in CyclicQueueOf(S), QueueOK(q), NEW i \in 1 .. Count(q)
  PROVE  /\ q.head \in Slots /\ q.tail \in Slots
         /\ SlotOf(q, i) \in Slots
         /\ Contents(q)[i] = q.elements_array[SlotOf(q, i)]
         /\ Contents(q)[i] \in S
<1>1. q.head # -1
  BY DEF Count, QueueIsEmpty
<1>2. q.head \in Slots /\ q.tail \in Slots
  BY <1>1 DEF QueueOK
<1>3. /\ q.head \in Int /\ 0 <= q.head /\ q.head < Size
      /\ q.tail \in Int /\ 0 <= q.tail /\ q.tail < Size
  BY <1>2, SizeAssumption DEF Slots
<1>4. i \in Int /\ 1 <= i /\ i <= Size
  BY <1>3, CountRange, SizeAssumption
<1>5. SlotOf(q, i) \in Slots
  BY <1>3, <1>4, SizeAssumption DEF SlotOf, Slots
<1>6. Contents(q)[i] = q.elements_array[SlotOf(q, i)]
  BY DEF Contents
<1> QED BY <1>2, <1>5, <1>6 DEF CyclicQueueOf

\* Contents is a sequence, as long as the ring counts.
LEMMA ContentsSeq ==
  ASSUME NEW S, NEW q \in CyclicQueueOf(S), QueueOK(q)
  PROVE  Contents(q) \in Seq(S) /\ Len(Contents(q)) = Count(q)
<1>1. \A i \in 1 .. Count(q) : q.elements_array[SlotOf(q, i)] \in S
  BY SlotRange
<1>2. Count(q) \in Nat
  BY CountRange, SizeAssumption
<1> QED BY <1>1, <1>2 DEF Contents

\* add_queue_element puts its element behind the others, in the free slot
\* after the tail, and moves or overwrites none of them.
LEMMA AddContents ==
  ASSUME NEW S, NEW q \in CyclicQueueOf(S), QueueOK(q), Count(q) < Size,
         NEW element \in S
  PROVE  Contents(add_queue_element(q, element)) = Append(Contents(q), element)
<1> DEFINE t == IF q.tail + 1 = Size THEN 0 ELSE q.tail + 1
           r == add_queue_element(q, element)
           n == Count(q)
<1>1. r \in CyclicQueueOf(S) /\ QueueOK(r) /\ Count(r) = n + 1 /\ n \in Nat
  BY AddCount, CountRange, SizeAssumption
<1>2. /\ q.head \in Int /\ -1 <= q.head /\ q.head < Size
      /\ q.tail \in Int /\ -1 <= q.tail /\ q.tail < Size
      /\ q.head = -1 <=> q.tail = -1
  BY SizeAssumption DEF CyclicQueueOf, Slots, QueueOK
<1>3. (q.tail + 1) % Size = t
  BY <1>2, WrapOnce, SizeAssumption
<1>4. /\ r.head = IF q.head = -1 THEN 0 ELSE q.head
      /\ r.elements_array = [q.elements_array EXCEPT ![t] = element]
  BY <1>3, CountRange, SizeAssumption DEF add_queue_element, QueueIsEmpty
<1>5. t \in Slots
  BY <1>2, SizeAssumption DEF Slots
<1>6. SlotOf(r, n + 1) = t
  <2>1. CASE q.head = -1
    BY <1>2, <1>4, <2>1, SizeAssumption DEF SlotOf, Count, QueueIsEmpty
  <2>2. CASE q.head # -1
    BY <1>2, <1>4, <2>2, SizeAssumption DEF SlotOf, Count, QueueIsEmpty
  <2> QED BY <2>1, <2>2
<1>7. ASSUME NEW i \in 1 .. n
      PROVE  SlotOf(r, i) = SlotOf(q, i) /\ SlotOf(q, i) # t
  <2>1. q.head # -1
    BY <1>1 DEF Count, QueueIsEmpty
  <2>2. SlotOf(r, i) = SlotOf(q, i)
    BY <1>4, <2>1 DEF SlotOf
  <2>3. i \in Int /\ 1 <= i /\ i <= n
    BY <1>1
  <2> QED
    BY <1>2, <2>1, <2>2, <2>3, SizeAssumption DEF SlotOf, Count, QueueIsEmpty
<1>8. q.elements_array \in [Slots -> S]
  BY DEF CyclicQueueOf
<1>9. ASSUME NEW i \in 1 .. n + 1
      PROVE  r.elements_array[SlotOf(r, i)] =
               IF i = n + 1 THEN element ELSE Contents(q)[i]
  <2>1. CASE i = n + 1
    BY <1>4, <1>5, <1>6, <1>8, <2>1
  <2>2. CASE i # n + 1
    <3>1. i \in 1 .. n
      BY <1>1, <2>2
    <3> QED BY <1>4, <1>7, <1>8, <2>2, <3>1, SlotRange
  <2> QED BY <2>1, <2>2
<1>10. /\ Contents(r) \in Seq(S) /\ Len(Contents(r)) = n + 1
       /\ Contents(q) \in Seq(S) /\ Len(Contents(q)) = n
  BY <1>1, ContentsSeq
<1>11. \A i \in 1 .. n + 1 : Contents(r)[i] = Append(Contents(q), element)[i]
  <2>1. ASSUME NEW i \in 1 .. n + 1
        PROVE  Contents(r)[i] = IF i = n + 1 THEN element ELSE Contents(q)[i]
    BY <1>1, <1>9, SlotRange
  <2> HIDE DEF n, r
  <2> QED BY <1>1, <1>10, <2>1, AppendProperties
<1>12. Contents(r) = Append(Contents(q), element)
  <2> HIDE DEF n, r
  <2> QED BY <1>10, <1>11, AppendProperties, SeqEqual
<1> QED BY <1>12

\* remove_queue_element from the head hands over the oldest element and keeps
\* the others in their order.
LEMMA RemoveHeadContents ==
  ASSUME NEW S, NEW q \in CyclicQueueOf(S), QueueOK(q), Count(q) > 0, NEW element
  PROVE  /\ removed_element(q, element, "HEAD") = Head(Contents(q))
         /\ Contents(remove_queue_element(q, "HEAD")) = Tail(Contents(q))
<1> DEFINE r == remove_queue_element(q, "HEAD")
           n == Count(q)
<1>1. r \in CyclicQueueOf(S) /\ QueueOK(r) /\ Count(r) = n - 1 /\ n \in Nat \ {0}
  <2>1. "HEAD" \in RemoveType
    BY DEF RemoveType
  <2>2. r \in CyclicQueueOf(S) /\ QueueOK(r) /\ Count(r) = n - 1
    BY <2>1, RemoveCount
  <2>3. n \in 0 .. Size /\ n > 0
    BY CountRange
  <2> QED BY <2>2, <2>3, SizeAssumption
<1>2. 1 \in 1 .. n
  BY <1>1
<1>3. /\ q.head \in Int /\ 0 <= q.head /\ q.head < Size
      /\ q.tail \in Int /\ 0 <= q.tail /\ q.tail < Size
  BY <1>2, SlotRange, SizeAssumption DEF Slots
<1>4. SlotOf(q, 1) = q.head /\ ~QueueIsEmpty(q)
  BY <1>3 DEF SlotOf, QueueIsEmpty
<1>5. removed_element(q, element, "HEAD") = Contents(q)[1]
  BY <1>2, <1>4, SlotRange DEF removed_element
<1>6. ASSUME NEW i \in 1 .. n - 1 PROVE Contents(r)[i] = Contents(q)[i + 1]
  <2>1. i \in 1 .. Count(r) /\ i + 1 \in 1 .. n /\ i \in Int /\ n > 1
    BY <1>1
  <2>2. q.head # q.tail
    BY <1>3, <1>4, <2>1 DEF Count
  <2>3. (q.head + 1) % Size = IF q.head + 1 = Size THEN 0 ELSE q.head + 1
    BY <1>3, WrapOnce, SizeAssumption
  <2>4. r = [q EXCEPT !.head = IF q.head + 1 = Size THEN 0 ELSE q.head + 1]
    BY <1>4, <2>2, <2>3 DEF remove_queue_element
  <2>5. /\ r.head = IF q.head + 1 = Size THEN 0 ELSE q.head + 1
        /\ r.elements_array = q.elements_array
    BY <2>4 DEF CyclicQueueOf
  <2>6. i < Size
    BY <1>1, <2>1, CountRange, SizeAssumption
  <2>7. SlotOf(r, i) = SlotOf(q, i + 1)
    <3> HIDE DEF r
    <3> QED BY <1>3, <2>1, <2>5, <2>6, SizeAssumption DEF SlotOf
  <2> QED BY <1>1, <2>1, <2>5, <2>7, SlotRange
<1>7. /\ Contents(r) \in Seq(S) /\ Len(Contents(r)) = n - 1
      /\ Contents(q) \in Seq(S) /\ Len(Contents(q)) = n /\ Contents(q) # <<>>
  BY <1>1, ContentsSeq, EmptySeq
<1>8. Contents(r) = Tail(Contents(q))
  <2> HIDE DEF n, r
  <2> QED BY <1>1, <1>6, <1>7, HeadTailProperties, SeqEqual
<1>9. Head(Contents(q)) = Contents(q)[1]
  BY <1>7
<1> QED BY <1>5, <1>8, <1>9

\* From the tail, the newest element; the others stay as they are.
LEMMA RemoveTailContents ==
  ASSUME NEW S, NEW q \in CyclicQueueOf(S), QueueOK(q), Count(q) > 0, NEW element
  PROVE  /\ removed_element(q, element, "TAIL") = Contents(q)[Count(q)]
         /\ Contents(remove_queue_element(q, "TAIL"))
              = SubSeq(Contents(q), 1, Count(q) - 1)
<1> DEFINE r == remove_queue_element(q, "TAIL")
           n == Count(q)
<1>1. r \in CyclicQueueOf(S) /\ QueueOK(r) /\ Count(r) = n - 1 /\ n \in Nat \ {0}
  <2>1. "TAIL" \in RemoveType
    BY DEF RemoveType
  <2>2. r \in CyclicQueueOf(S) /\ QueueOK(r) /\ Count(r) = n - 1
    BY <2>1, RemoveCount
  <2>3. n \in 0 .. Size /\ n > 0
    BY CountRange
  <2> QED BY <2>2, <2>3, SizeAssumption
<1>2. n \in 1 .. n
  BY <1>1
<1>3. /\ q.head \in Int /\ 0 <= q.head /\ q.head < Size
      /\ q.tail \in Int /\ 0 <= q.tail /\ q.tail < Size
  BY <1>2, SlotRange, SizeAssumption DEF Slots
<1>4. SlotOf(q, n) = q.tail /\ ~QueueIsEmpty(q)
  BY <1>3, SizeAssumption DEF SlotOf, Count, QueueIsEmpty
<1>5. removed_element(q, element, "TAIL") = Contents(q)[n]
  BY <1>2, <1>4, SlotRange DEF removed_element
<1>6. ASSUME NEW i \in 1 .. n - 1 PROVE Contents(r)[i] = Contents(q)[i]
  <2>1. i \in 1 .. Count(r) /\ i \in 1 .. n /\ i \in Int /\ n > 1
    BY <1>1
  <2>2. q.head # q.tail
    BY <1>3, <1>4, <2>1 DEF Count
  <2>3. r = [q EXCEPT !.tail = IF q.tail = 0 THEN Size - 1 ELSE q.tail - 1]
    BY <1>4, <2>2 DEF remove_queue_element
  <2>4. r.head = q.head /\ r.elements_array = q.elements_array
    BY <2>3 DEF CyclicQueueOf
  <2>5. SlotOf(r, i) = SlotOf(q, i)
    BY <2>4 DEF SlotOf
  <2> QED BY <1>1, <2>1, <2>4, <2>5, SlotRange
<1>7. /\ Contents(r) \in Seq(S) /\ Len(Contents(r)) = n - 1
      /\ Contents(q) \in Seq(S) /\ Len(Contents(q)) = n
  BY <1>1, ContentsSeq
<1>8. Contents(r) = SubSeq(Contents(q), 1, n - 1)
  <2> HIDE DEF n, r
  <2>1. \A i \in 1 .. n - 1 : Contents(q)[i] \in S
    BY <1>1, <1>7, ElementOfSeq
  <2>2. /\ SubSeq(Contents(q), 1, n - 1) \in Seq(S)
        /\ Len(SubSeq(Contents(q), 1, n - 1)) = n - 1
        /\ \A i \in 1 .. n - 1 : SubSeq(Contents(q), 1, n - 1)[i] = Contents(q)[i]
    BY <1>1, <1>7, <2>1
  <2> QED BY <1>1, <1>6, <1>7, <2>2, SeqEqual
<1> QED BY <1>5, <1>8
=============================================================================
