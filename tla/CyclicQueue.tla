---------------------------- MODULE CyclicQueue ----------------------------
(***************************************************************************)
(* cyclic_queue_t of hw3 server.c: a ring of `size' slots with the indices *)
(* of its oldest and newest element, both -1 when the ring is empty.  A    *)
(* session_t is abstracted to its connection descriptor.                   *)
(*                                                                         *)
(* The operations are operators over the record; the error returns         *)
(* QUEUE_IS_FULL and QUEUE_IS_EMPTY, which every caller in server.c        *)
(* ignores, leave the ring (and the caller's element) as they were.        *)
(***************************************************************************)
EXTENDS Integers, Sequences

CONSTANTS Size,       \* the capacity given to init_cyclic_queue
          NoSession   \* what an uninitialised slot or session_t holds

ASSUME SizeAssumption == Size \in Nat \ {0}

Slots == 0 .. Size - 1

\* cyclic_queue_t with elements from S.
CyclicQueueOf(S) ==
  [head: Slots \cup {-1}, tail: Slots \cup {-1}, elements_array: [Slots -> S]]

RemoveType == {"HEAD", "TAIL"}

\* The ring after init_cyclic_queue; malloc leaves the slots uninitialised.
init_cyclic_queue ==
  [head |-> -1, tail |-> -1, elements_array |-> [i \in Slots |-> NoSession]]

QueueIsEmpty(q) == q.head = -1

QueueIsFull(q) ==
  \/ q.tail + 1 = q.head
  \/ q.head = 0 /\ q.tail = Size - 1

add_queue_element(q, element) ==
  IF QueueIsFull(q)
  THEN q
  ELSE LET tail == (q.tail + 1) % Size
       IN  [head |-> IF QueueIsEmpty(q) THEN 0 ELSE q.head,
            tail |-> tail,
            elements_array |-> [q.elements_array EXCEPT ![tail] = element]]

\* The value of remove_queue_element's out parameter, which held `element'.
removed_element(q, element, type) ==
  IF QueueIsEmpty(q)
  THEN element
  ELSE q.elements_array[IF type = "HEAD" THEN q.head ELSE q.tail]

remove_queue_element(q, type) ==
  CASE QueueIsEmpty(q) -> q
    [] ~QueueIsEmpty(q) /\ q.head = q.tail -> [q EXCEPT !.head = -1, !.tail = -1]
    [] q.head # q.tail /\ type = "HEAD" -> [q EXCEPT !.head = (@ + 1) % Size]
    [] OTHER -> [q EXCEPT !.tail = IF @ = 0 THEN Size - 1 ELSE @ - 1]

-----------------------------------------------------------------------------
(* The reference meaning of a ring: the sequence of its elements, oldest   *)
(* first.                                                                   *)

\* Number of elements between head and tail, walking forward around the ring.
Count(q) ==
  IF QueueIsEmpty(q) THEN 0
  ELSE IF q.tail >= q.head THEN q.tail - q.head + 1
  ELSE Size - q.head + q.tail + 1

\* The slot of the i-th oldest element.
SlotOf(q, i) ==
  IF q.head + i - 1 < Size THEN q.head + i - 1 ELSE q.head + i - 1 - Size

Contents(q) == [i \in 1 .. Count(q) |-> q.elements_array[SlotOf(q, i)]]

\* head and tail are both -1 or both slots.
QueueOK(q) ==
  \/ q.head = -1 /\ q.tail = -1
  \/ q.head \in Slots /\ q.tail \in Slots
=============================================================================
