---------------------------- MODULE ServerProofs ----------------------------
(***************************************************************************)
(* Proofs about the jobs manager of hw3 server.c for any number of worker  *)
(* threads, any queue size below SIZE_MAX, any set of descriptors and      *)
(* every scheduling policy.                                                *)
(***************************************************************************)
EXTENDS Server, CyclicQueueProofs, FiniteSetTheorems

\* The workers in service form a finite set.
LEMMA InServiceFinite ==
  /\ IsFiniteSet(InService)
  /\ Cardinality(InService) \in Nat
BY ThreadAssumption, FS_Subset, FS_CardinalityType, SMTT(30) DEF InService

\* The initial state of main() and init_jobs_manager satisfies IInv.
LEMMA InitInv == Init => IInv
<1> SUFFICES ASSUME Init PROVE IInv
  OBVIOUS
<1>1. TypeOK
  BY InitQueue, SizeMaxAssumption, ThreadAssumption, SMTT(30)
  DEF Init, TypeOK, Threads, MainPC, WorkerPC
<1>2. QueueOK(waiting_jobs) /\ Count(waiting_jobs) = 0
  BY InitQueue, ZenonT(30) DEF Init
<1>3. MutexExclusive
  BY ThreadAssumption DEF Init, MutexExclusive, InCriticalSection, Threads
<1>4. InService = {}
  BY ThreadAssumption DEF Init, InService, Threads
<1>5. CountersExact
  BY <1>2, <1>4, FS_EmptySet DEF Init, CountersExact
<1>6. CapacityBound /\ BlockedOnlyWhenFull /\ DropPhase
  BY SizeAssumption
  DEF Init, CapacityBound, BlockedOnlyWhenFull, DropPhase, Threads
<1> QED BY <1>1, <1>2, <1>3, <1>5, <1>6, SMTT(30) DEF IInv

\* A step that leaves the ring, the counters and the set of workers in
\* service alone preserves what IInv says of them.
LEMMA FrameInv ==
  ASSUME IInv, TypeOK', MutexExclusive',
         UNCHANGED <<waiting_jobs, waiting_count, running_count, to_drop>>,
         InService' = InService,
         pc'[Main] = "drop" <=> pc[Main] = "drop",
         pc'[Main] = "enqueue" => pc[Main] = "enqueue",
         pc'[Main] = "wait" => pc[Main] = "wait" \/ ManagerFull
  PROVE  IInv'
BY
DEF IInv, DropPhase, CountersExact, CapacityBound, BlockedOnlyWhenFull,
    ManagerFull

\* Every step of the server preserves IInv.
LEMMA NextInv == IInv /\ [Next]_vars => IInv'
<1> SUFFICES ASSUME IInv, [Next]_vars PROVE IInv'
  OBVIOUS
<1> USE ThreadAssumption
<1>0. TypeOK /\ MutexExclusive
  BY DEF IInv
<1>00. QueueOK(waiting_jobs) /\ DropPhase /\ CountersExact /\ CapacityBound
  BY SMTT(30) DEF IInv
<1>1. ASSUME NEW fd \in Fds, Accept(fd) PROVE IInv'
  <2>1. TypeOK'
    BY <1>0, <1>1, SMTT(30) DEF Accept, TypeOK, Threads, MainPC, WorkerPC
  <2>2. MutexExclusive'
    BY <1>0, <1>1, SMTT(30)
    DEF Accept, TypeOK, MutexExclusive, InCriticalSection, Threads
  <2>3. InService' = InService
    BY <1>0, <1>1, SMTT(30) DEF Accept, TypeOK, InService, Threads
  <2> QED
    BY <1>0, <1>1, <2>1, <2>2, <2>3, FrameInv, SMTT(30)
    DEF Accept, TypeOK, Threads
<1>2. CASE add_request_lock
  <2>1. TypeOK'
    BY <1>0, <1>2, SMTT(30)
    DEF add_request_lock, pthread_mutex_lock, pthread_mutex_unlock, TypeOK,
        Threads, MainPC, WorkerPC
  <2>2. MutexExclusive'
    BY <1>0, <1>2, SMTT(30)
    DEF add_request_lock, pthread_mutex_lock, pthread_mutex_unlock, TypeOK,
        MutexExclusive, InCriticalSection, Threads
  <2>3. InService' = InService
    BY <1>0, <1>2, SMTT(30) DEF add_request_lock, TypeOK, InService, Threads
  <2> QED
    BY <1>0, <1>2, <2>1, <2>2, <2>3, FrameInv, SMTT(30)
    DEF add_request_lock, TypeOK, Threads
<1>3. CASE add_request_wait
  <2>1. TypeOK'
    BY <1>0, <1>3, SMTT(30)
    DEF add_request_wait, pthread_mutex_lock, pthread_mutex_unlock, TypeOK,
        Threads, MainPC, WorkerPC
  <2>2. MutexExclusive'
    BY <1>0, <1>3, SMTT(30)
    DEF add_request_wait, pthread_mutex_lock, pthread_mutex_unlock, TypeOK,
        MutexExclusive, InCriticalSection, Threads
  <2>3. InService' = InService
    BY <1>0, <1>3, SMTT(30) DEF add_request_wait, TypeOK, InService, Threads
  <2> QED
    BY <1>0, <1>3, <2>1, <2>2, <2>3, FrameInv, SMTT(30)
    DEF add_request_wait, TypeOK, Threads
<1>4. CASE add_request_reject
  <2>1. TypeOK'
    BY <1>0, <1>4, SMTT(30)
    DEF add_request_reject, Close, TypeOK, Threads, MainPC, WorkerPC
  <2>2. MutexExclusive'
    BY <1>0, <1>4, SMTT(30)
    DEF add_request_reject, Close, TypeOK, MutexExclusive, InCriticalSection,
        Threads
  <2>3. InService' = InService
    BY <1>0, <1>4, SMTT(30) DEF add_request_reject, Close, TypeOK, InService, Threads
  <2> QED
    BY <1>0, <1>4, <2>1, <2>2, <2>3, FrameInv, SMTT(30)
    DEF add_request_reject, Close, TypeOK, Threads
<1>5. CASE add_request_drop_head
  <2> USE <1>5 DEF add_request_drop_head
  <2> DEFINE q == remove_queue_element(waiting_jobs, "HEAD")
  <2>1. /\ to_drop = 0
        /\ waiting_count \in 1 .. Size
        /\ waiting_count = Count(waiting_jobs)
    BY <1>0, <1>00, SizeAssumption, SMTT(30)
    DEF IInv, TypeOK, DropPhase, CountersExact, CapacityBound
  <2>2. /\ q \in CyclicQueueOf(Fds \cup {NoSession})
        /\ QueueOK(q)
        /\ Count(q) = Count(waiting_jobs) - 1
    BY <1>0, <2>1, RemoveCount, SMTT(30) DEF IInv, TypeOK, RemoveType
  <2>3. waiting_jobs' = q /\ waiting_count' = waiting_count - 1
    BY <2>1, SMTT(30) DEF Dec
  <2> HIDE DEF q
  <2>4. TypeOK'
    BY <1>0, <2>1, <2>2, <2>3, SizeMaxAssumption, SizeAssumption, SMTT(30)
    DEF Close, TypeOK, Threads, MainPC, WorkerPC
  <2>5. MutexExclusive'
    BY <1>0, SMTT(30) DEF TypeOK, MutexExclusive, InCriticalSection, Threads
  <2>6. InService' = InService
    BY <1>0, SMTT(30) DEF TypeOK, InService, Threads
  <2>7. DropPhase' /\ CapacityBound' /\ BlockedOnlyWhenFull'
    BY <1>0, <1>00, <2>1, <2>3, SMTT(30)
    DEF IInv, TypeOK, DropPhase, CapacityBound, BlockedOnlyWhenFull, Threads,
        ManagerFull
  <2>8. CountersExact'
    BY <1>0, <2>1, <2>2, <2>3, <2>6, SMTT(30) DEF IInv, TypeOK, CountersExact
  <2> QED BY <2>2, <2>3, <2>4, <2>5, <2>7, <2>8, SMTT(30) DEF IInv
<1>6. CASE random_drop_connections
  <2> USE <1>6 DEF random_drop_connections
  <2>1. /\ to_drop = 0
        /\ waiting_count \in 1 .. Size
        /\ waiting_count = Count(waiting_jobs)
    BY <1>0, <1>00, SizeAssumption, SMTT(30)
    DEF IInv, TypeOK, DropPhase, CountersExact, CapacityBound
  <2>2. /\ to_drop' \in 1 .. waiting_count
        /\ waiting_count' = waiting_count - to_drop'
    BY <2>1, SizeAssumption, SMTT(30)
  <2>3. TypeOK'
    BY <1>0, <2>1, <2>2, SizeMaxAssumption, SizeAssumption, SMTT(30)
    DEF TypeOK, Threads, MainPC, WorkerPC
  <2>4. MutexExclusive'
    BY <1>0, SMTT(30) DEF TypeOK, MutexExclusive, InCriticalSection, Threads
  <2>5. InService' = InService
    BY <1>0, SMTT(30) DEF TypeOK, InService, Threads
  <2>6. DropPhase' /\ CapacityBound' /\ BlockedOnlyWhenFull'
    BY <1>0, <1>00, <2>1, <2>2, SizeAssumption, SMTT(30)
    DEF IInv, TypeOK, DropPhase, CapacityBound, BlockedOnlyWhenFull, Threads,
        ManagerFull
  <2>7. CountersExact'
    BY <1>0, <2>1, <2>2, <2>5, SizeAssumption, SMTT(30) DEF IInv, TypeOK, CountersExact
  <2> QED BY <2>3, <2>4, <2>6, <2>7, SMTT(30) DEF IInv
<1>7. ASSUME NEW type \in RemoveType, random_drop_one(type) PROVE IInv'
  <2> USE <1>7 DEF random_drop_one
  <2> DEFINE q == remove_queue_element(waiting_jobs, type)
  <2>1. to_drop \in Nat \ {0} /\ Count(waiting_jobs) = waiting_count + to_drop
    BY <1>0, <1>00, SMTT(30) DEF IInv, TypeOK, DropPhase, CountersExact
  <2>2. /\ q \in CyclicQueueOf(Fds \cup {NoSession})
        /\ QueueOK(q)
        /\ Count(q) = Count(waiting_jobs) - 1
    BY <1>0, <2>1, RemoveCount, SMTT(30) DEF IInv, TypeOK
  <2>3. waiting_jobs' = q
    OBVIOUS
  <2> HIDE DEF q
  <2>4. TypeOK'
    BY <1>0, <2>1, <2>2, <2>3, SMTT(30) DEF Close, TypeOK, Threads, MainPC, WorkerPC
  <2>5. MutexExclusive'
    BY <1>0, SMTT(30) DEF TypeOK, MutexExclusive, InCriticalSection, Threads
  <2>6. InService' = InService
    BY <1>0, SMTT(30) DEF TypeOK, InService, Threads
  <2>7. DropPhase' /\ CapacityBound' /\ BlockedOnlyWhenFull'
    BY <1>0, <1>00, <2>1, SMTT(30)
    DEF IInv, TypeOK, DropPhase, CapacityBound, BlockedOnlyWhenFull, Threads,
        ManagerFull
  <2>8. CountersExact'
    BY <1>0, <2>1, <2>2, <2>3, <2>6, SMTT(30) DEF IInv, TypeOK, CountersExact
  <2> QED BY <2>2, <2>3, <2>4, <2>5, <2>7, <2>8, SMTT(30) DEF IInv
<1>8. CASE add_request_enqueue
  <2> USE <1>8 DEF add_request_enqueue
  <2> DEFINE q == add_queue_element(waiting_jobs, session[Main])
  <2>1. /\ to_drop = 0
        /\ waiting_count = Count(waiting_jobs)
        /\ waiting_count + running_count < Size
    BY <1>0, <1>00, SizeAssumption, SMTT(30)
    DEF IInv, TypeOK, DropPhase, CountersExact, CapacityBound, ManagerFull
  <2>2. /\ q \in CyclicQueueOf(Fds \cup {NoSession})
        /\ QueueOK(q)
        /\ Count(q) = Count(waiting_jobs) + 1
    <3>1. Count(waiting_jobs) < Size
      BY <1>0, <2>1, SizeAssumption, SMTT(30) DEF TypeOK
    <3> QED BY <1>0, <3>1, AddCount, SMTT(30) DEF IInv, TypeOK, Threads
  <2>3. waiting_jobs' = q /\ waiting_count' = waiting_count + 1
    BY <1>0, <2>1, SizeMaxAssumption, SizeAssumption, SMTT(30) DEF TypeOK, Inc
  <2> HIDE DEF q
  <2>4. /\ pc' \in [Threads -> MainPC \cup WorkerPC]
        /\ pc'[Main] = "unlock"
        /\ \A w \in Workers : \/ pc'[w] = pc[w]
                              \/ pc[w] = "wait" /\ pc'[w] = "lock_get"
    BY <1>0, SMTT(30) DEF SignalConsume, TypeOK, Threads, MainPC, WorkerPC
  <2>5. TypeOK'
    BY <1>0, <2>1, <2>2, <2>3, <2>4, SizeMaxAssumption, SizeAssumption, SMTT(30)
    DEF TypeOK, Threads, MainPC, WorkerPC
  <2>6. MutexExclusive'
    BY <1>0, <2>4, SMTT(30) DEF TypeOK, MutexExclusive, InCriticalSection, Threads
  <2>7. InService' = InService
    BY <2>4, SMTT(30) DEF InService
  <2>8. DropPhase' /\ CapacityBound' /\ BlockedOnlyWhenFull'
    BY <1>0, <1>00, <2>1, <2>3, <2>4, SizeAssumption, SMTT(30)
    DEF IInv, TypeOK, DropPhase, CapacityBound, BlockedOnlyWhenFull, Threads
  <2>9. CountersExact'
    BY <1>0, <2>1, <2>2, <2>3, <2>7, SMTT(30) DEF IInv, TypeOK, CountersExact
  <2> QED BY <2>2, <2>3, <2>5, <2>6, <2>8, <2>9, SMTT(30) DEF IInv
<1>9. CASE add_request_unlock
  <2>1. TypeOK'
    BY <1>0, <1>9, SMTT(30)
    DEF add_request_unlock, pthread_mutex_lock, pthread_mutex_unlock, TypeOK,
        Threads, MainPC, WorkerPC
  <2>2. MutexExclusive'
    BY <1>0, <1>9, SMTT(30)
    DEF add_request_unlock, pthread_mutex_lock, pthread_mutex_unlock, TypeOK,
        MutexExclusive, InCriticalSection, Threads
  <2>3. InService' = InService
    BY <1>0, <1>9, SMTT(30) DEF add_request_unlock, TypeOK, InService, Threads
  <2> QED
    BY <1>0, <1>9, <2>1, <2>2, <2>3, FrameInv, SMTT(30)
    DEF add_request_unlock, TypeOK, Threads
<1>10. ASSUME NEW w \in Workers, get_request_lock(w) PROVE IInv'
  <2>1. TypeOK'
    BY <1>0, <1>10, SMTT(30)
    DEF get_request_lock, pthread_mutex_lock, pthread_mutex_unlock, TypeOK,
        Threads, MainPC, WorkerPC
  <2>2. MutexExclusive'
    BY <1>0, <1>10, SMTT(30)
    DEF get_request_lock, pthread_mutex_lock, pthread_mutex_unlock, TypeOK,
        MutexExclusive, InCriticalSection, Threads
  <2>3. InService' = InService
    BY <1>0, <1>10, SMTT(30) DEF get_request_lock, TypeOK, InService, Threads
  <2> QED
    BY <1>0, <1>10, <2>1, <2>2, <2>3, FrameInv, SMTT(30)
    DEF get_request_lock, TypeOK, Threads
<1>11. ASSUME NEW w \in Workers, get_request_wait(w) PROVE IInv'
  <2>1. TypeOK'
    BY <1>0, <1>11, SMTT(30)
    DEF get_request_wait, pthread_mutex_lock, pthread_mutex_unlock, TypeOK,
        Threads, MainPC, WorkerPC
  <2>2. MutexExclusive'
    BY <1>0, <1>11, SMTT(30)
    DEF get_request_wait, pthread_mutex_lock, pthread_mutex_unlock, TypeOK,
        MutexExclusive, InCriticalSection, Threads
  <2>3. InService' = InService
    BY <1>0, <1>11, SMTT(30) DEF get_request_wait, TypeOK, InService, Threads
  <2> QED
    BY <1>0, <1>11, <2>1, <2>2, <2>3, FrameInv, SMTT(30)
    DEF get_request_wait, TypeOK, Threads
<1>12. ASSUME NEW w \in Workers, get_request_take(w) PROVE IInv'
  <2> USE <1>12 DEF get_request_take
  <2> DEFINE q == remove_queue_element(waiting_jobs, "HEAD")
             s == removed_element(waiting_jobs, session[w], "HEAD")
  <2>1. pc[Main] # "drop"
    BY <1>0, SMTT(30) DEF TypeOK, MutexExclusive, InCriticalSection, Threads
  <2>2. /\ to_drop = 0
        /\ waiting_count \in 1 .. Size
        /\ waiting_count = Count(waiting_jobs)
        /\ running_count < SizeMax
    BY <1>0, <1>00, <2>1, SizeMaxAssumption, SizeAssumption, SMTT(30)
    DEF IInv, TypeOK, DropPhase, CountersExact, CapacityBound
  <2>3. /\ q \in CyclicQueueOf(Fds \cup {NoSession})
        /\ QueueOK(q)
        /\ Count(q) = Count(waiting_jobs) - 1
        /\ s \in Fds \cup {NoSession}
    BY <1>0, <2>2, RemoveCount, SMTT(30) DEF IInv, TypeOK, RemoveType
  <2>4. /\ waiting_jobs' = q
        /\ waiting_count' = waiting_count - 1
        /\ running_count' = running_count + 1
        /\ session' = [session EXCEPT ![w] = s]
    BY <1>0, <2>2, SMTT(30) DEF Dec, Inc, TypeOK
  <2> HIDE DEF q, s
  <2>5. TypeOK'
    BY <1>0, <2>2, <2>3, <2>4, SizeMaxAssumption, SizeAssumption, SMTT(30)
    DEF TypeOK, Threads, MainPC, WorkerPC
  <2>6. MutexExclusive'
    BY <1>0, SMTT(30) DEF TypeOK, MutexExclusive, InCriticalSection, Threads
  <2>7. InService' = InService \cup {w} /\ w \notin InService
    BY <1>0, SMTT(30) DEF TypeOK, InService, Threads
  <2>8. Cardinality(InService') = Cardinality(InService) + 1
    BY <2>7, InServiceFinite, FS_AddElement, ZenonT(30)
  <2>9. DropPhase' /\ CapacityBound' /\ BlockedOnlyWhenFull'
    BY <1>0, <1>00, <2>1, <2>2, <2>4, <2>6, SizeAssumption
    DEF IInv, TypeOK, DropPhase, CapacityBound, BlockedOnlyWhenFull, Threads,
        ManagerFull, MutexExclusive, InCriticalSection
  <2>10. CountersExact'
    BY <1>0, <2>2, <2>3, <2>4, <2>8, SMTT(30) DEF IInv, TypeOK, CountersExact
  <2> QED BY <2>3, <2>4, <2>5, <2>6, <2>9, <2>10, SMTT(30) DEF IInv
<1>13. ASSUME NEW w \in Workers, get_request_unlock(w) PROVE IInv'
  <2>1. TypeOK'
    BY <1>0, <1>13, SMTT(30)
    DEF get_request_unlock, pthread_mutex_lock, pthread_mutex_unlock, TypeOK,
        Threads, MainPC, WorkerPC
  <2>2. MutexExclusive'
    BY <1>0, <1>13, SMTT(30)
    DEF get_request_unlock, pthread_mutex_lock, pthread_mutex_unlock, TypeOK,
        MutexExclusive, InCriticalSection, Threads
  <2>3. InService' = InService
    BY <1>0, <1>13, SMTT(30) DEF get_request_unlock, TypeOK, InService, Threads
  <2> QED
    BY <1>0, <1>13, <2>1, <2>2, <2>3, FrameInv, SMTT(30)
    DEF get_request_unlock, TypeOK, Threads
<1>14. ASSUME NEW w \in Workers, requestHandle(w) PROVE IInv'
  <2>1. TypeOK'
    BY <1>0, <1>14, SMTT(30) DEF requestHandle, TypeOK, Threads, MainPC, WorkerPC
  <2>2. MutexExclusive'
    BY <1>0, <1>14, SMTT(30)
    DEF requestHandle, TypeOK, MutexExclusive, InCriticalSection, Threads
  <2>3. InService' = InService
    BY <1>0, <1>14, SMTT(30) DEF requestHandle, TypeOK, InService, Threads
  <2> QED
    BY <1>0, <1>14, <2>1, <2>2, <2>3, FrameInv, SMTT(30)
    DEF requestHandle, TypeOK, Threads
<1>15. ASSUME NEW w \in Workers, request_handle_close(w) PROVE IInv'
  <2>1. TypeOK'
    BY <1>0, <1>15, SMTT(30)
    DEF request_handle_close, Close, TypeOK, Threads, MainPC, WorkerPC
  <2>2. MutexExclusive'
    BY <1>0, <1>15, SMTT(30)
    DEF request_handle_close, Close, TypeOK, MutexExclusive, InCriticalSection,
        Threads
  <2>3. InService' = InService
    BY <1>0, <1>15, SMTT(30) DEF request_handle_close, Close, TypeOK, InService, Threads
  <2> QED
    BY <1>0, <1>15, <2>1, <2>2, <2>3, FrameInv, SMTT(30)
    DEF request_handle_close, Close, TypeOK, Threads
<1>16. ASSUME NEW w \in Workers, notify_request_lock(w) PROVE IInv'
  <2>1. TypeOK'
    BY <1>0, <1>16, SMTT(30)
    DEF notify_request_lock, pthread_mutex_lock, pthread_mutex_unlock, TypeOK,
        Threads, MainPC, WorkerPC
  <2>2. MutexExclusive'
    BY <1>0, <1>16, SMTT(30)
    DEF notify_request_lock, pthread_mutex_lock, pthread_mutex_unlock, TypeOK,
        MutexExclusive, InCriticalSection, Threads
  <2>3. InService' = InService
    BY <1>0, <1>16, SMTT(30) DEF notify_request_lock, TypeOK, InService, Threads
  <2> QED
    BY <1>0, <1>16, <2>1, <2>2, <2>3, FrameInv, SMTT(30)
    DEF notify_request_lock, TypeOK, Threads
<1>17. ASSUME NEW w \in Workers, notify_request_finished(w) PROVE IInv'
  <2> USE <1>17 DEF notify_request_finished
  <2>1. w \in InService
    BY SMTT(30) DEF InService
  <2>2. running_count \in 1 .. SizeMax /\ running_count' = running_count - 1
    <3>1. Cardinality(InService) # 0
      BY <2>1, InServiceFinite, FS_EmptySet, SMTT(30)
    <3> QED
      BY <1>0, <1>00, <3>1, InServiceFinite, SMTT(30)
      DEF IInv, TypeOK, CountersExact, Dec
  <2>3. /\ pc' \in [Threads -> MainPC \cup WorkerPC]
        /\ pc'[w] = "unlock_done"
        /\ pc'[Main] = IF pc[Main] = "wait" THEN "lock" ELSE pc[Main]
        /\ \A v \in Workers \ {w} : pc'[v] = pc[v]
    BY <1>0, SMTT(30) DEF SignalProduce, TypeOK, Threads, MainPC, WorkerPC
  <2>4. TypeOK'
    BY <1>0, <2>2, <2>3, SizeMaxAssumption, SMTT(30)
    DEF TypeOK, Threads, MainPC, WorkerPC
  <2>5. MutexExclusive'
    BY <1>0, <2>3, SMTT(30) DEF TypeOK, MutexExclusive, InCriticalSection, Threads
  <2>6. InService' = InService \ {w}
    BY <2>3, SMTT(30) DEF InService
  <2>7. Cardinality(InService') = Cardinality(InService) - 1
    BY <2>1, <2>6, InServiceFinite, FS_RemoveElement, ZenonT(30)
  <2>8. DropPhase' /\ CapacityBound' /\ BlockedOnlyWhenFull'
    BY <1>0, <1>00, <2>2, <2>3, SizeMaxAssumption, SizeAssumption, SMTT(30)
    DEF IInv, TypeOK, DropPhase, CapacityBound, BlockedOnlyWhenFull
  <2>9. CountersExact'
    BY <1>0, <1>00, <2>2, <2>7, InServiceFinite, SMTT(30) DEF IInv, TypeOK, CountersExact
  <2> QED BY <2>4, <2>5, <2>8, <2>9, SMTT(30) DEF IInv
<1>18. ASSUME NEW w \in Workers, notify_request_unlock(w) PROVE IInv'
  <2>1. TypeOK'
    BY <1>0, <1>18, SMTT(30)
    DEF notify_request_unlock, pthread_mutex_lock, pthread_mutex_unlock,
        TypeOK, Threads, MainPC, WorkerPC
  <2>2. MutexExclusive'
    BY <1>0, <1>18, SMTT(30)
    DEF notify_request_unlock, pthread_mutex_lock, pthread_mutex_unlock,
        TypeOK, MutexExclusive, InCriticalSection, Threads
  <2>3. InService' = InService
    BY <1>0, <1>18, SMTT(30) DEF notify_request_unlock, TypeOK, InService, Threads
  <2> QED
    BY <1>0, <1>18, <2>1, <2>2, <2>3, FrameInv, SMTT(30)
    DEF notify_request_unlock, TypeOK, Threads
<1>19. ASSUME NEW t \in Threads, SpuriousWakeup(t) PROVE IInv'
  <2>1. TypeOK'
    BY <1>0, <1>19, SMTT(30) DEF SpuriousWakeup, TypeOK, Threads, MainPC, WorkerPC
  <2>2. MutexExclusive'
    BY <1>0, <1>19, SMTT(30)
    DEF SpuriousWakeup, TypeOK, MutexExclusive, InCriticalSection, Threads
  <2>3. InService' = InService
    BY <1>0, <1>19, SMTT(30) DEF SpuriousWakeup, TypeOK, InService, Threads
  <2> QED
    BY <1>0, <1>19, <2>1, <2>2, <2>3, FrameInv, SMTT(30)
    DEF SpuriousWakeup, TypeOK, Threads
<1>20. CASE UNCHANGED vars
  BY <1>20, SMTT(30)
  DEF vars, IInv, TypeOK, MutexExclusive, InCriticalSection, DropPhase,
      CountersExact, InService, CapacityBound, BlockedOnlyWhenFull, ManagerFull
<1> QED
  BY <1>1, <1>2, <1>3, <1>4, <1>5, <1>6, <1>7, <1>8, <1>9, <1>10, <1>11, <1>12,
     <1>13, <1>14, <1>15, <1>16, <1>17, <1>18, <1>19, <1>20
  DEF Next, Running, Terminated, MainStep, WorkerStep

\* For every instance, the counters, the ring and the mutex of server.c stay
\* consistent.
THEOREM InvSpec == Spec => []IInv
BY InitInv, NextInv, PTL DEF Spec

\* Every variable of the server keeps its type: no index of the ring ever
\* leaves its slots, no thread leaves its code.
THEOREM TypeCorrect == Spec => []TypeOK
<1>1. IInv => TypeOK
  BY SMTT(30) DEF IInv
<1> QED BY <1>1, InvSpec, PTL

\* waiting_count and running_count never drift from the ring and the pool.
THEOREM CountersCorrect == Spec => []CountersExact
<1>1. IInv => CountersExact
  BY SMTT(30) DEF IInv
<1> QED BY <1>1, InvSpec, PTL

\* The server never holds more than max_accepted_count requests.
THEOREM CapacityCorrect == Spec => []CapacityBound
<1>1. IInv => CapacityBound
  BY SMTT(30) DEF IInv
<1> QED BY <1>1, InvSpec, PTL

\* The main thread never sleeps in add_request while there is room: no
\* wakeup on produce is lost.
THEOREM NoLostProduce == Spec => []BlockedOnlyWhenFull
<1>1. IInv => BlockedOnlyWhenFull
  BY DEF IInv
<1> QED BY <1>1, InvSpec, PTL

\* The workers seeking a job form a finite set.
LEMMA SeekingFinite ==
  /\ IsFiniteSet(Seeking) /\ Cardinality(Seeking) \in Nat
  /\ IsFiniteSet(Seeking') /\ Cardinality(Seeking') \in Nat
<1>1. IsFiniteSet(Seeking) /\ IsFiniteSet(Seeking')
  BY ThreadAssumption, FS_Subset, SMTT(30) DEF Seeking
<1> QED BY <1>1, FS_CardinalityType, SMTT(30)

\* A step that sends no worker to sleep, takes no seeking worker away and
\* adds no waiting job keeps every waiting job covered.
LEMMA FrameSleep ==
  ASSUME TypeOK, TypeOK', SleepOnlyWhenCovered,
         Sleeping' \subseteq Sleeping, Seeking \subseteq Seeking',
         waiting_count' <= waiting_count
  PROVE  SleepOnlyWhenCovered'
<1>1. Cardinality(Seeking) <= Cardinality(Seeking')
  BY SeekingFinite, FS_Subset, SMTT(30)
<1> QED
  BY <1>1, SeekingFinite, SizeMaxAssumption, SMTT(30) DEF SleepOnlyWhenCovered, TypeOK

\* Every step of the server keeps every waiting job covered.
LEMMA NextSleep ==
  IInv /\ IInv' /\ SleepOnlyWhenCovered /\ [Next]_vars => SleepOnlyWhenCovered'
<1> SUFFICES ASSUME IInv, IInv', SleepOnlyWhenCovered, [Next]_vars
             PROVE  SleepOnlyWhenCovered'
  OBVIOUS
<1> USE ThreadAssumption
<1>0. TypeOK /\ TypeOK' /\ CapacityBound /\ CapacityBound'
  BY SMTT(30) DEF IInv
<1>1. CASE add_request_enqueue
  <2>1. waiting_count' = waiting_count + 1
    BY <1>0, <1>1, SizeMaxAssumption, SizeAssumption, SMTT(30)
    DEF add_request_enqueue, Inc, TypeOK, CapacityBound
  <2>2. CASE Sleeping = {}
    <3>1. Sleeping' = {}
      BY <1>0, <1>1, <2>2, SMTT(30)
      DEF add_request_enqueue, SignalConsume, Sleeping, TypeOK, Threads
    <3> QED BY <3>1, SMTT(30) DEF SleepOnlyWhenCovered
  <2>3. CASE Sleeping # {}
    <3>1. PICK w \in Workers : /\ pc[w] = "wait"
                               /\ pc' = [pc EXCEPT ![Main] = "unlock",
                                                   ![w] = "lock_get"]
      BY <1>1, <2>3, SMTT(30) DEF add_request_enqueue, SignalConsume, Sleeping
    <3>2. Seeking' = Seeking \cup {w} /\ w \notin Seeking
      BY <1>0, <3>1, SMTT(30) DEF Seeking, TypeOK, Threads
    <3>3. Cardinality(Seeking') = Cardinality(Seeking) + 1
      BY <3>2, SeekingFinite, FS_AddElement, SMTT(30)
    <3> QED
      BY <1>0, <2>1, <2>3, <3>3, SeekingFinite, SizeMaxAssumption, SMTT(30)
      DEF SleepOnlyWhenCovered, TypeOK
  <2> QED BY <2>2, <2>3, SMTT(30)
<1>2. ASSUME NEW w \in Workers, get_request_wait(w) PROVE SleepOnlyWhenCovered'
  <2>1. waiting_count' = 0
    BY <1>2, SMTT(30) DEF get_request_wait
  <2> QED BY <2>1, SeekingFinite, SMTT(30) DEF SleepOnlyWhenCovered
<1>3. ASSUME NEW w \in Workers, get_request_take(w) PROVE SleepOnlyWhenCovered'
  <2>1. waiting_count' = waiting_count - 1
    BY <1>3, SMTT(30) DEF get_request_take, Dec
  <2>2. Sleeping' = Sleeping /\ Seeking' = Seeking \ {w} /\ w \in Seeking
    BY <1>0, <1>3, SMTT(30) DEF get_request_take, Sleeping, Seeking, TypeOK, Threads
  <2>3. Cardinality(Seeking') = Cardinality(Seeking) - 1
    BY <2>2, SeekingFinite, FS_RemoveElement, SMTT(30)
  <2> QED
    BY <1>0, <2>1, <2>2, <2>3, SeekingFinite, SizeMaxAssumption, SMTT(30)
    DEF SleepOnlyWhenCovered, TypeOK
<1>4. CASE \/ \E fd \in Fds : Accept(fd)
           \/ add_request_lock \/ add_request_wait \/ add_request_reject
           \/ add_request_unlock
  <2>1. /\ Sleeping' \subseteq Sleeping /\ Seeking \subseteq Seeking'
        /\ waiting_count' <= waiting_count
    BY <1>0, <1>4, SizeMaxAssumption, SMTT(30)
    DEF Accept, add_request_lock, add_request_wait, add_request_reject,
        add_request_unlock, Sleeping, Seeking, TypeOK, Threads
  <2> QED BY <1>0, <2>1, FrameSleep, SMTT(30)
<1>5. CASE \/ add_request_drop_head \/ random_drop_connections
           \/ \E type \in RemoveType : random_drop_one(type)
  <2>1. Sleeping' \subseteq Sleeping /\ Seeking \subseteq Seeking'
    BY <1>0, <1>5, ZenonT(30)
    DEF add_request_drop_head, random_drop_connections, random_drop_one,
        Sleeping, Seeking, TypeOK, Threads
  <2>2. CASE random_drop_connections
    <3>1. waiting_count \in Nat /\ to_drop' \in Nat
      BY <1>0, SizeMaxAssumption DEF TypeOK
    <3>2. waiting_count' <= waiting_count
      BY <2>2, <3>1 DEF random_drop_connections
    <3> QED BY <1>0, <2>1, <3>2, FrameSleep
  <2>3. CASE add_request_drop_head \/ \E type \in RemoveType : random_drop_one(type)
    <3>1. waiting_count' <= waiting_count
      BY <1>0, <2>3, SizeMaxAssumption, SMTT(30)
      DEF add_request_drop_head, random_drop_one, Dec, TypeOK
    <3> QED BY <1>0, <2>1, <3>1, FrameSleep
  <2> QED BY <1>5, <2>2, <2>3, SMTT(30)
<1>6. ASSUME NEW w \in Workers,
             \/ get_request_lock(w) \/ get_request_unlock(w) \/ requestHandle(w)
             \/ request_handle_close(w) \/ notify_request_lock(w)
             \/ notify_request_finished(w) \/ notify_request_unlock(w)
      PROVE  SleepOnlyWhenCovered'
  <2>1. /\ Sleeping' \subseteq Sleeping /\ Seeking \subseteq Seeking'
        /\ waiting_count' <= waiting_count
    BY <1>0, <1>6, SizeMaxAssumption, SMTT(30)
    DEF get_request_lock, get_request_unlock, requestHandle,
        request_handle_close, notify_request_lock, notify_request_finished,
        SignalProduce, notify_request_unlock, Sleeping, Seeking, TypeOK, Threads
  <2> QED BY <1>0, <2>1, FrameSleep, SMTT(30)
<1>7. ASSUME NEW t \in Threads, SpuriousWakeup(t) PROVE SleepOnlyWhenCovered'
  <2>1. /\ Sleeping' \subseteq Sleeping /\ Seeking \subseteq Seeking'
        /\ waiting_count' <= waiting_count
    BY <1>0, <1>7, SizeMaxAssumption, SMTT(30)
    DEF SpuriousWakeup, Sleeping, Seeking, TypeOK, Threads
  <2> QED BY <1>0, <2>1, FrameSleep, SMTT(30)
<1>8. CASE UNCHANGED vars
  BY <1>8 DEF vars, SleepOnlyWhenCovered, Sleeping, Seeking
<1> QED
  BY <1>1, <1>2, <1>3, <1>4, <1>5, <1>6, <1>7, <1>8, SMTT(30)
  DEF Next, Running, Terminated, MainStep, WorkerStep

\* A worker never sleeps in get_request while a waiting job has no awake
\* worker on its way to it: no wakeup on consume is lost.
THEOREM NoLostConsume == Spec => []SleepOnlyWhenCovered
<1>1. Init => SleepOnlyWhenCovered
  BY ThreadAssumption DEF Init, SleepOnlyWhenCovered, Sleeping, Threads
<1> QED BY <1>1, InvSpec, NextSleep, PTL DEF Spec
=============================================================================
