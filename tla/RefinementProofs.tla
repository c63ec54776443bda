-------------------------- MODULE RefinementProofs --------------------------
(***************************************************************************)
(* The threads, the mutex, the counters and the ring of hw3 server.c       *)
(* implement AdmissionQueue, for every instance: each step of the server   *)
(* is a step of the abstract queue or leaves it alone.                     *)
(***************************************************************************)
EXTENDS OwnershipProofs

\* What the refinement needs beyond IInv and OwnedOnce: a worker in service
\* has a real connection in its session, also after it has closed it.
ServedFds == \A w \in InService : session[w] \in Fds

\* Connections in the ring and in the hands of the main thread are real.
LEMMA RealFds ==
  ASSUME IInv, OwnedOnce
  PROVE  /\ QueuedFds \subseteq Fds
         /\ MainHolds => session[Main] \in Fds
BY DEF IInv, TypeOK, OwnedOnce

\* Only get_request_take gives a worker in service another connection.
LEMMA NextServed ==
  IInv /\ IInv' /\ OwnedOnce /\ ServedFds /\ [Next]_vars => ServedFds'
<1> SUFFICES ASSUME IInv, IInv', OwnedOnce, ServedFds, [Next]_vars PROVE ServedFds'
  OBVIOUS
<1> USE ThreadAssumption
<1>0. TypeOK
  BY DEF IInv
<1>1. ASSUME NEW w \in Workers, get_request_take(w) PROVE ServedFds'
  <2>1. Jobs # <<>> /\ session' = [session EXCEPT ![w] = Head(Jobs)]
    BY <1>1, TakeJobs, SMTT(30)
  <2>2. InService' = InService \cup {w}
    BY <1>0, <1>1, SMTT(30) DEF get_request_take, InService, TypeOK, Threads
  <2>3. Head(Jobs) \in Fds
    BY <2>1, TailElements, OwnedForm, RealFds, SMTT(30) DEF IInv
  <2> QED BY <1>0, <2>1, <2>2, <2>3, SMTT(30) DEF ServedFds, TypeOK, Threads, InService
<1>2. ASSUME NEW fd \in Fds, Accept(fd) PROVE ServedFds'
  BY <1>0, <1>2, SMTT(30) DEF Accept, ServedFds, InService, TypeOK, Threads
<1>3. ASSUME InService' \subseteq InService, session' = session PROVE ServedFds'
  BY <1>3, SMTT(30) DEF ServedFds
<1>4. CASE MainStep
  <2>1. InService' \subseteq InService
    BY <1>0, <1>4, SMTT(30)
    DEF MainStep, add_request_lock, add_request_wait, add_request_reject,
        add_request_drop_head, random_drop_connections, random_drop_one,
        add_request_enqueue, SignalConsume, add_request_unlock, InService,
        TypeOK, Threads
  <2>2. session' = session
    BY <1>4, SMTT(30)
    DEF MainStep, add_request_lock, add_request_wait, add_request_reject,
        add_request_drop_head, random_drop_connections, random_drop_one,
        add_request_enqueue, add_request_unlock
  <2> QED BY <1>3, <2>1, <2>2, SMTT(30)
<1>5. ASSUME NEW w \in Workers, WorkerStep(w), ~get_request_take(w)
      PROVE  InService' \subseteq InService /\ session' = session
  BY <1>0, <1>5, SMTT(30)
  DEF WorkerStep, get_request_lock, get_request_wait, get_request_unlock,
      requestHandle, request_handle_close, notify_request_lock,
      notify_request_finished, SignalProduce, notify_request_unlock, InService,
      TypeOK, Threads
<1>6. ASSUME NEW t \in Threads, SpuriousWakeup(t)
      PROVE  InService' \subseteq InService /\ session' = session
  BY <1>0, <1>6, SMTT(30) DEF SpuriousWakeup, InService, TypeOK, Threads
<1>7. CASE UNCHANGED vars
  BY <1>3, <1>7, SMTT(30) DEF vars, InService
<1> QED
  BY <1>1, <1>2, <1>3, <1>4, <1>5, <1>6, <1>7, SMTT(30) DEF Next, Running, Terminated

-----------------------------------------------------------------------------
\* What the abstract queue sees of the workers.
Active == [w \in Workers |-> IF w \in InService THEN session[w] ELSE NoSession]

\* The abstract load is what the two counters and the pending burst add up to.
LEMMA AbstractTotal ==
  ASSUME IInv, ServedFds
  PROVE  Abstract!Total = waiting_count + to_drop + running_count
<1>1. Abstract!Busy = InService
  BY FdAssumption, SMTT(30) DEF Abstract!Busy, ServedFds, InService
<1>2. Cardinality(InService) = running_count
  BY DEF IInv, CountersExact
<1>3. Abstract!Cardinality(InService) = Cardinality(InService)
  BY DEF Abstract!Cardinality, Cardinality
<1>4. Abstract!Total = Len(Jobs) + running_count
  BY <1>1, <1>2, <1>3, SMTT(30) DEF Abstract!Total, Jobs
<1> QED BY <1>4, JobsCounted, SMTT(30)

\* A step that changes neither the ring nor what the workers serve is not a
\* step of the abstract queue.
LEMMA Stutter ==
  ASSUME UNCHANGED <<schedalg, waiting_jobs, to_drop>>, Active' = Active
  PROVE  UNCHANGED Abstract!avars
BY SMTT(30) DEF Abstract!avars, Active

\* Every step of the server is a step of AdmissionQueue or a stutter.
LEMMA StepSimulation ==
  IInv /\ OwnedOnce /\ ServedFds /\ [Next]_vars => [Abstract!ANext]_(Abstract!avars)
<1> SUFFICES ASSUME IInv, OwnedOnce, ServedFds, [Next]_vars
             PROVE  Abstract!ANext \/ UNCHANGED Abstract!avars
  OBVIOUS
<1> USE ThreadAssumption
<1>0. TypeOK
  BY DEF IInv
<1>00. /\ Abstract!Total = waiting_count + to_drop + running_count
       /\ waiting_count \in Nat /\ running_count \in Nat /\ to_drop \in Nat
       /\ Jobs \in Seq(Fds \cup {NoSession})
       /\ Len(Jobs) = waiting_count + to_drop
  BY AbstractTotal, JobsCounted, SMTT(30)
<1>1. ASSUME NEW fd \in Fds, Accept(fd) PROVE UNCHANGED Abstract!avars
  <2>1. Active' = Active
    BY <1>0, <1>1, SMTT(30) DEF Accept, Active, InService, TypeOK, Threads
  <2> QED BY <1>1, <2>1, Stutter, SMTT(30) DEF Accept
<1>2. CASE \/ add_request_lock \/ add_request_wait \/ add_request_reject
           \/ add_request_unlock
  <2>1. Active' = Active
    BY <1>0, <1>2, SMTT(30)
    DEF add_request_lock, add_request_wait, add_request_reject,
        add_request_unlock, Active, InService, TypeOK, Threads
  <2>2. UNCHANGED <<schedalg, waiting_jobs, to_drop>>
    BY <1>2, SMTT(30)
    DEF add_request_lock, add_request_wait, add_request_reject,
        add_request_unlock
  <2> QED BY <2>1, <2>2, Stutter, SMTT(30)
<1>3. CASE add_request_drop_head
  <2>1. Jobs # <<>> /\ Jobs' = Tail(Jobs) /\ to_drop = 0
    BY <1>3, DropHeadJobs, SMTT(30)
  <2>2. Active' = Active
    BY <1>0, <1>3, SMTT(30) DEF add_request_drop_head, Active, InService, TypeOK, Threads
  <2>3. Abstract!Total = Size
    BY <1>00, <1>3, <2>1, SMTT(30) DEF add_request_drop_head, ManagerFull
  <2>4. Abstract!ShedHead
    BY <1>3, <2>1, <2>2, <2>3, SMTT(30)
    DEF Abstract!ShedHead, add_request_drop_head, Jobs, Active
  <2> QED BY <2>4, SMTT(30) DEF Abstract!ANext
<1>4. CASE random_drop_connections
  <2>1. to_drop = 0
    BY <1>4, SMTT(30) DEF random_drop_connections, IInv, DropPhase, TypeOK
  <2>2. to_drop' = (Len(Jobs) + 1) \div 2
    BY <1>00, <1>4, <2>1, SMTT(30) DEF random_drop_connections
  <2>3. Jobs # <<>> /\ Abstract!Total = Size
    BY <1>00, <1>4, <2>1, EmptySeq, SMTT(30) DEF random_drop_connections, ManagerFull
  <2>4. Active' = Active /\ Jobs' = Jobs
    BY <1>0, <1>4, SMTT(30)
    DEF random_drop_connections, Active, Jobs, InService, TypeOK, Threads
  <2>5. Abstract!BeginShed
    BY <1>4, <2>1, <2>2, <2>3, <2>4, SMTT(30)
    DEF Abstract!BeginShed, random_drop_connections, Jobs, Active
  <2> QED BY <2>5, SMTT(30) DEF Abstract!ANext
<1>5. ASSUME NEW type \in RemoveType, random_drop_one(type) PROVE Abstract!ANext
  <2>1. /\ to_drop > 0
        /\ Jobs' = Tail(Jobs) \/ Jobs' = SubSeq(Jobs, 1, Len(Jobs) - 1)
    BY <1>5, DropOneJobs, SMTT(30)
  <2>2. Active' = Active
    BY <1>0, <1>5, SMTT(30) DEF random_drop_one, Active, InService, TypeOK, Threads
  <2>3. Abstract!ShedOne
    BY <1>5, <2>1, <2>2, SMTT(30) DEF Abstract!ShedOne, random_drop_one, Jobs, Active
  <2> QED BY <2>3, SMTT(30) DEF Abstract!ANext
<1>6. CASE add_request_enqueue
  <2>1. /\ Jobs' = Append(Jobs, session[Main])
        /\ to_drop = 0 /\ waiting_count + running_count < Size
    BY <1>6, EnqueueJobs, SMTT(30)
  <2>2. session[Main] \in Fds
    BY <1>6, RealFds, SMTT(30) DEF add_request_enqueue, MainHolds
  <2>3. Active' = Active
    BY <1>0, <1>6, SMTT(30)
    DEF add_request_enqueue, SignalConsume, Active, InService, TypeOK, Threads
  <2>4. Abstract!Total < Size
    BY <1>00, <2>1, SMTT(30)
  <2>5. Abstract!Admit(session[Main])
    BY <1>6, <2>1, <2>3, <2>4, SMTT(30)
    DEF Abstract!Admit, add_request_enqueue, Jobs, Active
  <2> QED BY <2>2, <2>5, SMTT(30) DEF Abstract!ANext
<1>7. ASSUME NEW w \in Workers, get_request_take(w) PROVE Abstract!ANext
  <2>1. /\ Jobs # <<>> /\ Jobs' = Tail(Jobs) /\ to_drop = 0
        /\ session' = [session EXCEPT ![w] = Head(Jobs)]
    BY <1>7, TakeJobs, SMTT(30)
  <2>2. w \notin InService /\ InService' = InService \cup {w}
    BY <1>0, <1>7, SMTT(30) DEF get_request_take, InService, TypeOK, Threads
  <2>3. Active' = [Active EXCEPT ![w] = Head(Jobs)] /\ Active[w] = NoSession
    BY <1>0, <2>1, <2>2 DEF Active, TypeOK, Threads
  <2>4. Abstract!Dispatch(w)
    BY <1>7, <2>1, <2>3 DEF Abstract!Dispatch, get_request_take, Jobs, Active
  <2> QED BY <2>4, SMTT(30) DEF Abstract!ANext
<1>8. ASSUME NEW w \in Workers, notify_request_finished(w) PROVE Abstract!ANext
  <2>1. w \in InService /\ InService' = InService \ {w} /\ session' = session
    BY <1>0, <1>8, SMTT(30)
    DEF notify_request_finished, SignalProduce, InService, TypeOK, Threads
  <2>2. Active' = [Active EXCEPT ![w] = NoSession] /\ Active[w] # NoSession
    BY <2>1, FdAssumption, ZenonT(30) DEF Active, ServedFds
  <2>3. Jobs' = Jobs
    BY <1>8 DEF notify_request_finished, Jobs
  <2>4. Abstract!Complete(w)
    BY <1>8, <2>2, <2>3
    DEF Abstract!Complete, notify_request_finished, Jobs, Active
  <2> QED BY <2>4 DEF Abstract!ANext
<1>9. ASSUME NEW w \in Workers,
             \/ get_request_lock(w) \/ get_request_wait(w)
             \/ get_request_unlock(w) \/ requestHandle(w)
             \/ request_handle_close(w) \/ notify_request_lock(w)
             \/ notify_request_unlock(w)
      PROVE  UNCHANGED Abstract!avars
  <2>1. InService' = InService
    BY <1>0, <1>9, SMTT(30)
    DEF get_request_lock, get_request_wait, get_request_unlock, requestHandle,
        request_handle_close, notify_request_lock, notify_request_unlock,
        InService, TypeOK, Threads
  <2>2. UNCHANGED <<schedalg, waiting_jobs, to_drop, session>>
    BY <1>9, SMTT(30)
    DEF get_request_lock, get_request_wait, get_request_unlock, requestHandle,
        request_handle_close, notify_request_lock, notify_request_unlock
  <2>3. Active' = Active
    BY <2>1, <2>2, SMTT(30) DEF Active
  <2> QED BY <2>2, <2>3, Stutter
<1>10. ASSUME NEW t \in Threads, SpuriousWakeup(t) PROVE UNCHANGED Abstract!avars
  <2>1. Active' = Active
    BY <1>0, <1>10, SMTT(30) DEF SpuriousWakeup, Active, InService, TypeOK, Threads
  <2> QED BY <1>10, <2>1, Stutter, SMTT(30) DEF SpuriousWakeup
<1>11. CASE UNCHANGED vars
  BY <1>11, Stutter, SMTT(30) DEF vars, Active, InService
<1> QED
  BY <1>1, <1>2, <1>3, <1>4, <1>5, <1>6, <1>7, <1>8, <1>9, <1>10, <1>11, SMTT(30)
  DEF Next, Running, Terminated, MainStep, WorkerStep

\* The jobs manager of server.c implements AdmissionQueue: first come first
\* served, bounded admission, and shedding exactly as the policy allows, for
\* every number of workers and every queue size.
THEOREM Refinement == Spec => ImplementsAdmissionQueue
<1>1. Init => Abstract!AInit /\ ServedFds
  <2> SUFFICES ASSUME Init PROVE Abstract!AInit /\ ServedFds
    OBVIOUS
  <2>1. InService = {}
    BY ThreadAssumption, SMTT(30) DEF Init, InService, Threads
  <2>2. Count(waiting_jobs) = 0
    BY InitQueue DEF Init
  <2>3. Contents(waiting_jobs) = <<>>
    BY <2>2 DEF Contents
  <2> QED BY <2>1, <2>3, SMTT(30) DEF Init, Abstract!AInit, ServedFds
<1> QED
  BY <1>1, InvSpec, OwnershipCorrect, NextServed, StepSimulation, PTL
  DEF Spec, ImplementsAdmissionQueue, Abstract!ASpec
=============================================================================
