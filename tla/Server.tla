------------------------------- MODULE Server -------------------------------
(***************************************************************************)
(* The jobs manager of hw3 server.c: the main thread accepts connections   *)
(* and hands them, through a bounded cyclic queue, to a pool of worker     *)
(* threads.  One mutex protects the queue and its two counters; the        *)
(* condition variable `produce' makes the main thread wait for room        *)
(* (policy BLOCK) and `consume' makes the workers wait for a connection.   *)
(*                                                                         *)
(* pc[t] is where thread t stands.  Every acquisition of the mutex is a    *)
(* step of its own, so threads interleave wherever the code lets them.  A  *)
(* thread woken from pthread_cond_wait goes back to the point where it     *)
(* acquires the mutex, and re-evaluates its loop condition from there.     *)
(* POSIX lets a wait return without a signal, and the model does too.      *)
(***************************************************************************)
EXTENDS CyclicQueue, FiniteSets

CONSTANTS Workers,    \* the worker threads (threads_num of them)
          Main,       \* the thread that runs main()
          NoThread,   \* the holder of a free mutex
          Fds,        \* connection descriptors the kernel may hand out
          Schedalgs,  \* the values argv[4] may select
          SizeMax     \* SIZE_MAX, where size_t counters wrap around

ASSUME ThreadAssumption ==
  /\ IsFiniteSet(Workers)
  /\ Main \notin Workers
  /\ NoThread \notin Workers \cup {Main}

ASSUME FdAssumption == NoSession \notin Fds

ASSUME SchedalgAssumption ==
  Schedalgs \subseteq {"BLOCK", "DROP_TAIL", "DROP_HEAD", "DROP_RANDOM"}

ASSUME SizeMaxAssumption ==
  /\ SizeMax \in Nat
  /\ Size < SizeMax

VARIABLES
  schedalg,       \* jobs_manager.schedalg
  waiting_jobs,   \* jobs_manager.waiting_jobs
  waiting_count,  \* jobs_manager.waiting_count
  running_count,  \* jobs_manager.running_count
  mutex,          \* the thread that holds jobs_manager.mutex, or NoThread
  pc,             \* where each thread stands
  session,        \* each thread's local session.connection_fd
  to_drop,        \* iterations left in random_drop_connections' loop
  open,           \* the connection descriptors that are open
  exited          \* "no", or which error made the process exit

vars == <<schedalg, waiting_jobs, waiting_count, running_count, mutex, pc,
          session, to_drop, open, exited>>

Threads == Workers \cup {Main}

MainPC == {"accept", "lock", "admit", "drop", "enqueue", "unlock", "wait"}
WorkerPC == {"lock_get", "check", "wait", "unlock_get", "serve", "close",
             "lock_done", "finish", "unlock_done"}

-----------------------------------------------------------------------------
(* Library calls as the code uses them.                                    *)

\* size_t arithmetic.
Inc(n) == IF n = SizeMax THEN 0 ELSE n + 1
Dec(n) == IF n = 0 THEN SizeMax ELSE n - 1

\* Close() of segel.c: an error of close(2) ends the whole process.
Close(fd) ==
  /\ open' = open \ {fd}
  /\ exited' = IF fd \in open THEN exited ELSE "close_error"

pthread_mutex_lock(t) == mutex = NoThread /\ mutex' = t

pthread_mutex_unlock(t) == mutex = t /\ mutex' = NoThread

\* The program counters after `self' signals consume and goes to `next'.
SignalConsume(self, next) ==
  LET sleeping == {w \in Workers : pc[w] = "wait"}
  IN  \/ /\ sleeping = {}
         /\ pc' = [pc EXCEPT ![self] = next]
      \/ \E w \in sleeping :
           pc' = [pc EXCEPT ![self] = next, ![w] = "lock_get"]

\* The same for produce; only the main thread waits on it.
SignalProduce(self, next) ==
  pc' = [pc EXCEPT ![self] = next,
                   ![Main] = IF @ = "wait" THEN "lock" ELSE @]

-----------------------------------------------------------------------------
(* init_jobs_manager and the initial state of the threads it creates.      *)

Init ==
  /\ schedalg \in Schedalgs
  /\ waiting_jobs = init_cyclic_queue
  /\ waiting_count = 0
  /\ running_count = 0
  /\ mutex = NoThread
  /\ pc = [t \in Threads |-> IF t = Main THEN "accept" ELSE "lock_get"]
  /\ session = [t \in Threads |-> NoSession]
  /\ to_drop = 0
  /\ open = {}
  /\ exited = "no"

-----------------------------------------------------------------------------
(* The main thread: main() and add_request.                                *)

ManagerFull == waiting_count + running_count = Size

\* main: Accept returns a descriptor that is not open.
Accept(fd) ==
  /\ pc[Main] = "accept"
  /\ fd \notin open
  /\ open' = open \cup {fd}
  /\ session' = [session EXCEPT ![Main] = fd]
  /\ pc' = [pc EXCEPT ![Main] = "lock"]
  /\ UNCHANGED <<schedalg, waiting_jobs, waiting_count, running_count, mutex,
                 to_drop, exited>>

add_request_lock ==
  /\ pc[Main] = "lock"
  /\ pthread_mutex_lock(Main)
  /\ pc' = [pc EXCEPT ![Main] = "admit"]
  /\ UNCHANGED <<schedalg, waiting_jobs, waiting_count, running_count,
                 session, to_drop, open, exited>>

\* BLOCK, no room: release the mutex and wait on produce.
add_request_wait ==
  /\ pc[Main] = "admit"
  /\ schedalg = "BLOCK"
  /\ ManagerFull
  /\ pthread_mutex_unlock(Main)
  /\ pc' = [pc EXCEPT ![Main] = "wait"]
  /\ UNCHANGED <<schedalg, waiting_jobs, waiting_count, running_count,
                 session, to_drop, open, exited>>

\* Mutant: turns a connection away without closing it.
add_request_reject_NoClose ==
  /\ pc[Main] = "admit"
  /\ schedalg # "BLOCK"
  /\ ManagerFull
  /\ waiting_count = 0 \/ schedalg = "DROP_TAIL"
  /\ pc' = [pc EXCEPT ![Main] = "unlock"]
  /\ UNCHANGED <<schedalg, waiting_jobs, waiting_count, running_count, mutex,
                 session, to_drop, open, exited>>

\* A dropping policy, no room, and nothing (DROP_TAIL: nothing else) to drop.
add_request_reject ==
  /\ pc[Main] = "admit"
  /\ schedalg # "BLOCK"
  /\ ManagerFull
  /\ waiting_count = 0 \/ schedalg = "DROP_TAIL"
  /\ Close(session[Main])
  /\ pc' = [pc EXCEPT ![Main] = "unlock"]
  /\ UNCHANGED <<schedalg, waiting_jobs, waiting_count, running_count, mutex,
                 session, to_drop>>

add_request_drop_head ==
  /\ pc[Main] = "admit"
  /\ schedalg = "DROP_HEAD"
  /\ ManagerFull
  /\ waiting_count # 0
  /\ waiting_jobs' = remove_queue_element(waiting_jobs, "HEAD")
  /\ Close(removed_element(waiting_jobs, NoSession, "HEAD"))
  /\ waiting_count' = Dec(waiting_count)
  /\ pc' = [pc EXCEPT ![Main] = "enqueue"]
  /\ UNCHANGED <<schedalg, running_count, mutex, session, to_drop>>

\* random_drop_connections up to its loop: half of the jobs, rounded up.
random_drop_connections ==
  /\ pc[Main] = "admit"
  /\ schedalg = "DROP_RANDOM"
  /\ ManagerFull
  /\ waiting_count # 0
  /\ to_drop' = IF waiting_count % 2 = 0 THEN waiting_count \div 2
                ELSE (waiting_count \div 2) + 1
  /\ waiting_count' = waiting_count - to_drop'
  /\ pc' = [pc EXCEPT ![Main] = "drop"]
  /\ UNCHANGED <<schedalg, waiting_jobs, running_count, mutex, session, open,
                 exited>>

\* One iteration of its loop; rand() picks the end.
random_drop_one(type) ==
  /\ pc[Main] = "drop"
  /\ waiting_jobs' = remove_queue_element(waiting_jobs, type)
  /\ Close(removed_element(waiting_jobs, NoSession, type))
  /\ to_drop' = to_drop - 1
  /\ pc' = [pc EXCEPT ![Main] = IF to_drop = 1 THEN "enqueue" ELSE "drop"]
  /\ UNCHANGED <<schedalg, waiting_count, running_count, mutex, session>>

\* Mutant: signals only when the queue was empty.
add_request_enqueue_SignalIfEmpty ==
  /\ \/ pc[Main] = "enqueue"
     \/ pc[Main] = "admit" /\ ~ManagerFull
  /\ waiting_jobs' = add_queue_element(waiting_jobs, session[Main])
  /\ waiting_count' = Inc(waiting_count)
  /\ IF waiting_count = 0
     THEN SignalConsume(Main, "unlock")
     ELSE pc' = [pc EXCEPT ![Main] = "unlock"]
  /\ UNCHANGED <<schedalg, running_count, mutex, session, to_drop, open,
                 exited>>

\* There is room, or room was made.
add_request_enqueue ==
  /\ \/ pc[Main] = "enqueue"
     \/ pc[Main] = "admit" /\ ~ManagerFull
  /\ waiting_jobs' = add_queue_element(waiting_jobs, session[Main])
  /\ waiting_count' = Inc(waiting_count)
  /\ SignalConsume(Main, "unlock")
  /\ UNCHANGED <<schedalg, running_count, mutex, session, to_drop, open,
                 exited>>

add_request_unlock ==
  /\ pc[Main] = "unlock"
  /\ pthread_mutex_unlock(Main)
  /\ pc' = [pc EXCEPT ![Main] = "accept"]
  /\ UNCHANGED <<schedalg, waiting_jobs, waiting_count, running_count,
                 session, to_drop, open, exited>>

-----------------------------------------------------------------------------
(* A worker: request_handle_thread, get_request, notify_request_finished.  *)

\* Mutant: enters get_request without the mutex.
get_request_lock_NoMutex(w) ==
  /\ pc[w] = "lock_get"
  /\ pc' = [pc EXCEPT ![w] = "check"]
  /\ UNCHANGED <<schedalg, waiting_jobs, waiting_count, running_count, mutex,
                 session, to_drop, open, exited>>

get_request_lock(w) ==
  /\ pc[w] = "lock_get"
  /\ pthread_mutex_lock(w)
  /\ pc' = [pc EXCEPT ![w] = "check"]
  /\ UNCHANGED <<schedalg, waiting_jobs, waiting_count, running_count,
                 session, to_drop, open, exited>>

get_request_wait(w) ==
  /\ pc[w] = "check"
  /\ waiting_count = 0
  /\ pthread_mutex_unlock(w)
  /\ pc' = [pc EXCEPT ![w] = "wait"]
  /\ UNCHANGED <<schedalg, waiting_jobs, waiting_count, running_count,
                 session, to_drop, open, exited>>

\* Mutant: serves the newest job first.
get_request_take_Lifo(w) ==
  /\ pc[w] = "check"
  /\ waiting_count # 0
  /\ session' = [session EXCEPT ![w] = removed_element(waiting_jobs, @, "TAIL")]
  /\ waiting_jobs' = remove_queue_element(waiting_jobs, "TAIL")
  /\ waiting_count' = Dec(waiting_count)
  /\ running_count' = Inc(running_count)
  /\ pc' = [pc EXCEPT ![w] = "unlock_get"]
  /\ UNCHANGED <<schedalg, mutex, to_drop, open, exited>>

get_request_take(w) ==
  /\ pc[w] = "check"
  /\ waiting_count # 0
  /\ session' = [session EXCEPT ![w] = removed_element(waiting_jobs, @, "HEAD")]
  /\ waiting_jobs' = remove_queue_element(waiting_jobs, "HEAD")
  /\ waiting_count' = Dec(waiting_count)
  /\ running_count' = Inc(running_count)
  /\ pc' = [pc EXCEPT ![w] = "unlock_get"]
  /\ UNCHANGED <<schedalg, mutex, to_drop, open, exited>>

get_request_unlock(w) ==
  /\ pc[w] = "unlock_get"
  /\ pthread_mutex_unlock(w)
  /\ pc' = [pc EXCEPT ![w] = "serve"]
  /\ UNCHANGED <<schedalg, waiting_jobs, waiting_count, running_count,
                 session, to_drop, open, exited>>

\* requestHandle returns, or one of its wrappers meets an error and exits.
requestHandle(w) ==
  /\ pc[w] = "serve"
  /\ \/ exited' = exited /\ pc' = [pc EXCEPT ![w] = "close"]
     \/ exited' = "io_error" /\ pc' = pc
  /\ UNCHANGED <<schedalg, waiting_jobs, waiting_count, running_count, mutex,
                 session, to_drop, open>>

request_handle_close(w) ==
  /\ pc[w] = "close"
  /\ Close(session[w])
  /\ pc' = [pc EXCEPT ![w] = "lock_done"]
  /\ UNCHANGED <<schedalg, waiting_jobs, waiting_count, running_count, mutex,
                 session, to_drop>>

notify_request_lock(w) ==
  /\ pc[w] = "lock_done"
  /\ pthread_mutex_lock(w)
  /\ pc' = [pc EXCEPT ![w] = "finish"]
  /\ UNCHANGED <<schedalg, waiting_jobs, waiting_count, running_count,
                 session, to_drop, open, exited>>

\* Mutant: does not signal produce.
notify_request_finished_NoSignal(w) ==
  /\ pc[w] = "finish"
  /\ running_count' = Dec(running_count)
  /\ pc' = [pc EXCEPT ![w] = "unlock_done"]
  /\ UNCHANGED <<schedalg, waiting_jobs, waiting_count, mutex, session,
                 to_drop, open, exited>>

notify_request_finished(w) ==
  /\ pc[w] = "finish"
  /\ running_count' = Dec(running_count)
  /\ SignalProduce(w, "unlock_done")
  /\ UNCHANGED <<schedalg, waiting_jobs, waiting_count, mutex, session,
                 to_drop, open, exited>>

notify_request_unlock(w) ==
  /\ pc[w] = "unlock_done"
  /\ pthread_mutex_unlock(w)
  /\ pc' = [pc EXCEPT ![w] = "lock_get"]
  /\ UNCHANGED <<schedalg, waiting_jobs, waiting_count, running_count,
                 session, to_drop, open, exited>>

-----------------------------------------------------------------------------
\* pthread_cond_wait returns although nobody signalled.
SpuriousWakeup(t) ==
  /\ pc[t] = "wait"
  /\ pc' = [pc EXCEPT ![t] = IF t = Main THEN "lock" ELSE "lock_get"]
  /\ UNCHANGED <<schedalg, waiting_jobs, waiting_count, running_count, mutex,
                 session, to_drop, open, exited>>

MainStep ==
  \/ add_request_lock
  \/ add_request_wait
  \/ add_request_reject
  \/ add_request_drop_head
  \/ random_drop_connections
  \/ \E type \in RemoveType : random_drop_one(type)
  \/ add_request_enqueue
  \/ add_request_unlock

WorkerStep(w) ==
  \/ get_request_lock(w)
  \/ get_request_wait(w)
  \/ get_request_take(w)
  \/ get_request_unlock(w)
  \/ requestHandle(w)
  \/ request_handle_close(w)
  \/ notify_request_lock(w)
  \/ notify_request_finished(w)
  \/ notify_request_unlock(w)

Terminated == exited # "no" /\ UNCHANGED vars

Running ==
  /\ exited = "no"
  /\ \/ \E fd \in Fds : Accept(fd)
     \/ MainStep
     \/ \E w \in Workers : WorkerStep(w)
     \/ \E t \in Threads : SpuriousWakeup(t)

Next == Running \/ Terminated

Spec == Init /\ [][Next]_vars

(* The kernel schedules every runnable thread, requestHandle returns or    *)
(* exits, and wakeups are not spurious for ever.  Nothing makes clients    *)
(* connect or favours a thread that competes for the mutex.                *)
Fairness ==
  /\ WF_vars(exited = "no" /\ MainStep)
  /\ \A w \in Workers : WF_vars(exited = "no" /\ WorkerStep(w))
  /\ <>[][~\E t \in Threads : SpuriousWakeup(t)]_vars

FairSpec == Spec /\ Fairness
-----------------------------------------------------------------------------
(* Properties.                                                             *)

\* Workers whose request counts as running: from get_request's dequeue to
\* the decrement in notify_request_finished.
InService ==
  {w \in Workers : pc[w] \in {"unlock_get", "serve", "close", "lock_done", "finish"}}

\* Workers that hold an open connection.
Serving == {w \in Workers : pc[w] \in {"unlock_get", "serve", "close"}}

\* Workers awake on their way to get_request's test of waiting_count.
Seeking == {w \in Workers : pc[w] \in {"lock_get", "check"}}

Sleeping == {w \in Workers : pc[w] = "wait"}

\* The main thread holds an accepted connection it has not handed over.
MainHolds == pc[Main] \in {"lock", "admit", "drop", "enqueue", "wait"}

QueuedFds == {Contents(waiting_jobs)[i] : i \in 1 .. Count(waiting_jobs)}

\* Every variable keeps its type: the indices of the ring stay within its
\* slots (or -1) and each thread stays within its own code.
TypeOK ==
  /\ schedalg \in Schedalgs
  /\ waiting_jobs \in CyclicQueueOf(Fds \cup {NoSession})
  /\ waiting_count \in 0 .. SizeMax
  /\ running_count \in 0 .. SizeMax
  /\ mutex \in Threads \cup {NoThread}
  /\ pc \in [Threads -> MainPC \cup WorkerPC]
  /\ pc[Main] \in MainPC
  /\ \A w \in Workers : pc[w] \in WorkerPC
  /\ session \in [Threads -> Fds \cup {NoSession}]
  /\ to_drop \in Nat
  /\ open \subseteq Fds
  /\ exited \in {"no", "close_error", "io_error"}

\* Threads between a lock and the matching unlock or wait.
InCriticalSection(t) ==
  pc[t] \in {"admit", "drop", "enqueue", "unlock", "check", "unlock_get",
             "finish", "unlock_done"}

\* The thread in a critical section is the one that holds the mutex, so two
\* threads are never in add_request, get_request or notify_request_finished.
MutexExclusive == \A t \in Threads : InCriticalSection(t) <=> mutex = t

\* The two size_t counters of jobs_manager_t never drift from what they count:
\* the jobs in the ring and the workers serving a request.
CountersExact ==
  /\ waiting_count + to_drop = Count(waiting_jobs)
  /\ running_count = Cardinality(InService)

\* The `==' tests of add_request are enough to keep the number of accepted
\* requests, waiting and running, within max_accepted_count.
CapacityBound == waiting_count + running_count <= Size

\* Every open connection has exactly one owner: a slot of the ring, the main
\* thread, or one worker.  None is leaked, none is closed or served twice,
\* even though the kernel reuses descriptor numbers; so Close() never meets a
\* descriptor that is not open, on which the wrapper of segel.c ends the server.
OwnedOnce ==
  /\ exited # "close_error"
  /\ open = QueuedFds \cup {session[w] : w \in Serving}
                      \cup (IF MainHolds THEN {session[Main]} ELSE {})
  /\ \A i, j \in 1 .. Count(waiting_jobs) :
       Contents(waiting_jobs)[i] = Contents(waiting_jobs)[j] => i = j
  /\ \A w \in Serving :
       /\ session[w] \notin QueuedFds
       /\ \A v \in Serving : session[v] = session[w] => v = w
       /\ MainHolds => session[w] # session[Main]
  /\ MainHolds => session[Main] \notin QueuedFds

\* No lost wakeup on produce: the main thread sleeps in add_request only
\* while there is no room, although get_request does not signal it.
BlockedOnlyWhenFull == pc[Main] = "wait" => ManagerFull

\* random_drop_connections subtracts its whole burst from waiting_count
\* before it drops anything, and add_request enqueues only into room.
DropPhase ==
  /\ pc[Main] = "drop" <=> to_drop > 0
  /\ pc[Main] \in {"drop", "enqueue"} => waiting_count + running_count < Size

\* The inductive invariant behind CountersExact, CapacityBound and
\* BlockedOnlyWhenFull: the counters of server.c can only be trusted because
\* the mutex is exclusive and the ring's two indices agree on emptiness.
IInv ==
  /\ TypeOK
  /\ QueueOK(waiting_jobs)
  /\ MutexExclusive
  /\ DropPhase
  /\ CountersExact
  /\ CapacityBound
  /\ BlockedOnlyWhenFull

\* No lost wakeup on consume: a worker sleeps in get_request only while every
\* waiting job has an awake worker on its way to it.
SleepOnlyWhenCovered ==
  Sleeping # {} => waiting_count <= Cardinality(Seeking)

\* The threads, locks, counters and ring implement AdmissionQueue: FIFO
\* dispatch, bounded admission, and shedding only as the policy allows.
Abstract ==
  INSTANCE AdmissionQueue WITH
    policy <- schedalg,
    pending <- Contents(waiting_jobs),
    active <- [w \in Workers |-> IF w \in InService THEN session[w] ELSE NoSession],
    shedding <- to_drop

ImplementsAdmissionQueue == Abstract!ASpec

\* Every accepted connection is eventually closed, served or shed, unless the
\* server exits: neither the workers nor the blocked main thread hang.
EveryConnectionClosed ==
  \A fd \in Fds : fd \in open ~> (fd \notin open \/ exited # "no")
=============================================================================
