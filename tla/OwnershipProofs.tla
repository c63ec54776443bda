-------------------------- MODULE OwnershipProofs --------------------------
(***************************************************************************)
(* Who owns a connection of hw3 server.c, for any number of workers, any   *)
(* queue size, any set of descriptors and every policy: every open         *)
(* descriptor is in one slot of the ring or in the hands of one thread, so *)
(* none is leaked and none is closed twice.                                *)
(*                                                                         *)
(* OwnedOnce is inductive relative to IInv: that a job is taken from a     *)
(* ring that has one, and put into a ring that has room, is what the exact *)
(* counters say.                                                           *)
(***************************************************************************)
EXTENDS ServerProofs

\* The elements of a sequence.
Elements(s) == {s[i] : i \in 1 .. Len(s)}

\* No element twice.
Distinct(s) == \A i, j \in 1 .. Len(s) : s[i] = s[j] => i = j

\* Appending a new element keeps a sequence free of repetitions.
LEMMA AppendElements ==
  ASSUME NEW S, NEW s \in Seq(S), NEW e \in S, Distinct(s), e \notin Elements(s)
  PROVE  /\ Elements(Append(s, e)) = Elements(s) \cup {e}
         /\ Distinct(Append(s, e))
<1>1. /\ Len(Append(s, e)) = Len(s) + 1 /\ Len(s) \in Nat
      /\ \A i \in 1 .. Len(s) : Append(s, e)[i] = s[i]
      /\ Append(s, e)[Len(s) + 1] = e
  BY AppendProperties, LenProperties, SMTT(30)
<1> DEFINE a == Append(s, e)
<1> HIDE DEF a
<1>2. \A i \in 1 .. Len(s) + 1 : i \in 1 .. Len(s) \/ i = Len(s) + 1
  BY <1>1
<1>3. \A i \in 1 .. Len(s) : i \in 1 .. Len(s) + 1 /\ Len(s) + 1 \in 1 .. Len(s) + 1
  BY <1>1
<1>4. Len(s) + 1 \in 1 .. Len(s) + 1
  BY <1>1, SMTT(30)
<1>5. Elements(a) = Elements(s) \cup {e}
  BY <1>1, <1>2, <1>3, <1>4, SMTT(30) DEF Elements, a
<1>6. Distinct(a)
  BY <1>1, <1>2, SMTT(30) DEF Distinct, Elements, a
<1> QED BY <1>5, <1>6, SMTT(30) DEF a

\* Without its oldest element a sequence free of repetitions has exactly the
\* others.
LEMMA TailElements ==
  ASSUME NEW S, NEW s \in Seq(S), s # <<>>, Distinct(s)
  PROVE  /\ Head(s) \in Elements(s)
         /\ Elements(Tail(s)) = Elements(s) \ {Head(s)}
         /\ Distinct(Tail(s))
<1> DEFINE t == Tail(s)
           n == Len(s)
<1>1. /\ n \in Nat \ {0} /\ Len(t) = n - 1
      /\ \A i \in 1 .. n - 1 : t[i] = s[i + 1]
      /\ Head(s) = s[1]
  BY HeadTailProperties, EmptySeq, SMTT(30)
<1> HIDE DEF t, n
<1>2. 1 \in 1 .. n
  BY <1>1
<1>3. \A i \in 1 .. n - 1 : i + 1 \in 1 .. n /\ i + 1 # 1
  BY <1>1
<1>4. \A j \in 1 .. n : j # 1 => \E i \in 1 .. n - 1 : j = i + 1
  <2> SUFFICES ASSUME NEW j \in 1 .. n, j # 1
               PROVE  \E i \in 1 .. n - 1 : j = i + 1
    OBVIOUS
  <2>1. j - 1 \in 1 .. n - 1 /\ j = (j - 1) + 1
    BY <1>1, SMTT(30)
  <2> QED BY <2>1, SMTT(30)
<1>5. \A i, j \in 1 .. n - 1 : i + 1 = j + 1 => i = j
  BY <1>1
<1>6. Elements(t) = {s[i + 1] : i \in 1 .. n - 1}
  BY <1>1 DEF Elements
<1>7. Elements(t) = Elements(s) \ {Head(s)}
  <2>1. ASSUME NEW x \in Elements(t) PROVE x \in Elements(s) /\ x # Head(s)
    <3>1. PICK i \in 1 .. n - 1 : x = s[i + 1]
      BY <1>6
    <3>2. i + 1 \in 1 .. n /\ i + 1 # 1
      BY <1>3
    <3> QED BY <1>1, <1>2, <3>1, <3>2 DEF Elements, Distinct, n
  <2>2. ASSUME NEW x \in Elements(s), x # Head(s) PROVE x \in Elements(t)
    <3>1. PICK j \in 1 .. n : x = s[j]
      BY DEF Elements, n
    <3>2. PICK i \in 1 .. n - 1 : j = i + 1
      BY <1>1, <1>4, <2>2, <3>1, SMTT(30)
    <3> QED BY <1>6, <3>1, <3>2
  <2> QED BY <2>1, <2>2
<1>8. Distinct(t)
  BY <1>1, <1>3, <1>5, SMTT(30) DEF Distinct, n
<1>9. Head(s) \in Elements(s)
  BY <1>1, <1>2, SMTT(30) DEF Elements, n
<1> QED BY <1>7, <1>8, <1>9, SMTT(30) DEF t

\* The same without its newest element.
LEMMA FrontElements ==
  ASSUME NEW S, NEW s \in Seq(S), Len(s) > 0, Distinct(s)
  PROVE  /\ s[Len(s)] \in Elements(s)
         /\ Elements(SubSeq(s, 1, Len(s) - 1)) = Elements(s) \ {s[Len(s)]}
         /\ Distinct(SubSeq(s, 1, Len(s) - 1))
<1> DEFINE n == Len(s)
           t == SubSeq(s, 1, n - 1)
<1>1. n \in Nat \ {0} /\ n = Len(s)
  BY LenProperties, SMTT(30)
<1> HIDE DEF n
<1>2. /\ Len(t) = n - 1
      /\ \A i \in 1 .. n - 1 : t[i] = s[i]
  <2>1. \A i \in 1 .. n - 1 : s[i] \in S
    BY <1>1, ElementOfSeq, SMTT(30)
  <2> QED BY <1>1, <2>1, SMTT(30)
<1> HIDE DEF t
<1>3. \A i \in 1 .. n : i \in 1 .. n - 1 \/ i = n
  BY <1>1, SMTT(30)
<1>4. n \in 1 .. n /\ \A i \in 1 .. n - 1 : i \in 1 .. n /\ i # n
  BY <1>1, SMTT(30)
<1>5. Elements(t) = Elements(s) \ {s[n]}
  BY <1>2, <1>3, <1>4, SMTT(30) DEF Elements, Distinct, n
<1>6. Distinct(t)
  BY <1>2, <1>4, SMTT(30) DEF Distinct, n
<1>7. s[n] \in Elements(s)
  BY <1>4 DEF Elements, n
<1> QED BY <1>5, <1>6, <1>7, SMTT(30) DEF t, n

-----------------------------------------------------------------------------
\* The jobs in the ring, as a sequence.
Jobs == Contents(waiting_jobs)

\* What OwnedOnce says of sets of descriptors, apart from repetitions in the
\* ring.
OwnedSets ==
  /\ open = QueuedFds \cup {session[w] : w \in Serving}
                      \cup (IF MainHolds THEN {session[Main]} ELSE {})
  /\ \A w \in Serving :
       /\ session[w] \notin QueuedFds
       /\ \A v \in Serving : session[v] = session[w] => v = w
       /\ MainHolds => session[w] # session[Main]
  /\ MainHolds => session[Main] \notin QueuedFds

\* OwnedOnce in terms of the sequence of waiting jobs.
LEMMA OwnedForm ==
  ASSUME TypeOK, QueueOK(waiting_jobs)
  PROVE  /\ Jobs \in Seq(Fds \cup {NoSession}) /\ Len(Jobs) = Count(waiting_jobs)
         /\ QueuedFds = Elements(Jobs)
         /\ OwnedOnce <=> exited # "close_error" /\ Distinct(Jobs) /\ OwnedSets
<1>1. Jobs \in Seq(Fds \cup {NoSession}) /\ Len(Jobs) = Count(waiting_jobs)
  BY ContentsSeq, SMTT(30) DEF TypeOK, Jobs
<1>2. QueuedFds = Elements(Jobs)
  BY <1>1, SMTT(30) DEF QueuedFds, Elements, Jobs
<1>3. OwnedOnce <=> exited # "close_error" /\ Distinct(Jobs) /\ OwnedSets
  BY <1>1, SMTT(30) DEF OwnedOnce, OwnedSets, Distinct, Jobs
<1> QED BY <1>1, <1>2, <1>3, SMTT(30)

\* The same after a step.
LEMMA OwnedFormNext ==
  ASSUME TypeOK', QueueOK(waiting_jobs)'
  PROVE  /\ QueuedFds' = Elements(Jobs')
         /\ OwnedOnce' <=> exited' # "close_error" /\ Distinct(Jobs') /\ OwnedSets'
<1>1. Jobs' \in Seq(Fds \cup {NoSession}) /\ Len(Jobs') = Count(waiting_jobs')
  BY ContentsSeq, SMTT(30) DEF TypeOK, Jobs
<1>2. QueuedFds' = Elements(Jobs')
  BY <1>1, SMTT(30) DEF QueuedFds, Elements, Jobs
<1>3. OwnedOnce' <=> exited' # "close_error" /\ Distinct(Jobs') /\ OwnedSets'
  BY <1>1, SMTT(30) DEF OwnedOnce, OwnedSets, Distinct, Jobs
<1> QED BY <1>2, <1>3, SMTT(30)

\* A step that moves no connection.
LEMMA FrameOwned ==
  ASSUME OwnedOnce, UNCHANGED <<waiting_jobs, open, session>>,
         Serving' = Serving, MainHolds' <=> MainHolds,
         exited' # "close_error"
  PROVE  OwnedOnce'
BY DEF OwnedOnce, QueuedFds

-----------------------------------------------------------------------------
(* The steps that change the ring, in terms of the sequence of waiting     *)
(* jobs.                                                                   *)

\* Outside the loop of random_drop_connections the counter of waiting jobs is
\* the length of the ring; inside it the ring holds at least one job more.
LEMMA JobsCounted ==
  ASSUME IInv
  PROVE  /\ Jobs \in Seq(Fds \cup {NoSession})
         /\ Len(Jobs) = Count(waiting_jobs)
         /\ waiting_count \in Nat /\ running_count \in Nat /\ to_drop \in Nat
         /\ Len(Jobs) = waiting_count + to_drop
         /\ Jobs # <<>> <=> Count(waiting_jobs) > 0
<1>1. Jobs \in Seq(Fds \cup {NoSession}) /\ Len(Jobs) = Count(waiting_jobs)
  BY OwnedForm, SMTT(30) DEF IInv
<1>2. waiting_count \in Nat /\ running_count \in Nat /\ to_drop \in Nat
  BY SizeMaxAssumption, SMTT(30) DEF IInv, TypeOK
<1>3. Len(Jobs) = waiting_count + to_drop
  BY <1>1, SMTT(30) DEF IInv, CountersExact
<1>4. Jobs # <<>> <=> Len(Jobs) > 0
  BY <1>1, EmptySeq, SMTT(30)
<1> QED BY <1>1, <1>2, <1>3, <1>4, SMTT(30)

\* add_request under DROP_HEAD: the oldest job leaves the ring and is closed.
LEMMA DropHeadJobs ==
  ASSUME IInv, add_request_drop_head
  PROVE  /\ Jobs # <<>> /\ Jobs' = Tail(Jobs) /\ Close(Head(Jobs)) /\ to_drop = 0
<1>1. to_drop = 0 /\ Count(waiting_jobs) > 0
  BY JobsCounted, SMTT(30) DEF add_request_drop_head, IInv, DropPhase
<1>2. /\ removed_element(waiting_jobs, NoSession, "HEAD") = Head(Jobs)
      /\ Contents(remove_queue_element(waiting_jobs, "HEAD")) = Tail(Jobs)
  BY <1>1, RemoveHeadContents DEF IInv, TypeOK, Jobs
<1> QED BY <1>1, <1>2, JobsCounted, SMTT(30) DEF add_request_drop_head, Jobs

\* One iteration of random_drop_connections: the oldest or the newest job
\* leaves the ring and is closed.
LEMMA DropOneJobs ==
  ASSUME IInv, NEW type \in RemoveType, random_drop_one(type)
  PROVE  /\ Jobs # <<>> /\ to_drop > 0
         /\ \/ Jobs' = Tail(Jobs) /\ Close(Head(Jobs))
            \/ Jobs' = SubSeq(Jobs, 1, Len(Jobs) - 1) /\ Close(Jobs[Len(Jobs)])
<1>1. to_drop > 0 /\ Count(waiting_jobs) > 0
  BY JobsCounted DEF random_drop_one, IInv, DropPhase
<1>2. CASE type = "HEAD"
  <2>1. /\ removed_element(waiting_jobs, NoSession, "HEAD") = Head(Jobs)
        /\ Contents(remove_queue_element(waiting_jobs, "HEAD")) = Tail(Jobs)
    BY <1>1, RemoveHeadContents DEF IInv, TypeOK, Jobs
  <2> QED BY <1>1, <1>2, <2>1, JobsCounted, SMTT(30) DEF random_drop_one, Jobs
<1>3. CASE type = "TAIL"
  <2>1. /\ removed_element(waiting_jobs, NoSession, "TAIL")
             = Jobs[Count(waiting_jobs)]
        /\ Contents(remove_queue_element(waiting_jobs, "TAIL"))
             = SubSeq(Jobs, 1, Count(waiting_jobs) - 1)
    BY <1>1, RemoveTailContents DEF IInv, TypeOK, Jobs
  <2>2. Len(Jobs) = Count(waiting_jobs) /\ Jobs # <<>>
    BY <1>1, JobsCounted, SMTT(30)
  <2> QED BY <1>1, <1>3, <2>1, <2>2 DEF random_drop_one, Jobs
<1> QED BY <1>2, <1>3 DEF RemoveType

\* The rest of add_request: the new connection goes behind the others.
LEMMA EnqueueJobs ==
  ASSUME IInv, add_request_enqueue
  PROVE  /\ Jobs' = Append(Jobs, session[Main])
         /\ to_drop = 0 /\ waiting_count + running_count < Size
<1>1. to_drop = 0 /\ waiting_count + running_count < Size
  BY JobsCounted, SizeAssumption, SMTT(30)
  DEF add_request_enqueue, ManagerFull, IInv, DropPhase, CapacityBound
<1>2. Count(waiting_jobs) < Size
  BY <1>1, JobsCounted, SizeAssumption, SMTT(30)
<1>3. session[Main] \in Fds \cup {NoSession}
  BY SMTT(30) DEF IInv, TypeOK, Threads
<1>4. Contents(add_queue_element(waiting_jobs, session[Main]))
        = Append(Jobs, session[Main])
  BY <1>2, <1>3, AddContents, SMTT(30) DEF IInv, TypeOK, Jobs
<1> QED BY <1>1, <1>4, SMTT(30) DEF add_request_enqueue, Jobs

\* get_request: the oldest job leaves the ring for the worker.  The mutex keeps
\* the main thread out of random_drop_connections meanwhile.
LEMMA TakeJobs ==
  ASSUME IInv, NEW w \in Workers, get_request_take(w)
  PROVE  /\ Jobs # <<>> /\ Jobs' = Tail(Jobs) /\ to_drop = 0
         /\ session' = [session EXCEPT ![w] = Head(Jobs)]
<1>1. pc[Main] # "drop"
  BY ThreadAssumption
  DEF get_request_take, IInv, MutexExclusive, InCriticalSection, Threads
<1>2. to_drop = 0 /\ Count(waiting_jobs) > 0
  BY <1>1, JobsCounted DEF get_request_take, IInv, DropPhase
<1>3. /\ removed_element(waiting_jobs, session[w], "HEAD") = Head(Jobs)
      /\ Contents(remove_queue_element(waiting_jobs, "HEAD")) = Tail(Jobs)
  BY <1>2, RemoveHeadContents DEF IInv, TypeOK, Jobs
<1> QED BY <1>2, <1>3, JobsCounted, ZenonT(30) DEF get_request_take, Jobs

-----------------------------------------------------------------------------
\* Every step of the server leaves every open connection with one owner.
LEMMA NextOwned == IInv /\ IInv' /\ OwnedOnce /\ [Next]_vars => OwnedOnce'
<1> SUFFICES ASSUME IInv, IInv', OwnedOnce, [Next]_vars PROVE OwnedOnce'
  OBVIOUS
<1> USE ThreadAssumption
<1>0. TypeOK
  BY DEF IInv
<1>00. /\ exited # "close_error" /\ Distinct(Jobs) /\ OwnedSets
       /\ QueuedFds = Elements(Jobs) /\ Jobs \in Seq(Fds \cup {NoSession})
  BY OwnedForm, SMTT(30) DEF IInv
<1>000. /\ QueuedFds' = Elements(Jobs')
        /\ exited' # "close_error" /\ Distinct(Jobs') /\ OwnedSets' => OwnedOnce'
  BY OwnedFormNext, SMTT(30) DEF IInv
<1>1. ASSUME NEW fd \in Fds, Accept(fd) PROVE OwnedOnce'
  <2>1. /\ Serving' = Serving /\ ~MainHolds /\ MainHolds'
        /\ session'[Main] = fd /\ \A w \in Serving : session'[w] = session[w]
    BY <1>0, <1>1, SMTT(30) DEF Accept, TypeOK, Threads, Serving, MainHolds
  <2>2. QueuedFds' = QueuedFds /\ Jobs' = Jobs /\ exited' = exited
    BY <1>1, SMTT(30) DEF Accept, QueuedFds, Jobs
  <2>3. open' = open \cup {fd} /\ fd \notin open
    BY <1>1, SMTT(30) DEF Accept
  <2>4. OwnedSets'
    BY <1>00, <2>1, <2>2, <2>3, SMTT(30) DEF OwnedSets
  <2> QED BY <1>00, <1>000, <2>2, <2>4, SMTT(30)
<1>2. CASE \/ add_request_lock \/ add_request_wait \/ random_drop_connections
           \/ add_request_unlock
  <2>1. Serving' = Serving /\ (MainHolds' <=> MainHolds)
    BY <1>0, <1>2, SMTT(30)
    DEF add_request_lock, add_request_wait, random_drop_connections,
        add_request_unlock, TypeOK, Threads, Serving, MainHolds
  <2>2. UNCHANGED <<waiting_jobs, open, session, exited>>
    BY <1>2, SMTT(30)
    DEF add_request_lock, add_request_wait, random_drop_connections,
        add_request_unlock
  <2> QED BY <1>00, <2>1, <2>2, FrameOwned, SMTT(30)
<1>3. CASE add_request_reject
  <2>1. /\ Serving' = Serving /\ MainHolds /\ ~MainHolds' /\ session' = session
        /\ Close(session[Main])
    BY <1>0, <1>3, SMTT(30) DEF add_request_reject, TypeOK, Threads, Serving, MainHolds
  <2>2. QueuedFds' = QueuedFds /\ Jobs' = Jobs
    BY <1>3, SMTT(30) DEF add_request_reject, QueuedFds, Jobs
  <2>3. OwnedSets' /\ exited' = exited
    BY <1>00, <2>1, <2>2, SMTT(30) DEF OwnedSets, Close
  <2> QED BY <1>00, <1>000, <2>2, <2>3, SMTT(30)
<1>4. ASSUME NEW e, e \in QueuedFds, Close(e), QueuedFds' = QueuedFds \ {e},
             Distinct(Jobs'), session' = session, Serving' = Serving,
             MainHolds' <=> MainHolds
      PROVE  OwnedOnce'
  <2>1. OwnedSets' /\ exited' = exited
    BY <1>00, <1>4, SMTT(30) DEF OwnedSets, Close
  <2> QED BY <1>00, <1>000, <1>4, <2>1, SMTT(30)
<1>5. CASE add_request_drop_head
  <2>1. Jobs # <<>> /\ Jobs' = Tail(Jobs) /\ Close(Head(Jobs))
    BY <1>5, DropHeadJobs, SMTT(30)
  <2>2. /\ Head(Jobs) \in QueuedFds /\ QueuedFds' = QueuedFds \ {Head(Jobs)}
        /\ Distinct(Jobs')
    BY <1>00, <1>000, <2>1, TailElements, SMTT(30)
  <2>3. session' = session /\ Serving' = Serving /\ (MainHolds' <=> MainHolds)
    BY <1>0, <1>5, SMTT(30) DEF add_request_drop_head, TypeOK, Threads, Serving, MainHolds
  <2> QED BY <1>4, <2>1, <2>2, <2>3, SMTT(30)
<1>6. ASSUME NEW type \in RemoveType, random_drop_one(type) PROVE OwnedOnce'
  <2>1. session' = session /\ Serving' = Serving /\ (MainHolds' <=> MainHolds)
    BY <1>0, <1>6, SMTT(30) DEF random_drop_one, TypeOK, Threads, Serving, MainHolds
  <2>2. CASE Jobs' = Tail(Jobs) /\ Close(Head(Jobs))
    <3>1. /\ Head(Jobs) \in QueuedFds /\ QueuedFds' = QueuedFds \ {Head(Jobs)}
          /\ Distinct(Jobs')
      BY <1>00, <1>000, <1>6, <2>2, DropOneJobs, TailElements, SMTT(30)
    <3> QED BY <1>4, <2>1, <2>2, <3>1, SMTT(30)
  <2>3. CASE Jobs' = SubSeq(Jobs, 1, Len(Jobs) - 1) /\ Close(Jobs[Len(Jobs)])
    <3>1. Len(Jobs) > 0
      BY <1>6, DropOneJobs, JobsCounted, SMTT(30)
    <3>2. /\ Jobs[Len(Jobs)] \in QueuedFds
          /\ QueuedFds' = QueuedFds \ {Jobs[Len(Jobs)]}
          /\ Distinct(Jobs')
      BY <1>00, <1>000, <2>3, <3>1, FrontElements, SMTT(30)
    <3> QED BY <1>4, <2>1, <2>3, <3>2, SMTT(30)
  <2> QED BY <1>6, <2>2, <2>3, DropOneJobs, SMTT(30)
<1>7. CASE add_request_enqueue
  <2>1. Jobs' = Append(Jobs, session[Main])
    BY <1>7, EnqueueJobs, SMTT(30)
  <2>2. /\ session' = session /\ Serving' = Serving /\ MainHolds /\ ~MainHolds'
        /\ open' = open /\ exited' = exited
    BY <1>0, <1>7, SMTT(30)
    DEF add_request_enqueue, SignalConsume, TypeOK, Threads, Serving, MainHolds
  <2>3. session[Main] \notin QueuedFds /\ session[Main] \in Fds \cup {NoSession}
    BY <1>0, <1>00, <2>2, SMTT(30) DEF OwnedSets, TypeOK, Threads
  <2>4. QueuedFds' = QueuedFds \cup {session[Main]} /\ Distinct(Jobs')
    BY <1>00, <1>000, <2>1, <2>3, AppendElements, SMTT(30)
  <2>5. OwnedSets'
    BY <1>00, <2>2, <2>4, SMTT(30) DEF OwnedSets
  <2> QED BY <1>00, <1>000, <2>2, <2>4, <2>5, SMTT(30)
<1>8. ASSUME NEW w \in Workers, get_request_take(w) PROVE OwnedOnce'
  <2>1. /\ Jobs # <<>> /\ Jobs' = Tail(Jobs)
        /\ session' = [session EXCEPT ![w] = Head(Jobs)]
    BY <1>8, TakeJobs, SMTT(30)
  <2>2. /\ Head(Jobs) \in QueuedFds /\ QueuedFds' = QueuedFds \ {Head(Jobs)}
        /\ Distinct(Jobs')
    BY <1>00, <1>000, <2>1, TailElements, SMTT(30)
  <2>3. /\ Serving' = Serving \cup {w} /\ w \notin Serving
        /\ MainHolds' <=> MainHolds
        /\ open' = open /\ exited' = exited
    BY <1>0, <1>8, SMTT(30) DEF get_request_take, TypeOK, Threads, Serving, MainHolds
  <2>4. /\ session'[w] = Head(Jobs) /\ session'[Main] = session[Main]
        /\ \A v \in Serving : session'[v] = session[v]
    BY <1>0, <2>1, <2>3, SMTT(30) DEF TypeOK, Threads, Serving
  <2>5. OwnedSets'
    BY <1>00, <2>2, <2>3, <2>4, SMTT(30) DEF OwnedSets
  <2> QED BY <1>00, <1>000, <2>2, <2>3, <2>5, SMTT(30)
<1>9. ASSUME NEW w \in Workers, request_handle_close(w) PROVE OwnedOnce'
  <2>1. /\ Serving' = Serving \ {w} /\ w \in Serving /\ session' = session
        /\ (MainHolds' <=> MainHolds) /\ Close(session[w])
    BY <1>0, <1>9, SMTT(30) DEF request_handle_close, TypeOK, Threads, Serving, MainHolds
  <2>2. QueuedFds' = QueuedFds /\ Jobs' = Jobs
    BY <1>9, SMTT(30) DEF request_handle_close, QueuedFds, Jobs
  <2>3. OwnedSets' /\ exited' = exited
    BY <1>00, <2>1, <2>2, SMTT(30) DEF OwnedSets, Close
  <2> QED BY <1>00, <1>000, <2>2, <2>3, SMTT(30)
<1>10. ASSUME NEW w \in Workers,
              \/ get_request_lock(w) \/ get_request_wait(w)
              \/ get_request_unlock(w) \/ requestHandle(w)
              \/ notify_request_lock(w) \/ notify_request_finished(w)
              \/ notify_request_unlock(w)
       PROVE  OwnedOnce'
  <2>1. Serving' = Serving /\ (MainHolds' <=> MainHolds)
    BY <1>0, <1>10, SMTT(30)
    DEF get_request_lock, get_request_wait, get_request_unlock, requestHandle,
        notify_request_lock, notify_request_finished, SignalProduce,
        notify_request_unlock, TypeOK, Threads, Serving, MainHolds
  <2>2. /\ UNCHANGED <<waiting_jobs, open, session>>
        /\ exited' \in {exited, "io_error"}
    BY <1>10, SMTT(30)
    DEF get_request_lock, get_request_wait, get_request_unlock, requestHandle,
        notify_request_lock, notify_request_finished, notify_request_unlock
  <2> QED BY <1>00, <2>1, <2>2, FrameOwned, SMTT(30)
<1>11. ASSUME NEW t \in Threads, SpuriousWakeup(t) PROVE OwnedOnce'
  <2>1. Serving' = Serving /\ (MainHolds' <=> MainHolds)
    BY <1>0, <1>11, SMTT(30) DEF SpuriousWakeup, TypeOK, Threads, Serving, MainHolds
  <2> QED BY <1>00, <1>11, <2>1, FrameOwned, SMTT(30) DEF SpuriousWakeup
<1>12. CASE UNCHANGED vars
  BY <1>00, <1>12, FrameOwned, SMTT(30) DEF vars, Serving, MainHolds
<1> QED
  BY <1>1, <1>2, <1>3, <1>5, <1>6, <1>7, <1>8, <1>9, <1>10, <1>11, <1>12, SMTT(30)
  DEF Next, Running, Terminated, MainStep, WorkerStep

\* Every open connection has exactly one owner, and Close() of server.c never
\* meets a descriptor that is not open.
THEOREM OwnershipCorrect == Spec => []OwnedOnce
<1>1. Init => OwnedOnce
  <2> SUFFICES ASSUME Init PROVE OwnedOnce
    OBVIOUS
  <2>0. Count(waiting_jobs) = 0
    BY InitQueue DEF Init
  <2>1. Count(waiting_jobs) = 0 /\ QueuedFds = {}
    BY <2>0 DEF QueuedFds
  <2>2. Serving = {} /\ ~MainHolds
    BY ThreadAssumption DEF Init, Serving, MainHolds, Threads
  <2> QED BY <2>1, <2>2, SMTT(30) DEF Init, OwnedOnce
<1> QED BY <1>1, InvSpec, NextOwned, PTL DEF Spec
=============================================================================
