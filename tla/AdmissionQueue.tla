--------------------------- MODULE AdmissionQueue ---------------------------
(***************************************************************************)
(* What the jobs manager of hw3 server.c promises its clients, without     *)
(* threads, locks, counters or a ring.                                     *)
(*                                                                         *)
(*   - at most Size connections are pending or being served;               *)
(*   - connections are dispatched in the order in which they were admitted;*)
(*   - with policy BLOCK or DROP_TAIL an admitted connection is never shed;*)
(*   - with DROP_HEAD exactly the oldest pending connection is shed, and   *)
(*     only when the server is full;                                       *)
(*   - with DROP_RANDOM half of the pending connections, rounded up, are   *)
(*     shed, from the two ends of the line, when the server is full, and   *)
(*     no connection is dispatched or admitted while that goes on.         *)
(***************************************************************************)
EXTENDS Integers, Sequences, FiniteSets

CONSTANTS Workers, Fds, Size, Schedalgs, NoSession

VARIABLES policy,   \* the scheduling algorithm of this run
          pending,  \* admitted connections that no worker has taken, in order
          active,   \* the connection each worker is serving, or NoSession
          shedding  \* how many more connections the current burst sheds

avars == <<policy, pending, active, shedding>>

Busy == {w \in Workers : active[w] # NoSession}

Total == Len(pending) + Cardinality(Busy)

AInit ==
  /\ policy \in Schedalgs
  /\ pending = <<>>
  /\ active = [w \in Workers |-> NoSession]
  /\ shedding = 0

Admit(fd) ==
  /\ shedding = 0
  /\ Total < Size
  /\ pending' = Append(pending, fd)
  /\ UNCHANGED <<policy, active, shedding>>

Dispatch(w) ==
  /\ shedding = 0
  /\ active[w] = NoSession
  /\ pending # <<>>
  /\ active' = [active EXCEPT ![w] = Head(pending)]
  /\ pending' = Tail(pending)
  /\ UNCHANGED <<policy, shedding>>

Complete(w) ==
  /\ active[w] # NoSession
  /\ active' = [active EXCEPT ![w] = NoSession]
  /\ UNCHANGED <<policy, pending, shedding>>

ShedHead ==
  /\ policy = "DROP_HEAD"
  /\ pending # <<>>
  /\ Total = Size
  /\ pending' = Tail(pending)
  /\ UNCHANGED <<policy, active, shedding>>

\* Half of the pending connections, rounded up, are about to be shed.
BeginShed ==
  /\ policy = "DROP_RANDOM"
  /\ shedding = 0
  /\ pending # <<>>
  /\ Total = Size
  /\ shedding' = (Len(pending) + 1) \div 2
  /\ UNCHANGED <<policy, pending, active>>

ShedOne ==
  /\ shedding > 0
  /\ shedding' = shedding - 1
  /\ \/ pending' = Tail(pending)
     \/ pending' = SubSeq(pending, 1, Len(pending) - 1)
  /\ UNCHANGED <<policy, active>>

ANext ==
  \/ \E fd \in Fds : Admit(fd)
  \/ \E w \in Workers : Dispatch(w) \/ Complete(w)
  \/ ShedHead \/ BeginShed \/ ShedOne

ASpec == AInit /\ [][ANext]_avars
=============================================================================
