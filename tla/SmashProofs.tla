---------------------------- MODULE SmashProofs ----------------------------
(***************************************************************************)
(* Job control in the shell of hw1, for any number of children, any clock  *)
(* and any set of delays: the jobs list stays consistent under every       *)
(* interleaving of commands and signal handlers, with and without timeout, *)
(* no entry outlives its process, no child is lost, and the alarm handler  *)
(* ends no process early.                                                  *)
(***************************************************************************)
EXTENDS Smash, FiniteSetTheorems, WellFoundedInduction, TLAPS

-----------------------------------------------------------------------------
(* Numbers.                                                                *)

\* Every set of naturals that is not empty has a least element.
LEMMA LeastNatural ==
  ASSUME NEW S \in SUBSET Nat, S # {}
  PROVE  \E m \in S : \A k \in S : m <= k
<1>1. \E m \in S : \A y \in S : ~ (<<y, m>> \in OpToRel(<, Nat))
  BY NatLessThanWellFounded, WFMin, Zenon
<1>2. \A y, m \in Nat : y < m => <<y, m>> \in OpToRel(<, Nat)
  BY DEF OpToRel
<1>3. \E m \in S : \A y \in S : ~ (y < m)
  BY <1>1, <1>2, Zenon
<1> QED
  BY <1>3

\* What Max returns of a bounded set of naturals.
LEMMA MaxNat ==
  ASSUME NEW S \in SUBSET Nat, S # {}, NEW n \in Nat, \A i \in S : i <= n
  PROVE  Max(S) \in S /\ \A k \in S : k <= Max(S)
<1> DEFINE T == {m \in Nat : \A i \in S : i <= m}
<1>1. PICK m \in T : \A k \in T : m <= k
  <2>1. T \in SUBSET Nat /\ n \in T
    OBVIOUS
  <2> QED BY <2>1, LeastNatural, ZenonT(30)
<1>2. m \in S
  <2>1. SUFFICES ASSUME m \notin S PROVE FALSE
    OBVIOUS
  <2>2. \A i \in S : i <= m - 1
    BY <2>1
  <2>3. m - 1 \in Nat
    <3>1. PICK i \in S : TRUE
      BY ZenonT(30)
    <3> QED BY <3>1, <2>2
  <2> QED
    BY <2>2, <2>3, <1>1
<1>3. \E x \in S : \A y \in S : x >= y
  BY <1>2
<1> QED BY <1>3, ZenonT(30) DEF Max

\* Process ids are positive, and None is not one of them.
LEMMA PidsArePositive ==
  /\ \A p \in Pids : p \in Nat /\ p > 0 /\ p <= MaxPid
  /\ \A p \in Nat : p > 0 /\ p <= MaxPid => p \in Pids
  /\ None \notin Nat /\ None \notin Pids /\ None \in Int
BY SmashAssumption DEF Pids, None

\* fork returns the least process id that is not in use.
LEMMA NewPidIsLeast ==
  ASSUME NEW S \in SUBSET Pids, S # {}
  PROVE  Min(S) \in S /\ \A p \in S : Min(S) <= p
<1>1. S \in SUBSET Nat
  BY PidsArePositive
<1> QED BY <1>1, LeastNatural, ZenonT(30) DEF Min

-----------------------------------------------------------------------------
(* The inductive invariant.                                                *)

States == {"none", "running", "stopped", "suspended", "dying", "zombie", "reaped"}

Born(p) == proc[p] # "none"

\* There is a foreground job, and it is not yet back in the list.
Pending == wait_job_pid # None /\ pc # "clear"

TimedType == [pid: Pids \cup {None}, job_id: Int, delay: Nat, completion: Nat]

\* The types, with those of the variables TypeOK leaves out.
Types ==
  /\ jobs_list \in [DOMAIN jobs_list -> EntryType]
  /\ foreground_job \in [pid: Pids, job_id: Pids \cup {None}, stopped: BOOLEAN]
                          \cup {Entry(None, None, FALSE)}
  /\ wait_job_pid \in Pids \cup {None}
  /\ exit_shell \in BOOLEAN
  /\ pc \in {"prompt", "continue", "arm", "insert", "wait", "report", "clear", "gone"}
  /\ status \in {"exited", "stopped"}
  /\ proc \in [Pids -> States]
  /\ let_go \subseteq Pids

\* Process ids are handed out in order, and a job id is never larger than the
\* largest of them: the ids fg, bg and kill range over are all there are.
IdsBorn ==
  /\ \A p, q \in Pids : q < p /\ Born(p) => Born(q)
  /\ \A i \in DOMAIN jobs_list :
       i \in Pids /\ Born(i) /\ Born(jobs_list[i].pid) /\ jobs_list[i].job_id = i

\* No process is listed twice.
ListInjective ==
  \A i, j \in DOMAIN jobs_list : jobs_list[i].pid = jobs_list[j].pid => i = j

\* While the shell has a foreground job, its place in the list is free: the job
\* is not listed, and the id that addJob would give it belongs to no other job.
ForegroundApart ==
  /\ wait_job_pid # None =>
       pc \notin {"prompt", "gone"} /\ foreground_job.pid = wait_job_pid /\ Born(wait_job_pid)
  /\ pc \in {"continue", "report", "clear"} => wait_job_pid # None
  /\ pc \in {"report", "clear"} => proc[wait_job_pid] # "running"
  /\ Pending =>
       /\ \A i \in DOMAIN jobs_list : jobs_list[i].pid # wait_job_pid
       /\ IF foreground_job.job_id = None
          THEN \A i \in DOMAIN jobs_list : i < foreground_job.pid
          ELSE foreground_job.job_id \notin DOMAIN jobs_list /\ Born(foreground_job.job_id)

ListInv == Types /\ IdsBorn /\ ListInjective /\ ForegroundApart /\ StoppedMarkTrue

\* The timers: an entry of timeout_list carries the process it is to kill under
\* that process's own deadline, and a deadline is set once.
TimerInv ==
  /\ timeout_list \in [DOMAIN timeout_list -> [pid: Pids, job_id: Int]]
  /\ DOMAIN timeout_list \subseteq Nat
  /\ timed \in TimedType
  /\ now \in Nat
  /\ deadline \in [Pids -> Nat \cup {None}]
  /\ \A p \in Pids : proc[p] = "none" => deadline[p] = None
  /\ \A t \in DOMAIN timeout_list : deadline[timeout_list[t].pid] = t
  /\ pc = "arm" => timed.pid \in Pids /\ Born(timed.pid) /\ deadline[timed.pid] = None
  /\ pc = "insert" => timed.pid \in Pids /\ deadline[timed.pid] = timed.completion

\* TimedJobsListed, of a process in any state and with the one whose entry is
\* about to be made set apart.
DeadlinesKept ==
  \A p \in Pids :
    deadline[p] # None /\ deadline[p] > now =>
      \/ \E t \in DOMAIN timeout_list : timeout_list[t].pid = p
      \/ \E q \in Pids \ {p} : deadline[q] = deadline[p]
      \/ pc = "insert" /\ p = timed.pid

\* Without timeout only the shell reaps the foreground job, so what waitpid said
\* of it is still true when it is used.
WaitedFor ==
  /\ pc \in {"continue", "wait", "report"} /\ wait_job_pid # None /\ (pc = "report" => status = "stopped")
       => proc[wait_job_pid] # "reaped"
  /\ pc = "report" /\ status = "exited" => proc[wait_job_pid] = "reaped"
  /\ pc = "clear" => wait_job_pid \in ListedPids \/ proc[wait_job_pid] = "reaped"
  /\ pc \notin {"arm", "insert"}
  /\ exit_shell => pc \in {"wait", "gone"} /\ wait_job_pid = None

TInv == ListInv /\ TimerInv /\ DeadlinesKept
JInv == ListInv /\ WaitedFor /\ NoGhostJobs /\ EveryChildTracked

-----------------------------------------------------------------------------
(* The operations on the list.                                             *)

\* A function with no arguments is the empty one.
LEMMA EmptyFunction ==
  ASSUME NEW f, NEW S, f \in [DOMAIN f -> S], DOMAIN f = {}
  PROVE  f = << >>
OBVIOUS

WithEntry(jobs, k, job) == [i \in DOMAIN jobs \cup {k} |-> IF i = k THEN job ELSE jobs[i]]

\* addJob gives a job whose id is not in use an entry of its own and touches no
\* other; a job without an id gets one that is larger than all, and no larger
\* than the bound n on the ids.
LEMMA AddJob ==
  ASSUME NEW jobs, jobs \in [DOMAIN jobs -> EntryType], DOMAIN jobs \subseteq Pids,
         NEW job \in [pid: Pids, job_id: Pids \cup {None}, stopped: BOOLEAN],
         NEW n \in Pids,
         job.job_id = None => \A i \in DOMAIN jobs : i < n,
         job.job_id # None => job.job_id \notin DOMAIN jobs
  PROVE  \E k \in Pids \ DOMAIN jobs :
           /\ IF job.job_id = None THEN k <= n ELSE k = job.job_id
           /\ addJob(jobs, job) =
                WithEntry(jobs, k, [pid |-> job.pid, job_id |-> k, stopped |-> job.stopped])
<1> DEFINE k == IF job.job_id # None THEN job.job_id
                ELSE IF jobs = << >> THEN 1 ELSE Last(jobs) + 1
<1>1. /\ k \in Pids \ DOMAIN jobs
      /\ IF job.job_id = None THEN k <= n ELSE k = job.job_id
  <2>1. CASE job.job_id # None
    BY <2>1
  <2>2. CASE job.job_id = None /\ jobs = << >>
    <3>1. DOMAIN jobs = {}
      BY <2>2
    <3>2. k = 1
      BY <2>2
    <3>3. 1 <= n /\ n <= MaxPid
      BY PidsArePositive
    <3>4. 1 \in Pids
      BY <3>3, PidsArePositive, SmashAssumption
    <3> QED BY <3>1, <3>2, <3>3, <3>4, <2>2
  <2>3. CASE job.job_id = None /\ jobs # << >>
    <3>1. DOMAIN jobs \in SUBSET Nat /\ DOMAIN jobs # {} /\ n \in Nat
      <4>1. DOMAIN jobs # {}
        BY <2>3, EmptyFunction, ZenonT(30)
      <4> QED BY <4>1, PidsArePositive
    <3>2. \A i \in DOMAIN jobs : i <= n
      BY <2>3, <3>1
    <3>3. Last(jobs) \in DOMAIN jobs /\ \A i \in DOMAIN jobs : i <= Last(jobs)
      BY <3>1, <3>2, MaxNat DEF Last
    <3>4. k = Last(jobs) + 1
      BY <2>3
    <3> HIDE DEF k
    <3>5. Last(jobs) < n /\ Last(jobs) \in Nat
      BY <2>3, <3>1, <3>3
    <3>6. k \notin DOMAIN jobs /\ k <= n /\ k \in Nat /\ k > 0
      BY <3>1, <3>3, <3>4, <3>5
    <3> QED BY <2>3, <3>6, PidsArePositive, SmashAssumption, SMTT(30)
  <2> QED BY <2>1, <2>2, <2>3
<1>2. addJob(jobs, job) = [i \in DOMAIN jobs \cup {k} |->
                             IF i = k THEN [job EXCEPT !.job_id = i] ELSE jobs[i]]
  BY DEF addJob
<1> HIDE DEF k
<1>3. [job EXCEPT !.job_id = k] = [pid |-> job.pid, job_id |-> k, stopped |-> job.stopped]
  OBVIOUS
<1>4. addJob(jobs, job) =
        WithEntry(jobs, k, [pid |-> job.pid, job_id |-> k, stopped |-> job.stopped])
  BY <1>2, <1>3 DEF WithEntry
<1> QED BY <1>1, <1>4, SMTT(30)

\* removeFinishedJobs reaps the zombies of the list and no other process, and
\* drops exactly their entries.
LEMMA FinishedJobsRemoved ==
  ASSUME ListInv
  PROVE  /\ removeFinishedJobs \in [DOMAIN removeFinishedJobs -> EntryType]
         /\ DOMAIN removeFinishedJobs \subseteq DOMAIN jobs_list
         /\ \A i \in DOMAIN removeFinishedJobs :
              /\ removeFinishedJobs[i] = jobs_list[i]
              /\ proc[jobs_list[i].pid] # "zombie"
              /\ Reaped[jobs_list[i].pid] = proc[jobs_list[i].pid]
         /\ \A i \in DOMAIN jobs_list \ DOMAIN removeFinishedJobs :
              Reaped[jobs_list[i].pid] = "reaped"
         /\ Reaped \in [Pids -> States]
         /\ \A p \in Pids : Reaped[p] = proc[p] \/ (Reaped[p] = "reaped" /\ proc[p] = "zombie")
<1>1. /\ DOMAIN removeFinishedJobs = DOMAIN jobs_list \ Finished
      /\ \A i \in DOMAIN removeFinishedJobs : removeFinishedJobs[i] = jobs_list[i]
      /\ removeFinishedJobs \in [DOMAIN removeFinishedJobs -> EntryType]
  BY DEF removeFinishedJobs, removeJobs, Restrict, ListInv, Types
<1>2. \A i \in DOMAIN jobs_list : jobs_list[i].pid \in Pids
  BY DEF ListInv, Types, EntryType
<1>3. \A i \in DOMAIN jobs_list \ Finished : proc[jobs_list[i].pid] # "zombie"
  BY DEF Finished
<1>4. \A i \in Finished : proc[jobs_list[i].pid] = "zombie" /\ i \in DOMAIN jobs_list
  BY DEF Finished
<1>5. \A p \in Pids : Reaped[p] = IF \E i \in Finished : jobs_list[i].pid = p
                                   THEN "reaped" ELSE proc[p]
  BY DEF Reaped
<1>6. Reaped \in [Pids -> States]
  BY DEF Reaped, States, ListInv, Types
<1>7. \A i \in DOMAIN jobs_list \ Finished : Reaped[jobs_list[i].pid] = proc[jobs_list[i].pid]
  BY <1>2, <1>3, <1>4, <1>5, SMTT(30)
<1>8. \A i \in Finished : Reaped[jobs_list[i].pid] = "reaped"
  BY <1>2, <1>4, <1>5
<1>9. \A p \in Pids : Reaped[p] = proc[p] \/ (Reaped[p] = "reaped" /\ proc[p] = "zombie")
  BY <1>4, <1>5
<1> QED BY <1>1, <1>3, <1>6, <1>7, <1>8, <1>9, SMTT(30)

-----------------------------------------------------------------------------
(* The list under one step.                                                *)

\* A listed process has been started.
LEMMA ListedAreBorn ==
  ASSUME ListInv
  PROVE  \A i \in DOMAIN jobs_list : jobs_list[i].pid \in Pids /\ proc[jobs_list[i].pid] # "none"
BY DEF ListInv, IdsBorn, Born, Types, EntryType

\* A step that adds no entry, starts no process, does not touch the foreground
\* job and keeps the marks true keeps the list consistent.
LEMMA Kept ==
  ASSUME ListInv, Types', StoppedMarkTrue',
         DOMAIN jobs_list' \subseteq DOMAIN jobs_list,
         \A i \in DOMAIN jobs_list' : /\ jobs_list'[i].pid = jobs_list[i].pid
                                     /\ jobs_list'[i].job_id = jobs_list[i].job_id,
         \A p \in Pids : proc'[p] = "none" <=> proc[p] = "none",
         UNCHANGED <<foreground_job, wait_job_pid>>,
         wait_job_pid # None => pc' \notin {"prompt", "gone"} /\ (pc' = "clear" <=> pc = "clear"),
         pc' \in {"continue", "report", "clear"} => wait_job_pid # None,
         pc' \in {"report", "clear"} => proc'[wait_job_pid] # "running"
  PROVE  ListInv'
<1>1. IdsBorn'
  BY DEF ListInv, IdsBorn, Born, Types, EntryType
<1>2. ListInjective'
  BY DEF ListInv, ListInjective
<1>3. /\ wait_job_pid # None => wait_job_pid \in Pids
      /\ foreground_job.job_id # None => foreground_job.job_id \in Pids
  BY SMTT(30) DEF ListInv, Types, Entry
<1>4. ForegroundApart'
  <2>1. Pending' => Pending
    BY DEF Pending
  <2> QED BY <1>3, <2>1 DEF ListInv, ForegroundApart, Born
<1> QED BY <1>1, <1>2, <1>4, SMTT(30) DEF ListInv

\* What a signal does to the state of a process.
LEMMA SignalFacts ==
  ASSUME NEW state \in States, NEW sig
  PROVE  /\ Signalled(sig, state) \in States
         /\ Signalled(sig, state) = "none" <=> state = "none"
         /\ Signalled(sig, state) = "reaped" <=> state = "reaped"
         /\ Signalled(sig, state) = "zombie" <=> state = "zombie"
         /\ sig # "SIGCONT" /\ state # "running" => Signalled(sig, state) # "running"
         /\ sig = "SIGSTOP" => Signalled(sig, state) # "running"
         /\ sig = "SIGSTOP" /\ state # "running" => Signalled(sig, state) = state
         /\ sig = "SIGCONT" => Signalled(sig, state) # "stopped"
         /\ sig = "SIGKILL" => Signalled(sig, state) \notin {"running", "stopped"}
         /\ sig # "SIGSTOP" /\ state # "stopped" => Signalled(sig, state) # "stopped"
         /\ sig \notin {"SIGSTOP", "SIGTSTP", "SIGCONT", "SIGKILL"} => Signalled(sig, state) = state
         /\ Signalled(sig, state) # state => state \in {"running", "stopped", "suspended"}
BY DEF Signalled, States

\* JobsCommand and SetcoreCommand only reap.
LEMMA JobsList ==
  ASSUME ListInv, JobsCommand
  PROVE  ListInv'
<1> USE DEF JobsCommand, AtPrompt, timers
<1>1. Types'
  BY FinishedJobsRemoved, ZenonT(30) DEF ListInv, Types
<1>2. StoppedMarkTrue'
  BY FinishedJobsRemoved DEF ListInv, StoppedMarkTrue
<1>3. /\ DOMAIN jobs_list' \subseteq DOMAIN jobs_list
      /\ \A i \in DOMAIN jobs_list' : jobs_list'[i] = jobs_list[i]
      /\ \A p \in Pids : proc'[p] = "none" <=> proc[p] = "none"
  BY FinishedJobsRemoved, SMTT(30)
<1>4. wait_job_pid = None
  BY DEF ListInv, ForegroundApart
<1> QED BY <1>1, <1>2, <1>3, <1>4, Kept, SMTT(30)

\* QuitCommand reaps, and with kill ends every job.
LEMMA QuitList ==
  ASSUME ListInv, NEW kill_jobs \in BOOLEAN, QuitCommand(kill_jobs)
  PROVE  ListInv'
<1> USE DEF QuitCommand, AtPrompt, timers
<1> DEFINE killed == killAllJobs(removeFinishedJobs)
<1>1. /\ killed \in [Pids -> States]
      /\ \A p \in Pids : killed[p] = Reaped[p] \/ killed[p] = "reaped"
      /\ \A p \in Pids : killed[p] # Reaped[p] => \E i \in DOMAIN jobs_list : jobs_list[i].pid = p
  BY FinishedJobsRemoved DEF killAllJobs, States
<1>2. \A i \in DOMAIN jobs_list : proc[jobs_list[i].pid] # "none" /\ jobs_list[i].pid \in Pids
  BY ListedAreBorn
<1> HIDE DEF killed
<1>3. proc' = killed \/ proc' = Reaped
  BY DEF killed
<1>4. Types'
  BY <1>1, <1>3, FinishedJobsRemoved, ZenonT(30) DEF ListInv, Types
<1>5. StoppedMarkTrue'
  BY <1>1, <1>2, <1>3, FinishedJobsRemoved, SMTT(30) DEF ListInv, StoppedMarkTrue
<1>6. /\ DOMAIN jobs_list' \subseteq DOMAIN jobs_list
      /\ \A i \in DOMAIN jobs_list' : jobs_list'[i] = jobs_list[i]
      /\ \A p \in Pids : proc'[p] = "none" <=> proc[p] = "none"
  BY <1>1, <1>2, <1>3, FinishedJobsRemoved, SMTT(30)
<1>7. wait_job_pid = None
  BY DEF ListInv, ForegroundApart
<1> QED BY <1>4, <1>5, <1>6, <1>7, Kept, SMTT(30)

\* An entry whose mark is set anew keeps its process and its id.
LEMMA MarkedEntry ==
  ASSUME NEW jobs, jobs \in [DOMAIN jobs -> EntryType], NEW id \in DOMAIN jobs,
         NEW mark \in BOOLEAN
  PROVE  LET marked == [jobs EXCEPT ![id].stopped = mark]
         IN  /\ DOMAIN marked = DOMAIN jobs
             /\ marked \in [DOMAIN marked -> EntryType]
             /\ \A i \in DOMAIN jobs :
                  marked[i].pid = jobs[i].pid /\ marked[i].job_id = jobs[i].job_id
             /\ marked[id].stopped = mark
             /\ \A i \in DOMAIN jobs \ {id} : marked[i] = jobs[i]
BY DEF EntryType

\* What kill does to the list and to the process: the mark of the job follows
\* the signal, or the entry goes.
LEMMA KillList ==
  ASSUME ListInv, NEW sig \in {"SIGSTOP", "SIGTSTP", "SIGCONT", "SIGKILL", "other"}, NEW id \in Ids,
         KillCommand(sig, id)
  PROVE  ListInv'
<1> DEFINE jobs == removeFinishedJobs
           pid == jobs[id].pid
           X == proc'[pid]
<1>1. /\ AtPrompt /\ id \in DOMAIN jobs
      /\ pc' = "wait" /\ let_go' \in {let_go, let_go \cup {pid}}
      /\ UNCHANGED <<foreground_job, wait_job_pid, exit_shell, status>>
  BY DEF KillCommand, timers
<1>2. jobs_list' = CASE sig = "SIGSTOP" -> [jobs EXCEPT ![id].stopped = TRUE]
                     [] sig = "SIGCONT" -> [jobs EXCEPT ![id].stopped = FALSE]
                     [] sig = "SIGKILL" -> removeJobs(jobs, {id})
                     [] OTHER -> jobs
  BY DEF KillCommand
<1>3. \/ proc' = [Reaped EXCEPT ![pid] = Signalled(sig, @)]
      \/ sig = "SIGKILL" /\ proc' = [Reaped EXCEPT ![pid] = "reaped"]
  BY DEF KillCommand
<1>4. /\ jobs \in [DOMAIN jobs -> EntryType] /\ DOMAIN jobs \subseteq DOMAIN jobs_list
      /\ Reaped \in [Pids -> States] /\ pid \in Pids
      /\ \A i \in DOMAIN jobs : jobs[i] = jobs_list[i] /\ jobs[i].pid \in Pids
                               /\ Reaped[jobs[i].pid] = proc[jobs[i].pid]
      /\ \A p \in Pids : Reaped[p] = "none" <=> proc[p] = "none"
      /\ proc[pid] # "none"
  BY <1>1, FinishedJobsRemoved, ListedAreBorn, SMTT(30)
<1> HIDE DEF jobs
<1>5. /\ proc' \in [Pids -> States]
      /\ \A p \in Pids \ {pid} : proc'[p] = Reaped[p]
      /\ X = Signalled(sig, proc[pid]) \/ (sig = "SIGKILL" /\ X = "reaped")
  <2>1. Signalled(sig, Reaped[pid]) \in States /\ "reaped" \in States
    BY <1>4, SignalFacts, SMTT(30) DEF States
  <2> QED BY <2>1, <1>1, <1>3, <1>4, SMTT(30)
<1>6. X # "none" /\ proc[pid] \in States
  BY <1>4, <1>5, SignalFacts, SMTT(30) DEF ListInv, Types
<1>7. /\ jobs_list' \in [DOMAIN jobs_list' -> EntryType]
      /\ DOMAIN jobs_list' \subseteq DOMAIN jobs
      /\ sig = "SIGKILL" => id \notin DOMAIN jobs_list'
      /\ \A i \in DOMAIN jobs_list' :
           /\ jobs_list'[i].pid = jobs[i].pid
           /\ jobs_list'[i].job_id = jobs[i].job_id
           /\ i # id \/ sig \in {"SIGTSTP", "other"} => jobs_list'[i] = jobs[i]
      /\ sig = "SIGSTOP" => jobs_list'[id].stopped
      /\ sig = "SIGCONT" => ~jobs_list'[id].stopped
  <2>1. CASE sig = "SIGSTOP"
    <3>1. jobs_list' = [jobs EXCEPT ![id].stopped = TRUE]
      BY <2>1, <1>2
    <3>2. /\ DOMAIN jobs_list' = DOMAIN jobs
          /\ jobs_list' \in [DOMAIN jobs_list' -> EntryType]
          /\ \A i \in DOMAIN jobs : jobs_list'[i].pid = jobs[i].pid
          /\ \A i \in DOMAIN jobs : jobs_list'[i].job_id = jobs[i].job_id
          /\ \A i \in DOMAIN jobs \ {id} : jobs_list'[i] = jobs[i]
      BY <3>1, <1>1, <1>4, MarkedEntry, ZenonT(30)
    <3>3. jobs_list'[id].stopped = TRUE
      BY <3>1, <1>1, <1>4, MarkedEntry, ZenonT(30)
    <3> QED BY <2>1, <3>2, <3>3, SMTT(30)
  <2>2. CASE sig = "SIGCONT"
    <3>1. jobs_list' = [jobs EXCEPT ![id].stopped = FALSE]
      BY <2>2, <1>2
    <3>2. /\ DOMAIN jobs_list' = DOMAIN jobs
          /\ jobs_list' \in [DOMAIN jobs_list' -> EntryType]
          /\ \A i \in DOMAIN jobs : jobs_list'[i].pid = jobs[i].pid
          /\ \A i \in DOMAIN jobs : jobs_list'[i].job_id = jobs[i].job_id
          /\ \A i \in DOMAIN jobs \ {id} : jobs_list'[i] = jobs[i]
      BY <3>1, <1>1, <1>4, MarkedEntry, ZenonT(30)
    <3>3. jobs_list'[id].stopped = FALSE
      BY <3>1, <1>1, <1>4, MarkedEntry, ZenonT(30)
    <3> QED BY <2>2, <3>2, <3>3
  <2>3. CASE sig = "SIGKILL"
    BY <2>3, <1>1, <1>2, <1>4 DEF removeJobs, Restrict
  <2>4. CASE sig \in {"SIGTSTP", "other"}
    BY <2>4, <1>1, <1>2, <1>4
  <2> QED BY <2>1, <2>2, <2>3, <2>4, SMTT(30)
<1>8. Types'
  BY <1>1, <1>4, <1>5, <1>7, ZenonT(30) DEF ListInv, Types
<1>9. StoppedMarkTrue'
  <2> SUFFICES ASSUME NEW i \in DOMAIN jobs_list'
               PROVE  /\ jobs_list'[i].stopped => proc'[jobs_list'[i].pid] # "running"
                      /\ proc'[jobs_list'[i].pid] = "stopped" => jobs_list'[i].stopped
    BY SMTT(30) DEF StoppedMarkTrue
  <2>1. /\ i \in DOMAIN jobs_list /\ id \in DOMAIN jobs_list
        /\ jobs_list'[i].pid = jobs_list[i].pid /\ pid = jobs_list[id].pid
        /\ jobs_list[i].stopped => proc[jobs_list[i].pid] # "running"
        /\ proc[jobs_list[i].pid] = "stopped" => jobs_list[i].stopped
    BY <1>1, <1>4, <1>7, SMTT(30) DEF ListInv, StoppedMarkTrue
  <2>2. CASE i # id
    <3>1. jobs_list'[i].pid # pid
      BY <2>1, <2>2, SMTT(30) DEF ListInv, ListInjective
    <3> QED BY <3>1, <2>1, <2>2, <1>4, <1>5, <1>7, SMTT(30)
  <2>3. CASE i = id
    <3>1. /\ sig # "SIGKILL"
          /\ X = Signalled(sig, proc[pid])
          /\ sig = "SIGSTOP" => X # "running"
          /\ sig = "SIGCONT" => X # "stopped"
          /\ sig = "other" => X = proc[pid]
          /\ sig = "SIGTSTP" => /\ X = "running" => proc[pid] = "running"
                                /\ X = "stopped" => proc[pid] = "stopped"
      BY <2>3, <1>5, <1>6, <1>7, SignalFacts, SMTT(30)
    <3> QED BY <3>1, <2>1, <2>3, <1>4, <1>7, SMTT(30)
  <2> QED BY <2>2, <2>3
<1>10. /\ DOMAIN jobs_list' \subseteq DOMAIN jobs_list
       /\ \A i \in DOMAIN jobs_list' : /\ jobs_list'[i].pid = jobs_list[i].pid
                                       /\ jobs_list'[i].job_id = jobs_list[i].job_id
       /\ \A p \in Pids : proc'[p] = "none" <=> proc[p] = "none"
  BY <1>4, <1>5, <1>6, <1>7, SMTT(30)
<1>11. wait_job_pid = None
  BY <1>1, SMTT(30) DEF ListInv, ForegroundApart, AtPrompt
<1> QED BY <1>1, <1>8, <1>9, <1>10, <1>11, Kept, SMTT(30)

\* bg clears the mark of the job it continues.
LEMMA BackgroundList ==
  ASSUME ListInv, NEW arg \in Ids \cup {None}, BackgroundCommand(arg)
  PROVE  ListInv'
<1> DEFINE jobs == removeFinishedJobs
           id == IF arg = None /\ StoppedJobs(jobs) # {} THEN getLastStoppedJob(jobs) ELSE arg
           pid == jobs[id].pid
           X == proc'[pid]
<1>1. /\ AtPrompt /\ id \in DOMAIN jobs /\ pc' = "wait"
      /\ UNCHANGED <<foreground_job, wait_job_pid, exit_shell, status, let_go>>
  BY ZenonT(30) DEF BackgroundCommand, timers, StoppedJobs
<1>2. /\ jobs_list' = [jobs EXCEPT ![id].stopped = FALSE]
      /\ proc' = [Reaped EXCEPT ![pid] = Signalled("SIGCONT", @)]
  BY SMTT(30) DEF BackgroundCommand
<1>3. /\ jobs \in [DOMAIN jobs -> EntryType] /\ DOMAIN jobs \subseteq DOMAIN jobs_list
      /\ Reaped \in [Pids -> States] /\ pid \in Pids
      /\ \A i \in DOMAIN jobs : jobs[i] = jobs_list[i] /\ jobs[i].pid \in Pids
                               /\ Reaped[jobs[i].pid] = proc[jobs[i].pid]
      /\ \A p \in Pids : Reaped[p] = "none" <=> proc[p] = "none"
      /\ proc[pid] # "none" /\ proc[pid] \in States
  <2>1. \A p \in Pids : proc[p] \in States
    BY DEF ListInv, Types
  <2> HIDE DEF id
  <2> QED BY <1>1, <2>1, FinishedJobsRemoved, ListedAreBorn, SMTT(30)
<1> HIDE DEF jobs, id
<1>4. /\ DOMAIN jobs_list' = DOMAIN jobs
      /\ jobs_list' \in [DOMAIN jobs_list' -> EntryType]
      /\ \A i \in DOMAIN jobs : jobs_list'[i].pid = jobs[i].pid
      /\ \A i \in DOMAIN jobs : jobs_list'[i].job_id = jobs[i].job_id
      /\ \A i \in DOMAIN jobs \ {id} : jobs_list'[i] = jobs[i]
  BY <1>1, <1>2, <1>3, MarkedEntry, ZenonT(30)
<1>5. jobs_list'[id].stopped = FALSE
  BY <1>1, <1>2, <1>3, MarkedEntry, ZenonT(30)
<1>6. /\ proc' \in [Pids -> States]
      /\ \A p \in Pids \ {pid} : proc'[p] = Reaped[p]
      /\ X = Signalled("SIGCONT", proc[pid])
      /\ X # "none" /\ X # "stopped"
  <2>1. /\ Signalled("SIGCONT", proc[pid]) \in States
        /\ Signalled("SIGCONT", proc[pid]) \notin {"none", "stopped"}
        /\ Reaped[pid] = proc[pid]
    BY <1>1, <1>3, SignalFacts, SMTT(30)
  <2> QED BY <2>1, <1>2, <1>3, SMTT(30)
<1>7. Types'
  BY <1>1, <1>4, <1>6, ZenonT(30) DEF ListInv, Types
<1>8. StoppedMarkTrue'
  <2> SUFFICES ASSUME NEW i \in DOMAIN jobs_list'
               PROVE  /\ jobs_list'[i].stopped => proc'[jobs_list'[i].pid] # "running"
                      /\ proc'[jobs_list'[i].pid] = "stopped" => jobs_list'[i].stopped
    BY SMTT(30) DEF StoppedMarkTrue
  <2>1. /\ i \in DOMAIN jobs_list /\ id \in DOMAIN jobs_list
        /\ jobs_list'[i].pid = jobs_list[i].pid /\ pid = jobs_list[id].pid
        /\ jobs_list[i].stopped => proc[jobs_list[i].pid] # "running"
        /\ proc[jobs_list[i].pid] = "stopped" => jobs_list[i].stopped
    BY <1>1, <1>3, <1>4, SMTT(30) DEF ListInv, StoppedMarkTrue
  <2>2. CASE i # id
    <3>1. jobs_list'[i].pid # pid
      BY <2>1, <2>2, SMTT(30) DEF ListInv, ListInjective
    <3> QED BY <3>1, <2>1, <2>2, <1>3, <1>4, <1>6, SMTT(30)
  <2>3. CASE i = id
    BY <2>1, <2>3, <1>5, <1>6, SMTT(30)
  <2> QED BY <2>2, <2>3, SMTT(30)
<1>9. /\ DOMAIN jobs_list' \subseteq DOMAIN jobs_list
      /\ \A i \in DOMAIN jobs_list' : /\ jobs_list'[i].pid = jobs_list[i].pid
                                      /\ jobs_list'[i].job_id = jobs_list[i].job_id
      /\ \A p \in Pids : proc'[p] = "none" <=> proc[p] = "none"
  BY <1>3, <1>4, <1>6, SMTT(30)
<1>10. wait_job_pid = None
  BY <1>1, SMTT(30) DEF ListInv, ForegroundApart, AtPrompt
<1> QED BY <1>1, <1>7, <1>8, <1>9, <1>10, Kept, SMTT(30)

\* The foreground job as the handlers and waitForJob know it.
LEMMA ForegroundJob ==
  ASSUME ListInv, wait_job_pid # None
  PROVE  /\ wait_job_pid \in Pids /\ foreground_job.pid = wait_job_pid
         /\ proc[wait_job_pid] \in States /\ proc[wait_job_pid] # "none"
         /\ pc \notin {"prompt", "gone"}
         /\ \A i \in DOMAIN jobs_list :
              jobs_list[i].pid = wait_job_pid => pc = "clear" /\ proc[wait_job_pid] # "running"
BY SMTT(30) DEF ListInv, Types, ForegroundApart, Pending, Born

\* A step that changes the state of one process p alone: a listed process must
\* not start or stop running by it.
LEMMA OneProcess ==
  ASSUME ListInv, NEW p \in Pids, NEW X \in States, proc' = [proc EXCEPT ![p] = X],
         UNCHANGED <<jobs_list, foreground_job, wait_job_pid, exit_shell, let_go>>,
         status' \in {"exited", "stopped"},
         X = "none" <=> proc[p] = "none",
         (\E i \in DOMAIN jobs_list : jobs_list[i].pid = p) =>
           /\ X = "running" => proc[p] = "running"
           /\ X = "stopped" => proc[p] = "stopped",
         pc' \in {"wait", "report", pc} ,
         pc' # pc => pc \in {"continue", "wait"} /\ (pc' = "report" => wait_job_pid # None),
         pc' \in {"report", "clear"} => proc'[wait_job_pid] # "running"
  PROVE  ListInv'
<1>1. /\ \A q \in Pids : proc'[q] = IF q = p THEN X ELSE proc[q]
      /\ proc' \in [Pids -> States]
  BY DEF ListInv, Types
<1>2. Types'
  BY <1>1, ZenonT(30) DEF ListInv, Types
<1>3. StoppedMarkTrue'
  BY <1>1, ListedAreBorn, SMTT(30) DEF ListInv, StoppedMarkTrue
<1>4. \A q \in Pids : proc'[q] = "none" <=> proc[q] = "none"
  BY <1>1, SMTT(30)
<1>5. /\ wait_job_pid # None => pc' \notin {"prompt", "gone"} /\ (pc' = "clear" <=> pc = "clear")
      /\ pc' \in {"continue", "report", "clear"} => wait_job_pid # None
  BY DEF ListInv, ForegroundApart
<1> QED BY <1>2, <1>3, <1>4, <1>5, Kept, SMTT(30)

\* A child that ends by itself or by a signal.
LEMMA ExitsList ==
  ASSUME ListInv, NEW p \in Pids, Exits(p)
  PROVE  ListInv'
<1>1. /\ proc[p] # "none" /\ proc' = [proc EXCEPT ![p] = "zombie"]
      /\ UNCHANGED <<jobs_list, foreground_job, wait_job_pid, exit_shell, let_go, status, pc>>
  BY DEF Exits, shell
<1>2. /\ "zombie" \in States
      /\ \A q \in Pids : proc'[q] # "running" \/ proc[q] = "running"
      /\ status' \in {"exited", "stopped"}
  BY <1>1, SMTT(30) DEF States, ListInv, Types
<1>3. pc' \in {"report", "clear"} => proc'[wait_job_pid] # "running"
  BY <1>1, <1>2, ForegroundJob, SMTT(30) DEF ListInv, ForegroundApart
<1> QED BY <1>1, <1>2, <1>3, OneProcess, ZenonT(30)

\* ctrl-Z stops the foreground job, never one that is back in the list and runs.
LEMMA CtrlZList ==
  ASSUME ListInv, ctrlZHandler
  PROVE  ListInv'
<1> DEFINE X == Signalled("SIGSTOP", proc[wait_job_pid])
<1>1. /\ wait_job_pid # None /\ proc' = [proc EXCEPT ![wait_job_pid] = X]
      /\ UNCHANGED <<jobs_list, foreground_job, wait_job_pid, exit_shell, let_go, status, pc>>
  BY SMTT(30) DEF ctrlZHandler, shell, kill
<1>2. /\ X \in States /\ X # "running"
      /\ X = "none" <=> proc[wait_job_pid] = "none"
      /\ proc[wait_job_pid] # "running" => X = proc[wait_job_pid]
  BY <1>1, ForegroundJob, SignalFacts, SMTT(30)
<1> HIDE DEF X
<1>3. proc'[wait_job_pid] = X
  BY <1>1, ForegroundJob, SMTT(30) DEF ListInv, Types
<1>4. status' \in {"exited", "stopped"}
  BY <1>1 DEF ListInv, Types
<1> QED BY <1>1, <1>2, <1>3, <1>4, ForegroundJob, OneProcess, ZenonT(30)

\* ctrl-C sends it SIGKILL.
LEMMA CtrlCList ==
  ASSUME ListInv, ctrlCHandler
  PROVE  ListInv'
<1> DEFINE X == Signalled("SIGKILL", proc[wait_job_pid])
<1>1. /\ wait_job_pid # None /\ proc' = [proc EXCEPT ![wait_job_pid] = X]
      /\ UNCHANGED <<jobs_list, foreground_job, wait_job_pid, exit_shell, let_go, status, pc>>
  BY SMTT(30) DEF ctrlCHandler, shell, kill
<1>2. /\ X \in States /\ X # "running" /\ X # "stopped"
      /\ X = "none" <=> proc[wait_job_pid] = "none"
  BY <1>1, ForegroundJob, SignalFacts, SMTT(30)
<1> HIDE DEF X
<1>3. proc'[wait_job_pid] = X
  BY <1>1, ForegroundJob DEF ListInv, Types
<1>4. status' \in {"exited", "stopped"}
  BY <1>1 DEF ListInv, Types
<1> QED BY <1>1, <1>2, <1>3, <1>4, ForegroundJob, OneProcess, ZenonT(30)

\* fg continues the job it took from the list.
LEMMA ContinueList ==
  ASSUME ListInv, fg_continue
  PROVE  ListInv'
<1> DEFINE X == Signalled("SIGCONT", proc[wait_job_pid])
<1>1. wait_job_pid # None /\ pc = "continue"
  BY DEF fg_continue, ListInv, ForegroundApart
<1>2. /\ proc' = [proc EXCEPT ![wait_job_pid] = X] /\ pc' = "wait"
      /\ UNCHANGED <<jobs_list, foreground_job, wait_job_pid, exit_shell, let_go, status>>
  BY <1>1, ForegroundJob, ZenonT(30) DEF fg_continue, shell, kill
<1>3. /\ X \in States
      /\ X = "none" <=> proc[wait_job_pid] = "none"
  BY <1>1, ForegroundJob, SignalFacts, SMTT(30)
<1> HIDE DEF X
<1>4. status' \in {"exited", "stopped"}
  BY <1>2 DEF ListInv, Types
<1> QED BY <1>1, <1>2, <1>3, <1>4, ForegroundJob, OneProcess, ZenonT(30)

\* waitpid reports a child that has ended or is stopped.
LEMMA WaitChildList ==
  ASSUME ListInv, wait_child
  PROVE  ListInv'
<1>1. /\ pc = "wait" /\ pc' = "report" /\ wait_job_pid # None
      /\ UNCHANGED <<jobs_list, foreground_job, wait_job_pid, exit_shell, let_go>>
      /\ status' \in {"exited", "stopped"}
  BY DEF wait_child, shell
<1>2. PICK X \in States : /\ proc' = [proc EXCEPT ![wait_job_pid] = X]
                          /\ X \in {"stopped", "suspended", "reaped"} /\ proc[wait_job_pid] # "running"
  <2>1. CASE proc[wait_job_pid] = "zombie" /\ proc' = [proc EXCEPT ![wait_job_pid] = "reaped"]
    BY <2>1 DEF States
  <2>2. CASE proc[wait_job_pid] \in {"stopped", "suspended", "reaped"} /\ UNCHANGED proc
    <3>1. proc' = [proc EXCEPT ![wait_job_pid] = proc[wait_job_pid]]
      BY <2>2 DEF ListInv, Types
    <3> QED BY <2>2, <3>1, ZenonT(30) DEF States
  <2> QED BY <2>1, <2>2, SMTT(30) DEF wait_child
<1>3. proc'[wait_job_pid] = X /\ X # "none" /\ proc[wait_job_pid] # "none"
  BY <1>1, <1>2, ForegroundJob, ZenonT(30) DEF ListInv, Types
<1> QED BY <1>1, <1>2, <1>3, ForegroundJob, OneProcess, ZenonT(30)

\* The steps of waitForJob that touch neither the list nor a process.
LEMMA WaitEndsList ==
  ASSUME ListInv, wait_nothing \/ wait_clear \/ UNCHANGED vars
  PROVE  ListInv'
<1>1. CASE wait_nothing
  BY <1>1, ZenonT(30) DEF wait_nothing, NextPrompt, shell, ListInv, Types, IdsBorn, Born, ListInjective,
              ForegroundApart, Pending, StoppedMarkTrue
<1>2. CASE wait_clear
  BY <1>2, ZenonT(30) DEF wait_clear, NextPrompt, ListInv, Types, IdsBorn, Born, ListInjective,
              ForegroundApart, Pending, StoppedMarkTrue
<1>3. CASE UNCHANGED vars
  BY <1>3, ZenonT(30) DEF vars, shell, ListInv, Types, IdsBorn, Born, ListInjective,
              ForegroundApart, Pending, StoppedMarkTrue
<1> QED BY <1>1, <1>2, <1>3, SMTT(30)

\* A new process comes after all that have been started, and after all job ids.
LEMMA Fork ==
  ASSUME ListInv, NEW S, S = Unborn, S # {}
  PROVE  /\ Min(S) \in Pids /\ Min(S) \in Nat /\ proc[Min(S)] = "none"
         /\ \A q \in Pids : Born(q) <=> q < Min(S)
         /\ \A i \in DOMAIN jobs_list : i < Min(S) /\ jobs_list[i].pid # Min(S)
<1>1. S \in SUBSET Pids /\ \A p \in Pids : p \in S <=> ~Born(p)
  BY DEF Unborn, Born
<1>2. Min(S) \in S /\ \A p \in S : Min(S) <= p
  BY <1>1, NewPidIsLeast
<1>3. /\ Min(S) \in Pids /\ Min(S) \in Nat /\ ~Born(Min(S))
      /\ \A p \in Pids : p \in Nat
  BY <1>1, <1>2, PidsArePositive
<1>4. \A q \in Pids : Born(q) <=> q < Min(S)
  <2>1. \A q \in Pids : Min(S) < q /\ Born(q) => Born(Min(S))
    BY <1>3, SMTT(30) DEF ListInv, IdsBorn
  <2> QED BY <1>1, <1>2, <1>3, <2>1, SMTT(30)
<1>5. \A i \in DOMAIN jobs_list : i < Min(S) /\ jobs_list[i].pid # Min(S)
  BY <1>3, <1>4 DEF ListInv, IdsBorn
<1> QED BY <1>3, <1>4, <1>5, ZenonT(30) DEF Born

\* A list with one entry more: what addJob must be given for the list to stay
\* consistent.
LEMMA Added ==
  ASSUME ListInv, proc' \in [Pids -> States],
         NEW k \in Pids \ DOMAIN jobs_list, NEW p \in Pids, NEW b \in BOOLEAN,
         jobs_list' = WithEntry(jobs_list, k, [pid |-> p, job_id |-> k, stopped |-> b]),
         \A i \in DOMAIN jobs_list : jobs_list[i].pid # p,
         \A q \in Pids \ {p} : proc'[q] = proc[q],
         Born(p)', Born(k)',
         \A q, r \in Pids : r < q /\ Born(q)' => Born(r)',
         b => proc'[p] # "running", proc'[p] = "stopped" => b
  PROVE  /\ jobs_list' \in [DOMAIN jobs_list' -> EntryType]
         /\ IdsBorn' /\ ListInjective' /\ StoppedMarkTrue'
         /\ DOMAIN jobs_list' = DOMAIN jobs_list \cup {k}
<1>1. /\ DOMAIN jobs_list' = DOMAIN jobs_list \cup {k}
      /\ jobs_list'[k] = [pid |-> p, job_id |-> k, stopped |-> b]
      /\ \A i \in DOMAIN jobs_list : jobs_list'[i] = jobs_list[i]
  BY ZenonT(30) DEF WithEntry
<1>2. k \in Nat
  BY PidsArePositive, ZenonT(30)
<1>3. [pid |-> p, job_id |-> k, stopped |-> b] \in EntryType
  BY <1>2, SMTT(30) DEF EntryType
<1>4. jobs_list' \in [DOMAIN jobs_list' -> EntryType]
  <2>1. \A i \in DOMAIN jobs_list' : jobs_list'[i] \in EntryType
    BY <1>1, <1>3, ZenonT(30) DEF ListInv, Types
  <2> QED BY <1>1, <2>1, ZenonT(30) DEF WithEntry
<1>5. jobs_list'[k].pid = p /\ jobs_list'[k].job_id = k /\ jobs_list'[k].stopped = b
  BY <1>1, SMTT(30)
<1>6. IdsBorn'
  <2>1. \A q \in Pids : Born(q) => Born(q)'
    BY ZenonT(30) DEF Born
  <2>2. \A i \in DOMAIN jobs_list' :
          i \in Pids /\ Born(i)' /\ Born(jobs_list[i].pid)' /\ jobs_list'[i].job_id = i
    BY <1>1, <1>5, <2>1, ListedAreBorn, ZenonT(90) DEF ListInv, IdsBorn, Born
  <2> QED BY <2>2, ZenonT(30) DEF IdsBorn, Born
<1>7. ListInjective'
  BY <1>1, <1>5, SMTT(30) DEF ListInv, ListInjective
<1>8. StoppedMarkTrue'
  BY <1>1, <1>5, ListedAreBorn, SMTT(30) DEF ListInv, StoppedMarkTrue
<1> QED BY <1>1, <1>4, <1>6, <1>7, <1>8, ZenonT(30)

\* The list after a process was started that is not in it.
LEMMA Unlisted ==
  ASSUME ListInv, UNCHANGED jobs_list, proc' \in [Pids -> States],
         \A q \in Pids : Born(q) => proc'[q] = proc[q],
         \A q, r \in Pids : r < q /\ Born(q)' => Born(r)'
  PROVE  IdsBorn' /\ ListInjective' /\ StoppedMarkTrue'
<1>1. \A i \in DOMAIN jobs_list : proc'[jobs_list[i].pid] = proc[jobs_list[i].pid]
  BY ListedAreBorn, SMTT(30) DEF Born
<1>2. IdsBorn'
  BY <1>1, ZenonT(30) DEF ListInv, IdsBorn, Born
<1>3. ListInjective'
  BY SMTT(30) DEF ListInv, ListInjective
<1>4. StoppedMarkTrue'
  BY <1>1, ZenonT(30) DEF ListInv, StoppedMarkTrue
<1> QED BY <1>2, <1>3, <1>4, SMTT(30)

\* Starting one external command, in the background or in the foreground.
LEMMA SpawnList ==
  ASSUME ListInv, AtPrompt, NEW bg \in BOOLEAN, Spawn(bg), pc' \in {"wait", "arm"},
         UNCHANGED <<status, let_go>>
  PROVE  /\ ListInv'
         /\ NewPid \in Pids /\ proc[NewPid] = "none" /\ proc'[NewPid] = "running"
         /\ \A q \in Pids \ {NewPid} : proc'[q] = proc[q]
         /\ \A i \in DOMAIN jobs_list : i \in DOMAIN jobs_list' /\ jobs_list'[i] = jobs_list[i]
         /\ \A i \in DOMAIN jobs_list' \ DOMAIN jobs_list : jobs_list'[i].pid = NewPid
         /\ bg => UNCHANGED wait_job_pid /\ \E i \in DOMAIN jobs_list' : jobs_list'[i].pid = NewPid
         /\ ~bg => wait_job_pid' = NewPid
<1>0. PICK new : new = NewPid
  OBVIOUS
<1>1. /\ Unborn # {} /\ proc' = [proc EXCEPT ![new] = "running"]
      /\ UNCHANGED exit_shell
  BY <1>0, SMTT(30) DEF Spawn
<1>2. /\ new \in Pids /\ new \in Nat /\ proc[new] = "none"
      /\ \A q \in Pids : Born(q) <=> q < new
      /\ \A i \in DOMAIN jobs_list : i < new /\ jobs_list[i].pid # new
  BY <1>0, <1>1, Fork, ZenonT(30) DEF NewPid
<1>3. /\ proc' \in [Pids -> States] /\ proc'[new] = "running"
      /\ \A q \in Pids \ {new} : proc'[q] = proc[q]
  BY <1>1, <1>2, ZenonT(30) DEF ListInv, Types, States
<1>4. \A q \in Pids : Born(q)' <=> q <= new
  <2>1. \A q \in Pids : Born(q)' <=> (q = new \/ Born(q))
    BY <1>2, <1>3, SMTT(30) DEF Born
  <2>2. \A q \in Pids : q \in Nat
    BY PidsArePositive, SMTT(30)
  <2> QED BY <2>1, <2>2, <1>2, SMTT(30)
<1>5. \A q, r \in Pids : r < q /\ Born(q)' => Born(r)'
  BY <1>2, <1>4, PidsArePositive, SMTT(30)
<1>6. wait_job_pid = None
  BY SMTT(30) DEF ListInv, ForegroundApart, AtPrompt
<1>7. CASE bg
  <2> DEFINE job == Entry(new, None, FALSE)
  <2>1. /\ jobs_list' = addJob(jobs_list, job)
        /\ UNCHANGED <<foreground_job, wait_job_pid>>
    BY <1>0, <1>7, SMTT(30) DEF Spawn
  <2>2. /\ job \in [pid: Pids, job_id: Pids \cup {None}, stopped: BOOLEAN]
        /\ job.job_id = None /\ job.pid = new /\ job.stopped = FALSE
    BY <1>2, SMTT(30) DEF Entry
  <2> HIDE DEF job
  <2>3. jobs_list \in [DOMAIN jobs_list -> EntryType] /\ DOMAIN jobs_list \subseteq Pids
    BY SMTT(30) DEF ListInv, Types, IdsBorn
  <2>4. PICK k \in Pids \ DOMAIN jobs_list :
          /\ k <= new
          /\ jobs_list' = WithEntry(jobs_list, k, [pid |-> new, job_id |-> k, stopped |-> FALSE])
    <3>1. /\ new \in Pids
          /\ job.job_id = None => \A i \in DOMAIN jobs_list : i < new
          /\ job.job_id # None => job.job_id \notin DOMAIN jobs_list
      BY <1>2, <2>2, SMTT(30)
    <3>2. PICK k \in Pids \ DOMAIN jobs_list :
            /\ IF job.job_id = None THEN k <= new ELSE k = job.job_id
            /\ addJob(jobs_list, job) =
                 WithEntry(jobs_list, k, [pid |-> job.pid, job_id |-> k, stopped |-> job.stopped])
      BY <2>2, <2>3, <3>1, AddJob, ZenonT(30)
    <3> QED BY <2>1, <2>2, <3>2, ZenonT(30)
  <2>5. Born(new)' /\ Born(k)'
    BY <1>2, <1>4, <2>4, SMTT(30)
  <2>6. /\ jobs_list' \in [DOMAIN jobs_list' -> EntryType]
        /\ IdsBorn' /\ ListInjective' /\ StoppedMarkTrue'
        /\ DOMAIN jobs_list' = DOMAIN jobs_list \cup {k}
    BY <1>2, <1>3, <1>5, <2>4, <2>5, Added, ZenonT(30)
  <2>7. Types'
    BY <2>1, <2>6, <1>1, <1>3, ZenonT(30) DEF ListInv, Types
  <2>8. ForegroundApart'
    BY <1>6, <2>1, ZenonT(30) DEF ForegroundApart, Pending
  <2>9. /\ \A i \in DOMAIN jobs_list : jobs_list'[i] = jobs_list[i]
        /\ jobs_list'[k].pid = new
    BY <2>4, ZenonT(30) DEF WithEntry
  <2> QED BY <1>0, <1>2, <1>3, <1>7, <2>1, <2>6, <2>7, <2>8, <2>9, ZenonT(30) DEF ListInv
<1>8. CASE ~bg
  <2>1. /\ foreground_job' = Entry(new, None, FALSE) /\ wait_job_pid' = new
        /\ UNCHANGED jobs_list
    BY <1>0, <1>8, SMTT(30) DEF Spawn
  <2>2. IdsBorn' /\ ListInjective' /\ StoppedMarkTrue'
    BY <2>1, <1>2, <1>3, <1>5, Unlisted, ZenonT(30) DEF Born
  <2>3. Types'
    BY <2>1, <1>1, <1>2, <1>3, ZenonT(30) DEF ListInv, Types, Entry
  <2>4. ForegroundApart'
    BY <2>1, <1>2, <1>3, <1>4, ZenonT(30) DEF ForegroundApart, Pending, Entry, Born
  <2> QED BY <1>0, <1>2, <1>3, <1>8, <2>1, <2>2, <2>3, <2>4, ZenonT(30) DEF ListInv
<1> QED BY <1>7, <1>8, ZenonT(30)

\* A pipe starts two processes and waits for the second.
LEMMA PipeList ==
  ASSUME ListInv, PipeCommand
  PROVE  /\ ListInv' /\ wait_job_pid' # NewPid /\ pc = "prompt" /\ pc' = "wait"
         /\ UNCHANGED <<jobs_list, exit_shell, status>> /\ let_go' = let_go \cup {NewPid}
         /\ NewPid \in Pids /\ wait_job_pid' \in Pids
         /\ proc[NewPid] = "none" /\ proc[wait_job_pid'] = "none"
         /\ \A q \in Pids \ {NewPid, wait_job_pid'} : proc'[q] = proc[q]
<1> DEFINE new == NewPid
           second == Min(Unborn \ {new})
<1>1. /\ AtPrompt /\ Cardinality(Unborn) >= 2 /\ pc' = "wait"
      /\ proc' = [proc EXCEPT ![new] = "running", ![second] = "running"]
      /\ foreground_job' = Entry(second, None, FALSE) /\ wait_job_pid' = second
      /\ let_go' = let_go \cup {new}
      /\ UNCHANGED <<jobs_list, exit_shell, status>>
  BY DEF PipeCommand
<1>2. Unborn # {} /\ Unborn \ {new} # {}
  <2>1. IsFiniteSet(Unborn)
    <3>1. IsFiniteSet(Pids)
      BY FS_Interval, SmashAssumption, SMTT(30) DEF Pids
    <3>2. Unborn \in SUBSET Pids
      BY DEF Unborn
    <3> QED BY <3>1, <3>2, FS_Subset, SMTT(30)
  <2>2. Unborn # {}
    BY <1>1, FS_EmptySet, SMTT(30)
  <2>3. Unborn # {new}
    <3>1. Cardinality({new}) = 1
      BY FS_Singleton, SMTT(30)
    <3> QED BY <1>1, <3>1, SMTT(30)
  <2> QED BY <2>2, <2>3, SMTT(30)
<1>3. /\ new \in Pids /\ new \in Nat /\ proc[new] = "none"
      /\ \A q \in Pids : Born(q) <=> q < new
      /\ \A i \in DOMAIN jobs_list : i < new /\ jobs_list[i].pid # new
  BY <1>2, Fork, SMTT(30) DEF NewPid
<1>4. /\ second \in Unborn \ {new} /\ \A p \in Unborn \ {new} : second <= p
  <2>1. Unborn \ {new} \in SUBSET Pids
    BY SMTT(30) DEF Unborn
  <2> QED BY <1>2, <2>1, NewPidIsLeast, SMTT(30)
<1> HIDE DEF new, second
<1>5. /\ second \in Pids /\ second \in Nat /\ proc[second] = "none" /\ second > new
      /\ \A q \in Pids : q \in Nat
      /\ \A q \in Pids : ~Born(q) /\ q # new => second <= q
  <2>1. /\ second \in Pids /\ proc[second] = "none" /\ second # new
        /\ \A q \in Pids : ~Born(q) /\ q # new => second <= q
    BY <1>4, SMTT(30) DEF Unborn, Born
  <2>2. \A q \in Pids : q \in Nat
    BY PidsArePositive, SMTT(30)
  <2>3. ~(second < new)
    BY <1>3, <2>1, SMTT(30) DEF Born
  <2>4. new \in Nat /\ second \in Nat
    BY <1>3, <2>1, <2>2, SMTT(30)
  <2>5. second > new
    BY <2>1, <2>3, <2>4, SMTT(30)
  <2> QED BY <2>1, <2>2, <2>4, <2>5, ZenonT(30)
<1>6. /\ proc' \in [Pids -> States] /\ proc'[new] = "running" /\ proc'[second] = "running"
      /\ \A q \in Pids \ {new, second} : proc'[q] = proc[q]
  BY <1>1, <1>3, <1>5, SMTT(30) DEF ListInv, Types, States
<1>7. \A q \in Pids : Born(q)' <=> q <= second
  <2>1. \A q \in Pids : Born(q)' <=> (q = new \/ q = second \/ Born(q))
    BY <1>3, <1>5, <1>6, ZenonT(30) DEF Born
  <2> QED BY <2>1, <1>3, <1>5, SMTT(30)
<1>8. \A q, r \in Pids : r < q /\ Born(q)' => Born(r)'
  BY <1>5, <1>7, SMTT(30)
<1>9. IdsBorn' /\ ListInjective' /\ StoppedMarkTrue'
  BY <1>1, <1>3, <1>5, <1>6, <1>8, Unlisted, SMTT(30) DEF Born
<1>10. Types'
  BY <1>1, <1>3, <1>5, <1>6, SMTT(30) DEF ListInv, Types, Entry
<1>11. ForegroundApart'
  <2>1. \A i \in DOMAIN jobs_list : i \in Nat /\ i < second /\ jobs_list[i].pid # second
    <3>1. DOMAIN jobs_list \subseteq Pids
      BY DEF ListInv, IdsBorn
    <3>2. \A i \in DOMAIN jobs_list : jobs_list[i].pid # second
      BY <1>5, ListedAreBorn, SMTT(30)
    <3>3. \A i \in DOMAIN jobs_list : i \in Nat /\ i < new
      BY <1>3, <1>5, <3>1, ZenonT(30)
    <3>4. \A i \in DOMAIN jobs_list : i < second
      BY <1>3, <1>5, <3>3, SMTT(30)
    <3> QED BY <3>2, <3>3, <3>4, SMTT(30)
  <2> QED BY <1>1, <1>5, <1>6, <2>1, ZenonT(30) DEF ForegroundApart, Pending, Entry, Born
<1> QED BY <1>1, <1>3, <1>5, <1>6, <1>9, <1>10, <1>11, SMTT(30) DEF ListInv, new, AtPrompt

\* fg takes the job out of the list, so that its id and its place stay free
\* until waitForJob puts it back.
LEMMA ForegroundList ==
  ASSUME ListInv, NEW arg \in Ids \cup {None}, ForegroundCommand(arg)
  PROVE  \E id \in DOMAIN removeFinishedJobs :
           /\ ListInv'
           /\ jobs_list' = removeJobs(removeFinishedJobs, {id})
           /\ wait_job_pid' = removeFinishedJobs[id].pid
           /\ proc' = Reaped /\ pc' = "continue" /\ UNCHANGED <<status, let_go, exit_shell>>
<1>1. PICK id \in DOMAIN removeFinishedJobs :
        /\ jobs_list' = removeJobs(removeFinishedJobs, {id})
        /\ foreground_job' = removeFinishedJobs[id]
        /\ wait_job_pid' = removeFinishedJobs[id].pid
  BY ZenonT(30) DEF ForegroundCommand
<1>2. /\ pc = "prompt" /\ pc' = "continue" /\ proc' = Reaped
      /\ UNCHANGED <<status, let_go, exit_shell>>
  BY SMTT(30) DEF ForegroundCommand, AtPrompt
<1> DEFINE pid == jobs_list[id].pid
<1>3. /\ DOMAIN removeFinishedJobs \subseteq DOMAIN jobs_list
      /\ id \in DOMAIN jobs_list
      /\ foreground_job' = jobs_list[id] /\ wait_job_pid' = pid
      /\ jobs_list[id].job_id = id /\ id \in Pids /\ pid \in Pids
      /\ proc[pid] # "none" /\ proc[id] # "none" /\ jobs_list[id].stopped \in BOOLEAN
  BY <1>1, FinishedJobsRemoved, ZenonT(30) DEF ListInv, IdsBorn, Born, Types, EntryType
<1>4. /\ jobs_list' \in [DOMAIN jobs_list' -> EntryType]
      /\ DOMAIN jobs_list' = DOMAIN removeFinishedJobs \ {id}
      /\ \A i \in DOMAIN jobs_list' : jobs_list'[i] = jobs_list[i]
  BY <1>1, FinishedJobsRemoved, SMTT(30) DEF removeJobs, Restrict
<1>5. \A p \in Pids : proc'[p] = "none" <=> proc[p] = "none"
  BY <1>2, FinishedJobsRemoved, SMTT(30)
<1>6. Types'
  <2>1. foreground_job' \in [pid: Pids, job_id: Pids \cup {None}, stopped: BOOLEAN]
    <3>1. foreground_job' \in EntryType
      BY <1>3 DEF ListInv, Types
    <3> QED BY <3>1, <1>3, SMTT(30) DEF EntryType
  <2> QED BY <2>1, <1>2, <1>3, <1>4, FinishedJobsRemoved, ZenonT(30) DEF ListInv, Types
<1>7. IdsBorn'
  BY <1>3, <1>4, <1>5, ListedAreBorn, ZenonT(90) DEF ListInv, IdsBorn, Born
<1>8. ListInjective'
  BY <1>3, <1>4, SMTT(30) DEF ListInv, ListInjective
<1>9. StoppedMarkTrue'
  BY <1>2, <1>3, <1>4, FinishedJobsRemoved, SMTT(30) DEF ListInv, StoppedMarkTrue
<1>10. ForegroundApart'
  <2>1. \A i \in DOMAIN jobs_list' : jobs_list'[i].pid # pid
    BY <1>3, <1>4, SMTT(30) DEF ListInv, ListInjective
  <2>2. /\ foreground_job'.job_id \notin DOMAIN jobs_list' /\ foreground_job'.job_id # None
        /\ foreground_job'.pid = pid /\ foreground_job'.job_id = id
    BY <1>3, <1>4, PidsArePositive, SMTT(30)
  <2>3. proc'[pid] # "none" /\ proc'[id] # "none"
    BY <1>3, <1>5, ZenonT(30)
  <2> HIDE DEF pid
  <2> QED BY <1>2, <1>3, <2>1, <2>2, <2>3, PidsArePositive, ZenonT(30) DEF ForegroundApart, Born
<1> QED BY <1>1, <1>2, <1>6, <1>7, <1>8, <1>9, <1>10, SMTT(30) DEF ListInv

\* waitForJob puts a stopped job back under its old id, or under a new one.
LEMMA ReportList ==
  ASSUME ListInv, wait_report
  PROVE  /\ ListInv' /\ pc = "report" /\ pc' = "clear" /\ wait_job_pid # None
         /\ UNCHANGED <<wait_job_pid, exit_shell, status, proc, let_go>>
         /\ \A i \in DOMAIN jobs_list : i \in DOMAIN jobs_list' /\ jobs_list'[i] = jobs_list[i]
         /\ \A i \in DOMAIN jobs_list' \ DOMAIN jobs_list : jobs_list'[i].pid = wait_job_pid
         /\ status = "stopped" => \E i \in DOMAIN jobs_list' : jobs_list'[i].pid = wait_job_pid
         /\ status = "exited" => UNCHANGED jobs_list
<1>1. /\ pc = "report" /\ pc' = "clear" /\ wait_job_pid # None
      /\ UNCHANGED <<wait_job_pid, exit_shell, status, proc, let_go>>
  BY DEF wait_report, ListInv, ForegroundApart
<1>2. /\ wait_job_pid \in Pids /\ foreground_job.pid = wait_job_pid
      /\ proc[wait_job_pid] # "none" /\ proc[wait_job_pid] # "running"
      /\ proc \in [Pids -> States]
      /\ \A i \in DOMAIN jobs_list : jobs_list[i].pid # wait_job_pid
      /\ IF foreground_job.job_id = None
         THEN \A i \in DOMAIN jobs_list : i < foreground_job.pid
         ELSE foreground_job.job_id \notin DOMAIN jobs_list /\ Born(foreground_job.job_id)
  BY <1>1, ZenonT(30) DEF ListInv, Types, ForegroundApart, Pending, Born
<1>3. foreground_job \in [pid: Pids, job_id: Pids \cup {None}, stopped: BOOLEAN]
  <2>1. foreground_job # Entry(None, None, FALSE)
    BY <1>2, PidsArePositive, SMTT(30) DEF Entry
  <2> QED BY <2>1, ZenonT(30) DEF ListInv, Types
<1>4. CASE status = "stopped"
  <2>1. /\ foreground_job' = [foreground_job EXCEPT !.stopped = TRUE]
        /\ jobs_list' = addJob(jobs_list, foreground_job')
    BY <1>4 DEF wait_report
  <2>2. PICK job : job = foreground_job'
    OBVIOUS
  <2>3. /\ job \in [pid: Pids, job_id: Pids \cup {None}, stopped: BOOLEAN]
        /\ job.pid = wait_job_pid /\ job.job_id = foreground_job.job_id /\ job.stopped = TRUE
    BY <1>2, <1>3, <2>1, <2>2, ZenonT(30)
  <2>4. jobs_list \in [DOMAIN jobs_list -> EntryType] /\ DOMAIN jobs_list \subseteq Pids
    BY DEF ListInv, Types, IdsBorn
  <2>5. PICK p \in Pids : p = wait_job_pid
    BY <1>2, ZenonT(30)
  <2>6. PICK k \in Pids \ DOMAIN jobs_list :
          /\ IF job.job_id = None THEN k <= p ELSE k = job.job_id
          /\ addJob(jobs_list, job) =
               WithEntry(jobs_list, k, [pid |-> job.pid, job_id |-> k, stopped |-> job.stopped])
    <3>1. /\ job.job_id = None => \A i \in DOMAIN jobs_list : i < p
          /\ job.job_id # None => job.job_id \notin DOMAIN jobs_list
      BY <1>2, <2>5, <2>3
    <3> QED BY <2>5, <2>3, <2>4, <3>1, AddJob, ZenonT(30)
  <2>7. jobs_list' = WithEntry(jobs_list, k, [pid |-> wait_job_pid, job_id |-> k, stopped |-> TRUE])
    BY <2>1, <2>2, <2>3, <2>6, ZenonT(30)
  <2>8. \A q, r \in Pids : r < q /\ Born(q) => Born(r)
    BY ZenonT(30) DEF ListInv, IdsBorn
  <2>9. Born(k)
    <3>1. CASE job.job_id = None
      BY <3>1, <1>2, <2>5, <2>6, <2>8, PidsArePositive, SMTT(30) DEF Born
    <3>2. CASE job.job_id # None
      BY <3>2, <1>2, <2>3, <2>6, ZenonT(30)
    <3> QED BY <3>1, <3>2, SMTT(30)
  <2>10. /\ jobs_list' \in [DOMAIN jobs_list' -> EntryType]
         /\ IdsBorn' /\ ListInjective' /\ StoppedMarkTrue'
         /\ DOMAIN jobs_list' = DOMAIN jobs_list \cup {k}
    <3>1. proc' \in [Pids -> States] /\ \A q \in Pids : proc'[q] = proc[q]
      BY <1>1, <1>2, ZenonT(30)
    <3>2. Born(p)' /\ Born(k)' /\ \A q, r \in Pids : r < q /\ Born(q)' => Born(r)'
      BY <1>2, <2>5, <2>8, <2>9, <3>1, ZenonT(30) DEF Born
    <3> QED BY <1>2, <2>5, <2>7, <3>1, <3>2, Added, ZenonT(30)
  <2>11. /\ \A i \in DOMAIN jobs_list : jobs_list'[i] = jobs_list[i]
         /\ jobs_list'[k].pid = wait_job_pid
    BY <2>7, ZenonT(30) DEF WithEntry
  <2>12. Types'
    BY <1>1, <1>2, <2>2, <2>3, <2>10, ZenonT(30) DEF ListInv, Types
  <2>13. ForegroundApart'
    BY <1>1, <1>2, <2>2, <2>3, ZenonT(30) DEF ForegroundApart, Pending, Born
  <2> QED BY <1>1, <1>4, <2>10, <2>11, <2>12, <2>13, SMTT(30) DEF ListInv
<1>5. CASE status = "exited"
  <2>1. UNCHANGED <<foreground_job, jobs_list>>
    BY <1>5, SMTT(30) DEF wait_report
  <2>2. ListInv'
    BY <1>1, <1>2, <2>1, ZenonT(30) DEF ListInv, Types, IdsBorn, Born, ListInjective, ForegroundApart,
                            Pending, StoppedMarkTrue
  <2> QED BY <1>1, <1>5, <2>1, <2>2, SMTT(30)
<1> QED BY <1>4, <1>5, ZenonT(30) DEF ListInv, Types

\* Every step of the shell, of its children and of the two keyboard handlers
\* keeps the list consistent.
LEMMA ListStep ==
  ASSUME ListInv, [JobNext]_vars
  PROVE  ListInv'
<1>1. CASE \E bg \in BOOLEAN : ExternalCommand(bg)
  BY <1>1, SpawnList, SMTT(30) DEF ExternalCommand
<1>2. CASE PipeCommand
  BY <1>2, PipeList, SMTT(30)
<1>3. CASE JobsCommand \/ SetcoreCommand
  BY <1>3, JobsList, SMTT(30) DEF SetcoreCommand
<1>4. CASE \E arg \in Ids \cup {None} : ForegroundCommand(arg)
  BY <1>4, ForegroundList, ZenonT(30)
<1>5. CASE \E arg \in Ids \cup {None} : BackgroundCommand(arg)
  BY <1>5, BackgroundList, SMTT(30)
<1>6. CASE \E sig \in {"SIGSTOP", "SIGTSTP", "SIGCONT", "SIGKILL", "other"}, id \in Ids : KillCommand(sig, id)
  BY <1>6, KillList, SMTT(30)
<1>7. CASE \E kill_jobs \in BOOLEAN : QuitCommand(kill_jobs)
  BY <1>7, QuitList, SMTT(30)
<1>8. CASE fg_continue
  BY <1>8, ContinueList, SMTT(30)
<1>9. CASE wait_nothing \/ wait_clear \/ UNCHANGED vars
  BY <1>9, WaitEndsList, SMTT(30)
<1>10. CASE wait_child
  BY <1>10, WaitChildList
<1>11. CASE wait_report
  BY <1>11, ReportList, SMTT(30)
<1>12. CASE ctrlZHandler
  BY <1>12, CtrlZList
<1>13. CASE ctrlCHandler
  BY <1>13, CtrlCList
<1>14. CASE \E p \in Pids : Exits(p)
  BY <1>14, ExitsList, SMTT(30)
<1> QED
  BY <1>1, <1>2, <1>3, <1>4, <1>5, <1>6, <1>7, <1>8, <1>9, <1>10, <1>11, <1>12, <1>13, <1>14, ZenonT(30)
  DEF JobNext, Command, ShellStep, waitForJob, Gone

-----------------------------------------------------------------------------
(* Without timeout: no ghost, and no child lost.                           *)

\* A step that takes no entry of a living child out of the list, and ends none
\* that stays in it, loses no child.
LEMMA ChildrenKept ==
  ASSUME JInv, wait_job_pid = None \/ UNCHANGED wait_job_pid,
         \A i \in DOMAIN jobs_list' : i \in DOMAIN jobs_list /\ jobs_list'[i].pid = jobs_list[i].pid,
         ~exit_shell' => ~exit_shell,
         ~exit_shell' => \A i \in DOMAIN jobs_list' :
           proc'[jobs_list[i].pid] = "reaped" => proc[jobs_list[i].pid] = "reaped",
         let_go \subseteq let_go',
         \A p \in Pids : proc'[p] \notin {"none", "reaped"} => proc[p] \notin {"none", "reaped"},
         \A i \in DOMAIN jobs_list \ DOMAIN jobs_list' :
           proc'[jobs_list[i].pid] = "reaped" \/ jobs_list[i].pid \in let_go' \cup {wait_job_pid'}
  PROVE  NoGhostJobs' /\ EveryChildTracked'
<1>1. NoGhostJobs'
  BY ZenonT(30) DEF JInv, NoGhostJobs, ListedPids
<1>2. EveryChildTracked'
  <2> SUFFICES ASSUME NEW p \in Pids, proc'[p] \notin {"none", "reaped"},
                      p \notin let_go', p # wait_job_pid'
               PROVE  \E i \in DOMAIN jobs_list' : jobs_list'[i].pid = p
    BY SMTT(30) DEF EveryChildTracked, ListedPids
  <2>1. p # wait_job_pid
    BY PidsArePositive, ZenonT(30)
  <2>2. PICK i \in DOMAIN jobs_list : jobs_list[i].pid = p
    BY <2>1, ZenonT(30) DEF JInv, EveryChildTracked, ListedPids
  <2> QED BY <2>2, ZenonT(30)
<1> QED BY <1>1, <1>2, ZenonT(30)

\* A step that starts processes or puts one back into the list loses none when
\* each of them has a place.
LEMMA ChildrenAdded ==
  ASSUME JInv, wait_job_pid = None \/ UNCHANGED wait_job_pid, UNCHANGED exit_shell,
         let_go \subseteq let_go',
         \A i \in DOMAIN jobs_list : i \in DOMAIN jobs_list' /\ jobs_list'[i] = jobs_list[i],
         \A i \in DOMAIN jobs_list' \ DOMAIN jobs_list : proc'[jobs_list'[i].pid] # "reaped",
         \A p \in Pids : proc[p] # "none" => proc'[p] = proc[p],
         \A p \in Pids : proc[p] = "none" /\ proc'[p] # "none" =>
                           p \in ListedPids' \cup let_go' \cup {wait_job_pid'}
  PROVE  NoGhostJobs' /\ EveryChildTracked'
<1>1. \A i \in DOMAIN jobs_list : proc'[jobs_list[i].pid] = proc[jobs_list[i].pid]
  BY ListedAreBorn, ZenonT(30) DEF JInv
<1>2. NoGhostJobs'
  BY <1>1, SMTT(30) DEF JInv, NoGhostJobs, ListedPids
<1>3. EveryChildTracked'
  <2> SUFFICES ASSUME NEW p \in Pids, proc'[p] \notin {"none", "reaped"}, proc[p] # "none",
                      p \notin let_go', p # wait_job_pid'
               PROVE  \E i \in DOMAIN jobs_list' : jobs_list'[i].pid = p
    BY SMTT(30) DEF EveryChildTracked, ListedPids
  <2>1. p # wait_job_pid
    BY PidsArePositive, ZenonT(30)
  <2>2. PICK i \in DOMAIN jobs_list : jobs_list[i].pid = p
    BY <2>1, ZenonT(30) DEF JInv, EveryChildTracked, ListedPids
  <2> QED BY <2>2, SMTT(30)
<1> QED BY <1>2, <1>3, ZenonT(30)

\* The commands.
LEMMA CommandChildren ==
  ASSUME JInv, Command
  PROVE  WaitedFor' /\ NoGhostJobs' /\ EveryChildTracked'
<1> USE DEF JInv
<1>1. pc = "prompt" /\ wait_job_pid = None
  <2>1. pc = "prompt"
    BY ZenonT(30) DEF Command, ExternalCommand, PipeCommand, JobsCommand, SetcoreCommand, ForegroundCommand,
           BackgroundCommand, KillCommand, QuitCommand, AtPrompt
  <2> QED BY <2>1, ZenonT(30) DEF ListInv, ForegroundApart
<1>2. ASSUME NEW bg \in BOOLEAN, ExternalCommand(bg)
      PROVE  WaitedFor' /\ NoGhostJobs' /\ EveryChildTracked'
  <2>1. AtPrompt /\ Spawn(bg) /\ pc' = "wait" /\ UNCHANGED <<status, let_go, exit_shell>>
    BY <1>2, ZenonT(30) DEF ExternalCommand, Spawn
  <2>2. /\ NewPid \in Pids /\ proc[NewPid] = "none" /\ proc'[NewPid] = "running"
        /\ \A q \in Pids \ {NewPid} : proc'[q] = proc[q]
        /\ \A i \in DOMAIN jobs_list : i \in DOMAIN jobs_list' /\ jobs_list'[i] = jobs_list[i]
        /\ \A i \in DOMAIN jobs_list' \ DOMAIN jobs_list : jobs_list'[i].pid = NewPid
        /\ bg => UNCHANGED wait_job_pid /\ \E i \in DOMAIN jobs_list' : jobs_list'[i].pid = NewPid
        /\ ~bg => wait_job_pid' = NewPid
    BY <2>1, SpawnList, ZenonT(30)
  <2>3. \A p \in Pids : proc[p] = "none" /\ proc'[p] # "none" => p \in ListedPids' \cup {wait_job_pid'}
    BY <2>2, ZenonT(30) DEF ListedPids
  <2>4. NoGhostJobs' /\ EveryChildTracked'
    BY <1>1, <2>1, <2>2, <2>3, ChildrenAdded, ZenonT(30)
  <2>5. WaitedFor'
    BY <1>1, <2>1, <2>2, ZenonT(30) DEF WaitedFor
  <2> QED BY <2>4, <2>5, SMTT(30)
<1>3. CASE PipeCommand
  <2>1. NoGhostJobs' /\ EveryChildTracked'
    BY <1>1, <1>3, PipeList, ChildrenAdded, ZenonT(30)
  <2>2. proc'[wait_job_pid'] = "running"
    BY <1>3, PipeList, ZenonT(30) DEF PipeCommand, ListInv, Types
  <2>3. WaitedFor'
    BY <1>3, <2>2, PipeList, SMTT(30) DEF WaitedFor
  <2> QED BY <2>1, <2>3, SMTT(30)
<1>4. CASE JobsCommand
  <2>1. /\ jobs_list' = removeFinishedJobs /\ proc' = Reaped /\ pc' = "wait"
        /\ UNCHANGED <<wait_job_pid, exit_shell, let_go>>
    BY <1>4 DEF JobsCommand
  <2>2. NoGhostJobs' /\ EveryChildTracked'
    BY <2>1, FinishedJobsRemoved, ListedAreBorn, ChildrenKept, ZenonT(30)
  <2>3. WaitedFor'
    BY <1>1, <2>1, ZenonT(30) DEF WaitedFor
  <2> QED BY <2>2, <2>3
<1>5. ASSUME NEW arg \in Ids \cup {None}, ForegroundCommand(arg)
      PROVE  WaitedFor' /\ NoGhostJobs' /\ EveryChildTracked'
  <2>1. PICK id \in DOMAIN removeFinishedJobs :
           /\ jobs_list' = removeJobs(removeFinishedJobs, {id})
           /\ wait_job_pid' = removeFinishedJobs[id].pid
           /\ proc' = Reaped /\ pc' = "continue" /\ UNCHANGED <<status, let_go, exit_shell>>
    BY <1>5, ForegroundList, ZenonT(30)
  <2>2. /\ DOMAIN jobs_list' = DOMAIN removeFinishedJobs \ {id}
        /\ \A i \in DOMAIN jobs_list' : jobs_list'[i] = removeFinishedJobs[i]
    BY <2>1 DEF removeJobs, Restrict
  <2>3. NoGhostJobs' /\ EveryChildTracked'
    <3>1. \A i \in DOMAIN jobs_list' :
            /\ i \in DOMAIN jobs_list /\ jobs_list'[i].pid = jobs_list[i].pid
            /\ proc'[jobs_list[i].pid] = proc[jobs_list[i].pid]
      BY <2>1, <2>2, FinishedJobsRemoved, ZenonT(30)
    <3>2. \A p \in Pids : proc'[p] \notin {"none", "reaped"} => proc'[p] = proc[p]
      BY <2>1, FinishedJobsRemoved, ZenonT(30)
    <3>3. \A i \in DOMAIN jobs_list \ DOMAIN jobs_list' :
            proc'[jobs_list[i].pid] = "reaped" \/ jobs_list[i].pid = wait_job_pid'
      BY <2>1, <2>2, FinishedJobsRemoved, SMTT(30)
    <3> QED BY <1>1, <2>1, <3>1, <3>2, <3>3, ChildrenKept, ZenonT(30)
  <2>4. WaitedFor'
    <3>1. id \in DOMAIN jobs_list /\ wait_job_pid' = jobs_list[id].pid
      BY <2>1, FinishedJobsRemoved, SMTT(30)
    <3>2. proc'[wait_job_pid'] = proc[jobs_list[id].pid]
      BY <2>1, <3>1, FinishedJobsRemoved, SMTT(30)
    <3>3. ~exit_shell
      BY <1>1, SMTT(30) DEF WaitedFor
    <3>4. proc[jobs_list[id].pid] # "reaped"
      BY <3>1, <3>3, SMTT(30) DEF NoGhostJobs, ListedPids
    <3> QED BY <2>1, <3>2, <3>3, <3>4, SMTT(30) DEF WaitedFor
  <2> QED BY <2>3, <2>4, SMTT(30)
<1>6. ASSUME NEW arg \in Ids \cup {None}, BackgroundCommand(arg)
      PROVE  WaitedFor' /\ NoGhostJobs' /\ EveryChildTracked'
  <2>1. PICK id \in DOMAIN removeFinishedJobs :
           /\ jobs_list' = [removeFinishedJobs EXCEPT ![id].stopped = FALSE]
           /\ proc' = [Reaped EXCEPT ![removeFinishedJobs[id].pid] = Signalled("SIGCONT", @)]
           /\ pc' = "wait" /\ UNCHANGED <<wait_job_pid, let_go, exit_shell>>
    BY <1>6, ZenonT(30) DEF BackgroundCommand, StoppedJobs
  <2>2. /\ DOMAIN jobs_list' = DOMAIN removeFinishedJobs
        /\ \A i \in DOMAIN jobs_list' : jobs_list'[i].pid = removeFinishedJobs[i].pid
    BY <2>1, FinishedJobsRemoved, MarkedEntry, SMTT(30)
  <2>3. \A p \in Pids : /\ proc'[p] = "reaped" <=> Reaped[p] = "reaped"
                        /\ proc'[p] = "none" <=> Reaped[p] = "none"
    BY <2>1, FinishedJobsRemoved, SignalFacts, SMTT(30)
  <2>4. NoGhostJobs' /\ EveryChildTracked'
    <3>1. /\ \A i \in DOMAIN jobs_list' :
               /\ i \in DOMAIN jobs_list /\ jobs_list'[i].pid = jobs_list[i].pid
               /\ proc'[jobs_list[i].pid] = "reaped" => proc[jobs_list[i].pid] = "reaped"
          /\ \A p \in Pids : proc'[p] \notin {"none", "reaped"} => proc[p] \notin {"none", "reaped"}
          /\ \A i \in DOMAIN jobs_list \ DOMAIN jobs_list' : proc'[jobs_list[i].pid] = "reaped"
      BY <2>2, <2>3, FinishedJobsRemoved, ListedAreBorn, SMTT(30)
    <3> QED BY <2>1, <3>1, ChildrenKept, SMTT(30)
  <2>5. WaitedFor'
    BY <1>1, <2>1, SMTT(30) DEF WaitedFor
  <2> QED BY <2>4, <2>5
<1>7. ASSUME NEW sig \in {"SIGSTOP", "SIGTSTP", "SIGCONT", "SIGKILL", "other"}, NEW id \in Ids,
             KillCommand(sig, id)
      PROVE  WaitedFor' /\ NoGhostJobs' /\ EveryChildTracked'
  <2> DEFINE jobs == removeFinishedJobs
             pid == jobs[id].pid
  <2>1. /\ id \in DOMAIN jobs /\ pc' = "wait" /\ UNCHANGED <<wait_job_pid, exit_shell>>
        /\ let_go \subseteq let_go'
        /\ sig = "SIGKILL" => pid \in let_go'
    BY <1>7, SMTT(30) DEF KillCommand
  <2>2. /\ DOMAIN jobs_list' \subseteq DOMAIN jobs
        /\ DOMAIN jobs \ {id} \subseteq DOMAIN jobs_list'
        /\ sig = "SIGKILL" <=> id \notin DOMAIN jobs_list'
        /\ \A i \in DOMAIN jobs_list' : jobs_list'[i].pid = jobs[i].pid
    <3>0. jobs \in [DOMAIN jobs -> EntryType]
      BY FinishedJobsRemoved, SMTT(30)
    <3> HIDE DEF jobs
    <3>1. CASE sig = "SIGSTOP"
      <4>1. jobs_list' = [jobs EXCEPT ![id].stopped = TRUE]
        BY <1>7, <3>1, SMTT(30) DEF KillCommand, jobs
      <4> QED BY <2>1, <3>0, <3>1, <4>1, MarkedEntry, SMTT(30)
    <3>2. CASE sig = "SIGCONT"
      <4>1. jobs_list' = [jobs EXCEPT ![id].stopped = FALSE]
        BY <1>7, <3>2, SMTT(30) DEF KillCommand, jobs
      <4> QED BY <2>1, <3>0, <3>2, <4>1, MarkedEntry, SMTT(30)
    <3>3. CASE sig = "SIGKILL"
      <4>1. jobs_list' = removeJobs(jobs, {id})
        BY <1>7, <3>3, SMTT(30) DEF KillCommand, jobs
      <4> QED BY <2>1, <3>3, <4>1, SMTT(30) DEF removeJobs, Restrict
    <3>4. CASE sig \in {"SIGTSTP", "other"}
      <4>1. jobs_list' = jobs
        BY <1>7, <3>4, SMTT(30) DEF KillCommand, jobs
      <4> QED BY <2>1, <3>4, <4>1, SMTT(30)
    <3> QED BY <3>1, <3>2, <3>3, <3>4, SMTT(30)
  <2>3. /\ \A p \in Pids \ {pid} : proc'[p] = Reaped[p]
        /\ proc'[pid] \notin {"none", "reaped"} => Reaped[pid] \notin {"none", "reaped"}
        /\ sig # "SIGKILL" /\ proc'[pid] = "reaped" => Reaped[pid] = "reaped"
        /\ Reaped[pid] = "reaped" => proc'[pid] = "reaped"
    <3>1. /\ pid \in Pids /\ Reaped \in [Pids -> States]
          /\ \/ proc' = [Reaped EXCEPT ![pid] = Signalled(sig, @)]
             \/ sig = "SIGKILL" /\ proc' = [Reaped EXCEPT ![pid] = "reaped"]
      BY <1>7, <2>1, FinishedJobsRemoved, ListedAreBorn, SMTT(30) DEF KillCommand
    <3> HIDE DEF pid
    <3> QED BY <3>1, SignalFacts, SMTT(30)
  <2>4. NoGhostJobs' /\ EveryChildTracked'
    <3>1. /\ \A i \in DOMAIN jobs_list' :
               /\ i \in DOMAIN jobs_list /\ jobs_list'[i].pid = jobs_list[i].pid
               /\ jobs_list[i].pid = pid => sig # "SIGKILL"
          /\ \A i \in DOMAIN jobs_list \ DOMAIN jobs_list' :
               Reaped[jobs_list[i].pid] = "reaped" \/ jobs_list[i].pid \in let_go'
      BY <2>1, <2>2, FinishedJobsRemoved, SMTT(30) DEF ListInv, ListInjective
    <3>2. \A i \in DOMAIN jobs_list' :
            proc'[jobs_list[i].pid] = "reaped" => proc[jobs_list[i].pid] = "reaped"
      BY <2>2, <2>3, <3>1, FinishedJobsRemoved, ListedAreBorn, SMTT(30)
    <3>3. \A p \in Pids : proc'[p] \notin {"none", "reaped"} => proc[p] \notin {"none", "reaped"}
      BY <2>3, FinishedJobsRemoved, SMTT(30)
    <3>4. \A i \in DOMAIN jobs_list \ DOMAIN jobs_list' :
               proc'[jobs_list[i].pid] = "reaped" \/ jobs_list[i].pid \in let_go'
      BY <2>3, <3>1, ListedAreBorn, SMTT(30)
    <3> QED BY <2>1, <3>1, <3>2, <3>3, <3>4, ChildrenKept, SMTT(30)
  <2>5. WaitedFor'
    BY <1>1, <2>1, SMTT(30) DEF WaitedFor
  <2> QED BY <2>4, <2>5, SMTT(30)
<1>8. ASSUME NEW kill_jobs \in BOOLEAN, QuitCommand(kill_jobs)
      PROVE  WaitedFor' /\ NoGhostJobs' /\ EveryChildTracked'
  <2>1. /\ jobs_list' = removeFinishedJobs /\ pc' = "wait" /\ exit_shell' = TRUE
        /\ UNCHANGED <<wait_job_pid, let_go>>
        /\ proc' = Reaped \/ proc' = killAllJobs(removeFinishedJobs)
    BY <1>8, SMTT(30) DEF QuitCommand
  <2>2. \A p \in Pids : proc'[p] = Reaped[p] \/ proc'[p] = "reaped"
    BY <2>1, SMTT(30) DEF killAllJobs
  <2>3. NoGhostJobs' /\ EveryChildTracked'
    BY <2>1, <2>2, FinishedJobsRemoved, ListedAreBorn, ChildrenKept, SMTT(30)
  <2>4. WaitedFor'
    BY <1>1, <2>1, SMTT(30) DEF WaitedFor
  <2> QED BY <2>3, <2>4
<1> QED BY <1>2, <1>3, <1>4, <1>5, <1>6, <1>7, <1>8, ZenonT(30) DEF Command, SetcoreCommand

\* A step that reaps no process, of the shell or of somebody else.
LEMMA NothingReaped ==
  ASSUME JInv, UNCHANGED <<jobs_list, wait_job_pid, exit_shell, let_go, status>>,
         NEW p \in Pids, NEW X \in States, proc' = [proc EXCEPT ![p] = X],
         X = "none" <=> proc[p] = "none",
         X = "reaped" <=> proc[p] = "reaped",
         UNCHANGED pc \/ (pc = "continue" /\ pc' = "wait")
  PROVE  WaitedFor' /\ NoGhostJobs' /\ EveryChildTracked'
<1>1. \A q \in Pids : /\ proc'[q] = "none" <=> proc[q] = "none"
                      /\ proc'[q] = "reaped" <=> proc[q] = "reaped"
  BY SMTT(30) DEF JInv, ListInv, Types
<1>2. NoGhostJobs' /\ EveryChildTracked'
  BY <1>1, ListedAreBorn, ChildrenKept, SMTT(30) DEF JInv
<1>3. ListedPids' = ListedPids
  BY SMTT(30) DEF ListedPids
<1>4. wait_job_pid # None => wait_job_pid \in Pids
  BY SMTT(30) DEF JInv, ListInv, Types
<1>5. pc \in {"report", "clear"} => wait_job_pid # None
  BY SMTT(30) DEF JInv, ListInv, ForegroundApart
<1>6. WaitedFor'
  BY <1>1, <1>3, <1>4, <1>5, SMTT(30) DEF JInv, WaitedFor
<1> QED BY <1>2, <1>6, SMTT(30)

\* fg's SIGCONT, the keyboard handlers and children that end.
LEMMA SignalChildren ==
  ASSUME JInv, fg_continue \/ ctrlZHandler \/ ctrlCHandler \/ \E p \in Pids : Exits(p)
  PROVE  WaitedFor' /\ NoGhostJobs' /\ EveryChildTracked'
<1>1. ASSUME NEW sig, wait_job_pid # None, proc' = kill(wait_job_pid, sig),
             UNCHANGED <<jobs_list, wait_job_pid, exit_shell, let_go, status>>,
             UNCHANGED pc \/ (pc = "continue" /\ pc' = "wait")
      PROVE  WaitedFor' /\ NoGhostJobs' /\ EveryChildTracked'
  <2>1. PICK p \in Pids : p = wait_job_pid /\ proc[p] \in States
    BY <1>1, ForegroundJob, SMTT(30) DEF JInv
  <2>2. PICK X : X = Signalled(sig, proc[p])
    BY SMTT(30)
  <2>3. /\ X \in States
        /\ X = "none" <=> proc[p] = "none"
        /\ X = "reaped" <=> proc[p] = "reaped"
    BY <2>1, <2>2, SignalFacts, SMTT(30)
  <2>4. proc' = [proc EXCEPT ![p] = X]
    BY <1>1, <2>1, <2>2, SMTT(30) DEF kill
  <2> QED BY <1>1, <2>3, <2>4, NothingReaped, ZenonT(30)
<1>2. CASE fg_continue
  <2>1. wait_job_pid # None /\ foreground_job.pid = wait_job_pid
    BY <1>2, SMTT(30) DEF fg_continue, JInv, ListInv, ForegroundApart
  <2> QED BY <1>1, <1>2, <2>1, SMTT(30) DEF fg_continue, shell
<1>3. CASE ctrlZHandler
  BY <1>1, <1>3, SMTT(30) DEF ctrlZHandler, shell
<1>4. CASE ctrlCHandler
  BY <1>1, <1>4, SMTT(30) DEF ctrlCHandler
<1>5. ASSUME NEW p \in Pids, Exits(p)
      PROVE  WaitedFor' /\ NoGhostJobs' /\ EveryChildTracked'
  <2>1. /\ UNCHANGED <<jobs_list, wait_job_pid, exit_shell, let_go, status, pc>>
        /\ proc' = [proc EXCEPT ![p] = "zombie"] /\ proc[p] \in {"running", "dying"}
    BY <1>5, SMTT(30) DEF Exits, shell
  <2>2. "zombie" \in States
    BY SMTT(30) DEF States
  <2> QED BY <2>1, <2>2, NothingReaped, ZenonT(30)
<1> QED BY <1>2, <1>3, <1>4, <1>5, SMTT(30)

\* waitForJob.
LEMMA WaitChildren ==
  ASSUME JInv, waitForJob \/ UNCHANGED vars
  PROVE  WaitedFor' /\ NoGhostJobs' /\ EveryChildTracked'
<1>1. CASE wait_nothing
  BY <1>1, SMTT(30) DEF wait_nothing, NextPrompt, shell, JInv, ListInv, Types, WaitedFor, NoGhostJobs,
              EveryChildTracked, ListedPids
<1>2. CASE wait_child
  <2>1. /\ pc = "wait" /\ pc' = "report" /\ wait_job_pid # None
        /\ UNCHANGED <<jobs_list, wait_job_pid, exit_shell, let_go>>
    BY <1>2, SMTT(30) DEF wait_child, shell
  <2>2. /\ wait_job_pid \in Pids
        /\ \A i \in DOMAIN jobs_list : jobs_list[i].pid # wait_job_pid
        /\ proc[wait_job_pid] # "reaped" /\ ~exit_shell
    BY <2>1, ForegroundJob, SMTT(30) DEF JInv, WaitedFor
  <2>3. /\ \A q \in Pids \ {wait_job_pid} : proc'[q] = proc[q]
        /\ proc'[wait_job_pid] \in {"stopped", "suspended", "reaped"}
        /\ proc[wait_job_pid] \notin {"none", "reaped"}
        /\ status' = IF proc'[wait_job_pid] = "reaped" THEN "exited" ELSE "stopped"
    BY <1>2, <2>2, SMTT(30) DEF wait_child, JInv, ListInv, Types
  <2>4. NoGhostJobs' /\ EveryChildTracked'
    BY <2>1, <2>2, <2>3, ListedAreBorn, ChildrenKept, SMTT(30) DEF JInv
  <2>5. WaitedFor'
    BY <2>1, <2>2, <2>3, SMTT(30) DEF WaitedFor
  <2> QED BY <2>4, <2>5, SMTT(30)
<1>3. CASE wait_report
  <2>1. /\ pc = "report" /\ pc' = "clear" /\ wait_job_pid # None
        /\ UNCHANGED <<wait_job_pid, exit_shell, status, proc, let_go>>
        /\ \A i \in DOMAIN jobs_list : i \in DOMAIN jobs_list' /\ jobs_list'[i] = jobs_list[i]
        /\ \A i \in DOMAIN jobs_list' \ DOMAIN jobs_list : jobs_list'[i].pid = wait_job_pid
        /\ status = "stopped" => \E i \in DOMAIN jobs_list' : jobs_list'[i].pid = wait_job_pid
        /\ status = "exited" => UNCHANGED jobs_list
    BY <1>3, ReportList, SMTT(30) DEF JInv
  <2>2. /\ status = "stopped" => proc[wait_job_pid] # "reaped"
        /\ status = "exited" => proc[wait_job_pid] = "reaped"
        /\ ~exit_shell /\ status \in {"stopped", "exited"}
    BY <2>1, SMTT(30) DEF JInv, WaitedFor, ListInv, Types
  <2>3. NoGhostJobs' /\ EveryChildTracked'
    <3>1. \A i \in DOMAIN jobs_list' \ DOMAIN jobs_list : proc'[jobs_list'[i].pid] # "reaped"
      BY <2>1, <2>2, SMTT(30)
    <3> QED BY <2>1, <3>1, ChildrenAdded, SMTT(30)
  <2>4. WaitedFor'
    BY <2>1, <2>2, SMTT(30) DEF WaitedFor, ListedPids
  <2> QED BY <2>3, <2>4
<1>4. CASE wait_clear
  <2>1. /\ pc = "clear" /\ pc' = NextPrompt /\ wait_job_pid' = None
        /\ UNCHANGED <<jobs_list, exit_shell, proc, let_go, status>>
    BY <1>4, SMTT(30) DEF wait_clear
  <2>2. wait_job_pid \in ListedPids \/ proc[wait_job_pid] = "reaped"
    BY <2>1, SMTT(30) DEF JInv, WaitedFor
  <2>3. EveryChildTracked'
    BY <2>1, <2>2, SMTT(30) DEF JInv, EveryChildTracked, ListedPids
  <2>4. NoGhostJobs'
    BY <2>1, SMTT(30) DEF JInv, NoGhostJobs, ListedPids
  <2>5. WaitedFor'
    BY <2>1, SMTT(30) DEF JInv, WaitedFor, NextPrompt
  <2> QED BY <2>3, <2>4, <2>5, SMTT(30)
<1>5. CASE UNCHANGED vars
  BY <1>5, SMTT(30) DEF vars, shell, JInv, WaitedFor, NoGhostJobs, EveryChildTracked, ListedPids
<1> QED BY <1>1, <1>2, <1>3, <1>4, <1>5, SMTT(30) DEF waitForJob

\* One step.
LEMMA JobStep ==
  ASSUME JInv, [JobNext]_vars
  PROVE  JInv'
<1>1. ListInv'
  BY ListStep, SMTT(30) DEF JInv
<1>2. WaitedFor' /\ NoGhostJobs' /\ EveryChildTracked'
  BY CommandChildren, SignalChildren, WaitChildren, SMTT(30) DEF JobNext, ShellStep, Gone
<1> QED BY <1>1, <1>2, SMTT(30) DEF JInv

-----------------------------------------------------------------------------
(* With timeout: the list of timeouts and the deadlines.                   *)

\* No step of the shell unstarts a process.
LEMMA BornStays ==
  ASSUME ListInv, [JobNext]_vars, NEW p \in Pids, Born(p)
  PROVE  Born(p)'
<1> USE DEF Born
<1>1. proc \in [Pids -> States] /\ Reaped \in [Pids -> States] /\ Reaped[p] # "none"
  BY FinishedJobsRemoved, ZenonT(30) DEF ListInv, Types
<1>2. CASE \E bg \in BOOLEAN : ExternalCommand(bg)
  BY <1>2, SpawnList, SMTT(30) DEF ExternalCommand
<1>3. CASE PipeCommand
  BY <1>3, PipeList, SMTT(30)
<1>4. CASE proc' = Reaped
  BY <1>1, <1>4, SMTT(30)
<1>5. ASSUME NEW q, NEW sig, proc' = [Reaped EXCEPT ![q] = Signalled(sig, @)]
             \/ proc' = [Reaped EXCEPT ![q] = "reaped"]
             \/ proc' = [proc EXCEPT ![q] = Signalled(sig, @)]
             \/ proc' = [proc EXCEPT ![q] = "zombie"] \/ proc' = [proc EXCEPT ![q] = "reaped"]
      PROVE  proc'[p] # "none"
  BY <1>1, <1>5, SignalFacts, SMTT(30)
<1>6. CASE \E arg \in Ids \cup {None} : BackgroundCommand(arg)
  BY <1>5, <1>6, ZenonT(30) DEF BackgroundCommand
<1>7. CASE \E sig \in {"SIGSTOP", "SIGTSTP", "SIGCONT", "SIGKILL", "other"}, id \in Ids : KillCommand(sig, id)
  BY <1>5, <1>7, SMTT(30) DEF KillCommand
<1>8. CASE \E kill_jobs \in BOOLEAN : QuitCommand(kill_jobs)
  BY <1>1, <1>8, SMTT(30) DEF QuitCommand, killAllJobs
<1>9. CASE fg_continue \/ ctrlZHandler \/ ctrlCHandler
  BY <1>5, <1>9, SMTT(30) DEF fg_continue, ctrlZHandler, ctrlCHandler, kill
<1>10. CASE \E q \in Pids : Exits(q)
  BY <1>5, <1>10, SMTT(30) DEF Exits
<1>11. CASE wait_child
  BY <1>5, <1>11, SMTT(30) DEF wait_child
<1>12. CASE UNCHANGED proc
  BY <1>12, SMTT(30)
<1> QED
  BY <1>2, <1>3, <1>4, <1>6, <1>7, <1>8, <1>9, <1>10, <1>11, <1>12, ZenonT(30)
  DEF JobNext, Command, ShellStep, waitForJob, Gone, vars, JobsCommand, SetcoreCommand,
      ForegroundCommand, wait_nothing, wait_report, wait_clear

\* The timers do not change while the shell does something else.
LEMMA TimersKept ==
  ASSUME ListInv, TimerInv, DeadlinesKept, UNCHANGED timers,
         \A p \in Pids : Born(p) => Born(p)',
         pc' \in {"arm", "insert"} => pc' = pc,
         pc = "insert" => pc' = "insert"
  PROVE  TimerInv' /\ DeadlinesKept'
<1>1. UNCHANGED <<timeout_list, timed, now, deadline>>
  BY SMTT(30) DEF timers
<1>2. \A p \in Pids : proc'[p] = "none" => proc[p] = "none"
  BY SMTT(30) DEF Born
<1>3. TimerInv'
  BY <1>1, <1>2, SMTT(30) DEF TimerInv, Born
<1>4. DeadlinesKept'
  BY <1>1, SMTT(30) DEF DeadlinesKept
<1> QED BY <1>3, <1>4, SMTT(30)

\* The steps that are not part of timeout.
LEMMA JobTimers ==
  ASSUME ListInv, TimerInv, DeadlinesKept, [JobNext]_vars
  PROVE  TimerInv' /\ DeadlinesKept'
<1>1. /\ UNCHANGED timers
      /\ pc' \in {"arm", "insert"} => pc' = pc
      /\ pc = "insert" => pc' = "insert"
  BY ZenonT(30) DEF JobNext, Command, ShellStep, waitForJob, Gone, vars, ExternalCommand, PipeCommand,
         JobsCommand, SetcoreCommand, ForegroundCommand, BackgroundCommand, KillCommand,
         QuitCommand, AtPrompt, fg_continue, wait_nothing, wait_child, wait_report, wait_clear,
         NextPrompt, ctrlZHandler, ctrlCHandler, Exits
<1> QED BY <1>1, BornStays, TimersKept, SMTT(30)

\* timeout starts its command; the process has no deadline yet.
LEMMA TimeoutStarts ==
  ASSUME TInv, NEW delay \in Timeouts, NEW bg \in BOOLEAN, TimeoutCommand(delay, bg)
  PROVE  TInv'
<1> USE DEF TInv
<1>1. /\ AtPrompt /\ pc = "prompt" /\ Spawn(bg) /\ pc' = "arm" /\ UNCHANGED <<status, let_go>>
      /\ UNCHANGED <<timeout_list, now, deadline>>
      /\ timed' = [pid |-> NewPid, job_id |-> IF bg THEN Last(jobs_list') ELSE None,
                   delay |-> delay, completion |-> 0]
  BY SMTT(30) DEF TimeoutCommand, AtPrompt
<1>2. /\ ListInv'
      /\ NewPid \in Pids /\ proc[NewPid] = "none" /\ proc'[NewPid] = "running"
      /\ \A q \in Pids \ {NewPid} : proc'[q] = proc[q]
      /\ bg => \E i \in DOMAIN jobs_list' : jobs_list'[i].pid = NewPid
  BY <1>1, SpawnList, SMTT(30)
<1>3. bg => Last(jobs_list') \in Int
  <2> SUFFICES ASSUME bg PROVE Last(jobs_list') \in Int
    BY SMTT(30)
  <2>1. DOMAIN jobs_list' # {} /\ DOMAIN jobs_list' \subseteq Pids
    BY <1>2, SMTT(30) DEF ListInv, IdsBorn
  <2>2. DOMAIN jobs_list' \in SUBSET Nat /\ \A i \in DOMAIN jobs_list' : i <= MaxPid
    BY <2>1, PidsArePositive, SMTT(30)
  <2>3. PICK S : S = DOMAIN jobs_list'
    BY SMTT(30)
  <2>4. Max(S) \in S
    BY <2>1, <2>2, <2>3, MaxNat, SmashAssumption, ZenonT(30)
  <2> QED BY <2>2, <2>3, <2>4, SMTT(30) DEF Last
<1>4. /\ timed' \in TimedType /\ timed'.pid = NewPid
  BY <1>1, <1>2, <1>3, SmashAssumption, SMTT(30) DEF TimedType, None
<1>5. /\ proc'[timed'.pid] # "none" /\ deadline[timed'.pid] = None /\ timed'.pid \in Pids
      /\ \A q \in Pids : proc'[q] = "none" => proc[q] = "none"
  BY <1>2, <1>4, SMTT(30) DEF TimerInv
<1>6. TimerInv'
  BY <1>1, <1>4, <1>5, SMTT(30) DEF TimerInv, Born
<1>7. DeadlinesKept'
  BY <1>1, ZenonT(30) DEF DeadlinesKept
<1> QED BY <1>2, <1>6, <1>7, SMTT(30)

\* The list does not change while timeout sets its timer.
LEMMA TimerStepList ==
  ASSUME ListInv, UNCHANGED <<shell, status, proc, let_go>>,
         \/ UNCHANGED pc
         \/ pc = "arm" /\ pc' = "insert"
         \/ pc = "insert" /\ pc' = "wait"
  PROVE  ListInv'
BY ZenonT(30) DEF shell, ListInv, Types, IdsBorn, Born, ListInjective, ForegroundApart, Pending,
       StoppedMarkTrue

\* The process gets its deadline, and no other process loses one.
LEMMA TimeoutArms ==
  ASSUME TInv, timeout_arm
  PROVE  TInv'
<1> USE DEF TInv
<1> DEFINE c == now + timed.delay
<1>1. /\ pc = "arm" /\ pc' = "insert"
      /\ timed' = [timed EXCEPT !.completion = c]
      /\ deadline' = [deadline EXCEPT ![timed.pid] = c]
      /\ UNCHANGED <<shell, timeout_list, now, status, proc, let_go>>
  BY DEF timeout_arm
<1>2. /\ timed \in TimedType /\ now \in Nat /\ deadline \in [Pids -> Nat \cup {None}]
      /\ timed.pid \in Pids /\ deadline[timed.pid] = None /\ Born(timed.pid)
  BY <1>1 DEF TimerInv
<1>3. c \in Nat
  BY <1>2, SMTT(30) DEF TimedType
<1> HIDE DEF c
<1>4. /\ timed' \in TimedType /\ timed'.pid = timed.pid /\ timed'.completion = c
      /\ deadline' \in [Pids -> Nat \cup {None}]
      /\ deadline'[timed.pid] = c
      /\ \A q \in Pids \ {timed.pid} : deadline'[q] = deadline[q]
  BY <1>1, <1>2, <1>3, SMTT(30) DEF TimedType
<1>5. None \notin Nat
  BY PidsArePositive, SMTT(30)
<1>6. \A t \in DOMAIN timeout_list : timeout_list[t].pid \in Pids \ {timed.pid}
  <2>1. \A t \in DOMAIN timeout_list :
          t \in Nat /\ deadline[timeout_list[t].pid] = t /\ timeout_list[t].pid \in Pids
    BY SMTT(30) DEF TimerInv
  <2> QED BY <1>2, <1>5, <2>1, SMTT(30)
<1>7. TimerInv'
  BY <1>1, <1>2, <1>4, <1>6, SMTT(30) DEF TimerInv, Born
<1>8. DeadlinesKept'
  <2> SUFFICES ASSUME NEW p \in Pids, deadline'[p] # None, deadline'[p] > now, p # timed.pid
               PROVE  \/ \E t \in DOMAIN timeout_list : timeout_list[t].pid = p
                      \/ \E q \in Pids \ {p} : deadline'[q] = deadline'[p]
    BY <1>1, <1>4, SMTT(30) DEF DeadlinesKept
  <2>1. deadline[p] # None /\ deadline[p] > now /\ deadline[p] = deadline'[p]
    BY <1>4, SMTT(30)
  <2>2. CASE \E t \in DOMAIN timeout_list : timeout_list[t].pid = p
    BY <2>2, SMTT(30)
  <2>3. CASE \E q \in Pids \ {p} : deadline[q] = deadline[p]
    BY <2>1, <2>3, <1>2, <1>4, SMTT(30)
  <2> QED BY <2>1, <2>2, <2>3, <1>1, SMTT(30) DEF DeadlinesKept
<1>9. ListInv'
  BY <1>1, TimerStepList, SMTT(30)
<1> QED BY <1>7, <1>8, <1>9

\* The entry is made under the deadline, unless the place is taken, and then it
\* is taken by another process with the same deadline.
LEMMA TimeoutInserts ==
  ASSUME TInv, timeout_insert
  PROVE  TInv'
<1> USE DEF TInv
<1> DEFINE c == timed.completion
<1>1. /\ pc = "insert" /\ pc' = "wait" /\ timed' = NoTimer
      /\ timeout_list' = [t \in DOMAIN timeout_list \cup {c} |->
                            IF t \in DOMAIN timeout_list THEN timeout_list[t]
                            ELSE [pid |-> timed.pid, job_id |-> timed.job_id]]
      /\ UNCHANGED <<shell, now, deadline, status, proc, let_go>>
  BY SMTT(30) DEF timeout_insert
<1>2. /\ timed \in TimedType /\ c \in Nat /\ timed.pid \in Pids /\ timed.job_id \in Int
      /\ deadline[timed.pid] = c
      /\ DOMAIN timeout_list \subseteq Nat
      /\ \A t \in DOMAIN timeout_list : /\ deadline[timeout_list[t].pid] = t
                                        /\ timeout_list[t].pid \in Pids
                                        /\ timeout_list[t] \in [pid: Pids, job_id: Int]
  BY <1>1, SMTT(30) DEF TimerInv, TimedType
<1> HIDE DEF c
<1>3. /\ DOMAIN timeout_list' = DOMAIN timeout_list \cup {c}
      /\ \A t \in DOMAIN timeout_list : timeout_list'[t] = timeout_list[t]
      /\ c \notin DOMAIN timeout_list => timeout_list'[c] = [pid |-> timed.pid, job_id |-> timed.job_id]
  BY <1>1, SMTT(30)
<1>4. timeout_list' \in [DOMAIN timeout_list' -> [pid: Pids, job_id: Int]]
  BY <1>1, <1>2, SMTT(30)
<1>5. \A t \in DOMAIN timeout_list' : deadline[timeout_list'[t].pid] = t
  BY <1>2, <1>3, SMTT(30)
<1>6. timed' \in TimedType
  BY <1>1, PidsArePositive, SMTT(30) DEF NoTimer, TimedType
<1>7. TimerInv'
  BY <1>1, <1>2, <1>3, <1>4, <1>5, <1>6, SMTT(30) DEF TimerInv, Born
<1>8. DeadlinesKept'
  <2> SUFFICES ASSUME NEW p \in Pids, deadline[p] # None, deadline[p] > now
               PROVE  \/ \E t \in DOMAIN timeout_list' : timeout_list'[t].pid = p
                      \/ \E q \in Pids \ {p} : deadline[q] = deadline[p]
    BY <1>1, ZenonT(30) DEF DeadlinesKept
  <2>1. CASE p = timed.pid
    <3>1. CASE c \in DOMAIN timeout_list
      <4>1. PICK q \in Pids : q = timeout_list[c].pid /\ deadline[q] = c
        BY <3>1, <1>2, ZenonT(30)
      <4>2. deadline[q] = deadline[p]
        BY <2>1, <4>1, <1>2, ZenonT(30)
      <4>3. c \in DOMAIN timeout_list' /\ timeout_list'[c].pid = q
        BY <3>1, <4>1, <1>3, ZenonT(30)
      <4> QED BY <4>2, <4>3, ZenonT(30)
    <3>2. CASE c \notin DOMAIN timeout_list
      <4>1. c \in DOMAIN timeout_list' /\ timeout_list'[c] = [pid |-> timed.pid, job_id |-> timed.job_id]
        BY <3>2, <1>3, ZenonT(30)
      <4>2. [pid |-> timed.pid, job_id |-> timed.job_id].pid = timed.pid
        BY SMTT(30)
      <4> QED BY <2>1, <4>1, <4>2, ZenonT(30)
    <3> QED BY <3>1, <3>2, SMTT(30)
  <2>2. CASE p # timed.pid
    BY <2>2, <1>3, SMTT(30) DEF DeadlinesKept
  <2> QED BY <2>1, <2>2, SMTT(30)
<1>9. ListInv'
  BY <1>1, TimerStepList, SMTT(30)
<1> QED BY <1>7, <1>8, <1>9

\* The clock.
LEMMA Ticks ==
  ASSUME TInv, Tick
  PROVE  TInv'
<1> USE DEF TInv
<1>1. /\ now' = now + 1
      /\ UNCHANGED <<shell, pc, status, proc, let_go, timeout_list, timed, deadline>>
  BY SMTT(30) DEF Tick
<1>2. now \in Nat /\ now' \in Nat /\ deadline \in [Pids -> Nat \cup {None}]
  BY <1>1, SMTT(30) DEF TimerInv
<1>3. TimerInv'
  BY <1>1, <1>2, SMTT(30) DEF TimerInv, Born
<1>4. \A p \in Pids : deadline[p] # None /\ deadline[p] > now' => deadline[p] > now
  BY <1>1, <1>2, SMTT(30)
<1>5. DeadlinesKept'
  BY <1>1, <1>4, SMTT(30) DEF DeadlinesKept
<1>6. ListInv'
  BY <1>1, TimerStepList, SMTT(30)
<1> QED BY <1>3, <1>5, <1>6

\* The alarm handler pops the entries that are due and ends only processes whose
\* deadline has come.
LEMMA AlarmFires ==
  ASSUME TInv, alarmHandler
  PROVE  /\ TInv'
         /\ \A p \in Pids : proc'[p] = "dying" /\ proc[p] # "dying" =>
                            deadline[p] # None /\ deadline[p] <= now
<1> USE DEF TInv
<1> DEFINE Expired(p) == \E t \in Due : timeout_list[t].pid = p
           left == DOMAIN timeout_list \ Due
<1>1. /\ UNCHANGED <<foreground_job, wait_job_pid, exit_shell, timed, now, deadline, pc, status,
                     let_go>>
      /\ jobs_list' = removeJobs(jobs_list, {timeout_list[t].job_id : t \in Due})
      /\ timeout_list' = Restrict(timeout_list, left)
      /\ proc' = [p \in Pids |-> CASE Expired(p) /\ proc[p] = "zombie" -> "reaped"
                                   [] Expired(p) /\ proc[p] # "zombie" -> Signalled("SIGKILL", proc[p])
                                   [] OTHER -> proc[p]]
  BY SMTT(30) DEF alarmHandler
<1>2. \A t \in Due : /\ t \in DOMAIN timeout_list /\ t \in Nat /\ t <= now
                     /\ deadline[timeout_list[t].pid] = t
  BY SMTT(30) DEF Due, TimerInv
<1>3. \A p \in Pids : Expired(p) => deadline[p] # None /\ deadline[p] <= now
  BY <1>2, PidsArePositive, SMTT(30)
<1>4. proc \in [Pids -> States]
  BY SMTT(30) DEF ListInv, Types
<1> HIDE DEF Expired
<1>5. /\ \A p \in Pids : Expired(p) \/ proc'[p] = proc[p]
      /\ \A p \in Pids : proc'[p] \in States
      /\ \A p \in Pids : proc'[p] = "none" <=> proc[p] = "none"
      /\ \A p \in Pids : proc'[p] = "running" => proc[p] = "running"
      /\ \A p \in Pids : proc'[p] = "stopped" => proc[p] = "stopped"
  <2> SUFFICES ASSUME NEW p \in Pids
               PROVE  /\ Expired(p) \/ proc'[p] = proc[p]
                      /\ proc'[p] \in States
                      /\ proc'[p] = "none" <=> proc[p] = "none"
                      /\ proc'[p] = "running" => proc[p] = "running"
                      /\ proc'[p] = "stopped" => proc[p] = "stopped"
    OBVIOUS
  <2>1. CASE ~Expired(p)
    BY <2>1, <1>1, <1>4, SMTT(30)
  <2>2. CASE Expired(p) /\ proc[p] = "zombie"
    BY <2>2, <1>1, SMTT(30) DEF States
  <2>3. CASE Expired(p) /\ proc[p] # "zombie"
    <3>1. proc'[p] = Signalled("SIGKILL", proc[p])
      BY <2>3, <1>1, SMTT(30)
    <3>2. proc[p] \in States
      BY <1>4, SMTT(30)
    <3> QED BY <2>3, <3>1, <3>2, SignalFacts, SMTT(30)
  <2> QED BY <2>1, <2>2, <2>3, SMTT(30)
<1>6. /\ DOMAIN jobs_list' \subseteq DOMAIN jobs_list
      /\ \A i \in DOMAIN jobs_list' : jobs_list'[i] = jobs_list[i]
      /\ jobs_list' \in [DOMAIN jobs_list' -> EntryType]
  BY <1>1, SMTT(30) DEF removeJobs, Restrict, ListInv, Types
<1>7. ListInv'
  <2>1. proc' \in [Pids -> States]
    BY <1>1, <1>5, SMTT(30)
  <2>2. Types'
    BY <1>1, <1>6, <2>1, ZenonT(30) DEF ListInv, Types
  <2>3. StoppedMarkTrue'
    BY <1>5, <1>6, ListedAreBorn, SMTT(30) DEF ListInv, StoppedMarkTrue
  <2>4. /\ wait_job_pid # None => pc' \notin {"prompt", "gone"} /\ (pc' = "clear" <=> pc = "clear")
        /\ pc' \in {"continue", "report", "clear"} => wait_job_pid # None
        /\ pc' \in {"report", "clear"} => proc'[wait_job_pid] # "running"
    BY <1>1, <1>5, SMTT(30) DEF ListInv, ForegroundApart, Types
  <2> QED BY <1>1, <1>5, <1>6, <2>2, <2>3, <2>4, Kept, SMTT(30)
<1>8. /\ DOMAIN timeout_list' = left
      /\ \A t \in left : timeout_list'[t] = timeout_list[t]
      /\ timeout_list' \in [DOMAIN timeout_list' -> [pid: Pids, job_id: Int]]
  BY <1>1, SMTT(30) DEF Restrict, TimerInv
<1>9. TimerInv'
  BY <1>1, <1>5, <1>8, ZenonT(30) DEF TimerInv, Born
<1>10. DeadlinesKept'
  <2> SUFFICES ASSUME NEW p \in Pids, deadline[p] # None, deadline[p] > now
               PROVE  \/ \E t \in DOMAIN timeout_list' : timeout_list'[t].pid = p
                      \/ \E q \in Pids \ {p} : deadline[q] = deadline[p]
                      \/ pc = "insert" /\ p = timed.pid
    BY <1>1, ZenonT(30) DEF DeadlinesKept
  <2>1. ASSUME NEW t \in DOMAIN timeout_list, timeout_list[t].pid = p
        PROVE  t \in left
    <3>1. deadline[p] \in Nat /\ now \in Nat
      BY DEF TimerInv
    <3> QED BY <1>2, <2>1, <3>1, SMTT(30)
  <2> QED BY <1>8, <2>1, SMTT(30) DEF DeadlinesKept
<1> QED BY <1>3, <1>5, <1>7, <1>9, <1>10, ZenonT(30)

-----------------------------------------------------------------------------
(* The theorems.                                                           *)

\* The shell starts with no jobs, no timers and no children.
LEMMA InitInv ==
  ASSUME Init
  PROVE  TInv /\ JInv
<1>1. DOMAIN jobs_list = {} /\ DOMAIN timeout_list = {}
  BY SMTT(30) DEF Init
<1>2. /\ jobs_list \in [DOMAIN jobs_list -> EntryType]
      /\ timeout_list \in [DOMAIN timeout_list -> [pid: Pids, job_id: Int]]
  BY SMTT(30) DEF Init
<1>3. Types
  BY <1>2, ZenonT(30) DEF Init, Types, States
<1>4. IdsBorn /\ ListInjective /\ ForegroundApart /\ StoppedMarkTrue
  BY <1>1, SMTT(30) DEF Init, IdsBorn, Born, ListInjective, ForegroundApart, Pending, StoppedMarkTrue
<1>5. TimerInv /\ DeadlinesKept
  BY <1>1, <1>2, SMTT(30) DEF Init, TimerInv, DeadlinesKept, TimedType, NoTimer, None
<1>6. WaitedFor /\ NoGhostJobs /\ EveryChildTracked
  BY <1>1, SMTT(30) DEF Init, WaitedFor, NoGhostJobs, EveryChildTracked, ListedPids
<1> QED BY <1>3, <1>4, <1>5, <1>6, SMTT(30) DEF TInv, JInv, ListInv

\* One step of the shell with timeout.
LEMMA TimeoutStep ==
  ASSUME TInv, [TimeoutNext]_vars
  PROVE  TInv'
<1>1. CASE [JobNext]_vars
  BY <1>1, ListStep, JobTimers, SMTT(30) DEF TInv
<1> QED
  BY <1>1, TimeoutStarts, TimeoutArms, TimeoutInserts, Ticks, AlarmFires, SMTT(30) DEF TimeoutNext

\* TInv holds in every state of the shell with timeout.
LEMMA TimeoutInv == TimeoutSpec => []TInv
<1>1. Init => TInv
  BY InitInv, SMTT(30)
<1>2. TInv /\ [TimeoutNext]_vars => TInv'
  BY TimeoutStep, SMTT(30)
<1> QED BY <1>1, <1>2, PTL DEF TimeoutSpec

\* JInv holds in every state of the shell without timeout.
LEMMA JobInv == JobSpec => []JInv
<1>1. Init => JInv
  BY InitInv, SMTT(30)
<1>2. JInv /\ [JobNext]_vars => JInv'
  BY JobStep
<1> QED BY <1>1, <1>2, PTL DEF JobSpec

\* Without timeout the shell does nothing that it would not do with it.
LEMMA JobsAreTimeouts == JobSpec => TimeoutSpec
<1>1. [JobNext]_vars => [TimeoutNext]_vars
  BY DEF TimeoutNext
<1> QED BY <1>1, PTL DEF JobSpec, TimeoutSpec

\* The jobs list is consistent in every state, whatever commands are given and
\* whenever ctrl-C, ctrl-Z and the alarm arrive: its types, one place for every
\* process, and stopped marks that tell the truth (ListConsistent).
THEOREM ListCorrect == TimeoutSpec => []ListConsistent
<1>1. TInv => ListConsistent
  <2> SUFFICES ASSUME TInv PROVE ListConsistent
    BY SMTT(30)
  <2>1. TypeOK
    <3>1. \A i \in DOMAIN jobs_list : i \in Nat \ {0} /\ jobs_list[i] \in EntryType
      BY PidsArePositive, SMTT(30) DEF TInv, ListInv, Types, IdsBorn
    <3>2. foreground_job \in EntryType \cup {Entry(None, None, FALSE)}
      BY PidsArePositive, ZenonT(30) DEF TInv, ListInv, Types, EntryType
    <3>3. \A t \in DOMAIN timeout_list : t \in Nat /\ timeout_list[t].pid \in Pids
      BY SMTT(30) DEF TInv, TimerInv
    <3> QED BY <3>1, <3>2, <3>3, ZenonT(30) DEF TypeOK, TInv, ListInv, Types, States
  <2>2. OnePlace
    <3>1. pc = "wait" => wait_job_pid \notin ListedPids
      BY ListedAreBorn, PidsArePositive, SMTT(30) DEF TInv, ListInv, ForegroundApart, Pending, ListedPids
    <3> QED BY <3>1, SMTT(30) DEF TInv, ListInv, IdsBorn, ListInjective, OnePlace
  <2> QED BY <2>1, <2>2, SMTT(30) DEF ListConsistent, TInv, ListInv
<1> QED BY <1>1, TimeoutInv, PTL

\* The same without timeout.
COROLLARY ListCorrectJobs == JobSpec => []ListConsistent
BY ListCorrect, JobsAreTimeouts, PTL

\* A job id is never larger than the number of children: the ids that fg, bg
\* and kill are given in this specification are all that can occur.
THEOREM IdsSuffice == TimeoutSpec => [](DOMAIN jobs_list \subseteq Ids)
<1>1. TInv => DOMAIN jobs_list \subseteq Ids
  BY SMTT(30) DEF TInv, ListInv, IdsBorn, Ids, Pids
<1> QED BY <1>1, TimeoutInv, PTL

\* Whoever reaps a child also removes its entry (NoGhostJobs).
THEOREM GhostsNever == JobSpec => []NoGhostJobs
<1>1. JInv => NoGhostJobs
  BY SMTT(30) DEF JInv
<1> QED BY <1>1, JobInv, PTL

\* The shell loses no child (EveryChildTracked).
THEOREM ChildrenTracked == JobSpec => []EveryChildTracked
<1>1. JInv => EveryChildTracked
  BY SMTT(30) DEF JInv
<1> QED BY <1>1, JobInv, PTL

\* A timed child that runs before its time is on the list of timeouts, or
\* shares its second with one (TimedJobsListed).
THEOREM TimedListed == TimeoutSpec => []TimedJobsListed
<1>1. TInv => TimedJobsListed
  BY SMTT(30) DEF TInv, DeadlinesKept, TimedJobsListed
<1> QED BY <1>1, TimeoutInv, PTL

\* The alarm handler ends no process before its own time, and sets the alarm for the
\* first of the timeouts that remain (AlarmKillsOnlyDue).
THEOREM AlarmCorrect == TimeoutSpec => AlarmKillsOnlyDue
<1> DEFINE OnlyDue == alarm_at # alarm_at' /\ pc' = pc =>
             /\ \A p \in Pids : proc'[p] = "dying" /\ proc[p] # "dying" =>
                                  deadline[p] # None /\ deadline[p] <= now
             /\ DOMAIN timeout_list' # {} => alarm_at' = Min(DOMAIN timeout_list')
<1>1. ASSUME TInv, [TimeoutNext]_vars
      PROVE  [OnlyDue]_vars
  <2>1. CASE JobNext
    <3>1. UNCHANGED alarm_at
      BY <2>1, ZenonT(30) DEF JobNext, Command, ShellStep, waitForJob, Gone, vars, ExternalCommand,
         PipeCommand, JobsCommand, SetcoreCommand, ForegroundCommand, BackgroundCommand,
         KillCommand, QuitCommand, fg_continue, wait_nothing, wait_child, wait_report,
         wait_clear, ctrlZHandler, ctrlCHandler, Exits, timers
    <3> QED BY <3>1, SMTT(30)
  <2>2. CASE \E delay \in Timeouts, bg \in BOOLEAN : TimeoutCommand(delay, bg)
    BY <2>2, SMTT(30) DEF TimeoutCommand
  <2>3. CASE timeout_arm
    BY <2>3, SMTT(30) DEF timeout_arm
  <2>4. CASE timeout_insert \/ Tick
    BY <2>4, SMTT(30) DEF timeout_insert, Tick
  <2>5. CASE alarmHandler
    <3>1. DOMAIN timeout_list' # {} => alarm_at' = Min(DOMAIN timeout_list')
      <4> DEFINE left == DOMAIN timeout_list \ Due
      <4>1. DOMAIN timeout_list' = left
        BY <2>5, SMTT(30) DEF alarmHandler, Restrict
      <4>2. alarm_at' = IF left = {} THEN None ELSE Min(left)
        BY <2>5, ZenonT(30) DEF alarmHandler
      <4> QED BY <4>1, <4>2, ZenonT(30)
    <3> QED BY <1>1, <2>5, <3>1, AlarmFires, SMTT(30)
  <2>6. CASE UNCHANGED vars
    BY <2>6, SMTT(30)
  <2> QED BY <1>1, <2>1, <2>2, <2>3, <2>4, <2>5, <2>6, SMTT(30) DEF TimeoutNext
<1>2. TInv /\ [TimeoutNext]_vars => [OnlyDue]_vars
  BY <1>1, SMTT(30)
<1>3. TimeoutSpec => [][OnlyDue]_vars
  BY <1>2, TimeoutInv, PTL DEF TimeoutSpec
<1> QED BY <1>3, SMTT(30) DEF AlarmKillsOnlyDue

=============================================================================
