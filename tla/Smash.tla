-------------------------------- MODULE Smash --------------------------------
(***************************************************************************)
(* Job control in the shell of hw1 (Commands.cpp, signals.cpp, smash.cpp): *)
(* the jobs list, the foreground job, the list of timeouts, and the three  *)
(* signal handlers, which may run between any two steps of the shell.      *)
(*                                                                         *)
(* A command line is abstracted to which command it is, its job id and     *)
(* whether it ends in `&'; one that fails its argument check changes       *)
(* nothing and is left out, and one that then names no job has only reaped *)
(* the finished jobs, as JobsCommand does.  The kernel's side is proc, the *)
(* state of each child, the clock and the pending alarm.  A process id is  *)
(* used once.                                                              *)
(***************************************************************************)
EXTENDS Integers, FiniteSets, FiniteSetsExt, Functions

CONSTANTS MaxPid,    \* how many children the shell may start
          MaxTime,   \* how far the clock runs
          Timeouts   \* the delays given to timeout

ASSUME SmashAssumption == MaxPid \in Nat /\ MaxTime \in Nat /\ Timeouts \subseteq Nat

VARIABLES jobs_list,              \* job id -> entry
          foreground_job,         \* the entry of the last foreground job
          wait_job_pid,           \* the process to wait for, or -1
          foreground_job_killed,
          exit_shell,
          timeout_list,           \* completion time -> entry
          min_completion_time,    \* the static variable of TimeoutCommand
          pc,                     \* where the shell stands
          status,                 \* what waitpid said
          timed,                  \* TimeoutCommand's locals
          proc,                   \* the state of each child
          now, alarm_at,          \* the clock, and when SIGALRM is due
          let_go,                 \* children the shell gave up on purpose
          deadline                \* when each timed child is to be killed

shell == <<jobs_list, foreground_job, wait_job_pid, foreground_job_killed, exit_shell>>
timers == <<timeout_list, min_completion_time, timed, now, alarm_at, deadline>>
vars == <<shell, timers, pc, status, proc, let_go>>

None == -1
Pids == 1 .. MaxPid
Entry(pid, job_id, stopped) == [pid |-> pid, job_id |-> job_id, stopped |-> stopped]

NoTimer == [pid |-> None, job_id |-> None, delay |-> 0, completion |-> 0]

Init ==
  /\ jobs_list = << >>
  /\ foreground_job = Entry(None, None, FALSE)
  /\ wait_job_pid = None
  /\ foreground_job_killed = FALSE
  /\ exit_shell = FALSE
  /\ timeout_list = << >>
  /\ min_completion_time = 0
  /\ pc = "prompt"
  /\ status = "exited"
  /\ timed = NoTimer
  /\ proc = [p \in Pids |-> "none"]
  /\ now = 0
  /\ alarm_at = None
  /\ let_go = {}
  /\ deadline = [p \in Pids |-> None]

-----------------------------------------------------------------------------
(* The kernel.                                                             *)

Unborn == {p \in Pids : proc[p] = "none"}
NewPid == Min(Unborn)

\* kill(2): SIGKILL takes effect later, SIGSTOP and SIGCONT at once, and so do SIGTSTP,
\* SIGTTIN and SIGTTOU ("SIGTSTP" for all three), which suspend the process: it stops,
\* and the shell has not meant it to.  A process that is stopped in one way or the other
\* is not stopped again.  Any other signal may or may not end the process, as it may
\* end by itself anyway.
Signalled(sig, state) ==
  CASE sig = "SIGKILL" /\ state \in {"running", "stopped", "suspended"} -> "dying"
    [] sig = "SIGSTOP" /\ state = "running" -> "stopped"
    [] sig = "SIGTSTP" /\ state = "running" -> "suspended"
    [] sig = "SIGCONT" /\ state \in {"stopped", "suspended"} -> "running"
    [] OTHER -> state

kill(pid, sig) == [proc EXCEPT ![pid] = Signalled(sig, @)]

Exits(p) ==
  /\ proc[p] \in {"running", "dying"}
  /\ proc' = [proc EXCEPT ![p] = "zombie"]
  /\ UNCHANGED <<shell, timers, pc, status, let_go>>

Tick ==
  /\ now < MaxTime
  /\ now' = now + 1
  /\ UNCHANGED <<shell, pc, status, proc, let_go, timeout_list,
                 min_completion_time, timed, alarm_at, deadline>>

-----------------------------------------------------------------------------
(* JobsList.                                                               *)

Last(jobs) == Max(DOMAIN jobs)

\* Mutant of addJob: the number of jobs, not the last id, gives the new id.
addJob_BySize(jobs, job) ==
  LET job_id == IF job.job_id = None THEN Cardinality(DOMAIN jobs) + 1 ELSE job.job_id
  IN  [i \in DOMAIN jobs \cup {job_id} |-> IF i = job_id THEN [job EXCEPT !.job_id = i]
                                           ELSE jobs[i]]

addJob(jobs, job) ==
  LET job_id == IF job.job_id # None THEN job.job_id
                ELSE IF jobs = << >> THEN 1 ELSE Last(jobs) + 1
  IN  [i \in DOMAIN jobs \cup {job_id} |-> IF i = job_id THEN [job EXCEPT !.job_id = i]
                                           ELSE jobs[i]]

removeJobs(jobs, ids) == Restrict(jobs, DOMAIN jobs \ ids)

\* The entries for which waitpid(pid, WNOHANG) returns pid.
Finished == {i \in DOMAIN jobs_list : proc[jobs_list[i].pid] = "zombie"}

\* Mutant of removeFinishedJobs: reaps the children but keeps the entries.
removeFinishedJobs_Keep == jobs_list

removeFinishedJobs == removeJobs(jobs_list, Finished)

Reaped == [p \in Pids |-> IF \E i \in Finished : jobs_list[i].pid = p
                          THEN "reaped" ELSE proc[p]]

StoppedJobs(jobs) == {i \in DOMAIN jobs : jobs[i].stopped}
getLastStoppedJob(jobs) == Max(StoppedJobs(jobs))

\* Every job is killed and waited for.
killAllJobs(jobs) == [p \in Pids |-> IF \E i \in DOMAIN jobs : jobs[i].pid = p
                                     THEN "reaped" ELSE Reaped[p]]

-----------------------------------------------------------------------------
(* The commands.  A command runs to its end, then main calls waitForJob.   *)

AtPrompt == pc = "prompt"

\* ExternalCommand::execute, the child being a background or foreground job.
Spawn(bg) ==
  /\ Unborn # {}
  /\ proc' = [proc EXCEPT ![NewPid] = "running"]
  /\ IF bg
     THEN /\ jobs_list' = addJob(jobs_list, Entry(NewPid, None, FALSE))
          /\ UNCHANGED <<foreground_job, wait_job_pid>>
     ELSE /\ foreground_job' = Entry(NewPid, None, FALSE)
          /\ wait_job_pid' = NewPid
          /\ UNCHANGED jobs_list
  /\ UNCHANGED <<foreground_job_killed, exit_shell>>

ExternalCommand(bg) ==
  /\ AtPrompt
  /\ Spawn(bg)
  /\ pc' = "wait"
  /\ UNCHANGED <<timers, status, let_go>>

\* Two external commands: the shell waits for the second one only.
PipeCommand ==
  /\ AtPrompt
  /\ Cardinality(Unborn) >= 2
  /\ LET second == Min(Unborn \ {NewPid})
     IN  /\ proc' = [proc EXCEPT ![NewPid] = "running", ![second] = "running"]
         /\ foreground_job' = Entry(second, None, FALSE)
         /\ wait_job_pid' = second
  /\ let_go' = let_go \cup {NewPid}
  /\ pc' = "wait"
  /\ UNCHANGED <<jobs_list, foreground_job_killed, exit_shell, timers, status>>

JobsCommand ==
  /\ AtPrompt
  /\ jobs_list' = removeFinishedJobs
  /\ proc' = Reaped
  /\ pc' = "wait"
  /\ UNCHANGED <<foreground_job, wait_job_pid, foreground_job_killed, exit_shell,
                 timers, status, let_go>>

\* Which core a job runs on is not part of the shell's state.
SetcoreCommand == JobsCommand

\* Mutant of ForegroundCommand: the job stays in the list.
ForegroundCommand_Keep(arg) ==
  LET jobs == removeFinishedJobs
      id == IF arg = None /\ jobs # << >> THEN Last(jobs) ELSE arg
  IN  /\ AtPrompt
      /\ id \in DOMAIN jobs
      /\ jobs_list' = jobs
      /\ proc' = Reaped
      /\ foreground_job' = jobs[id]
      /\ wait_job_pid' = jobs[id].pid
      /\ pc' = "continue"
      /\ UNCHANGED <<foreground_job_killed, exit_shell, timers, status, let_go>>

\* fg with a job id, or None for the last job; a signal may arrive before the
\* SIGCONT that follows.
ForegroundCommand(arg) ==
  LET jobs == removeFinishedJobs
      id == IF arg = None /\ jobs # << >> THEN Last(jobs) ELSE arg
  IN  /\ AtPrompt
      /\ id \in DOMAIN jobs
      /\ jobs_list' = removeJobs(jobs, {id})
      /\ proc' = Reaped
      /\ foreground_job' = jobs[id]
      /\ wait_job_pid' = jobs[id].pid
      /\ pc' = "continue"
      /\ UNCHANGED <<foreground_job_killed, exit_shell, timers, status, let_go>>

fg_continue ==
  /\ pc = "continue"
  /\ proc' = kill(foreground_job.pid, "SIGCONT")
  /\ pc' = "wait"
  /\ UNCHANGED <<shell, timers, status, let_go>>

\* Mutant of BackgroundCommand: the job is still marked as stopped.
BackgroundCommand_KeepFlag(arg) ==
  LET jobs == removeFinishedJobs
      id == IF arg = None /\ StoppedJobs(jobs) # {} THEN getLastStoppedJob(jobs) ELSE arg
  IN  /\ AtPrompt
      /\ id \in StoppedJobs(jobs)
      /\ jobs_list' = jobs
      /\ proc' = [Reaped EXCEPT ![jobs[id].pid] = Signalled("SIGCONT", @)]
      /\ pc' = "wait"
      /\ UNCHANGED <<foreground_job, wait_job_pid, foreground_job_killed, exit_shell,
                     timers, status, let_go>>

\* bg with a job id, or None for the last stopped job.
BackgroundCommand(arg) ==
  LET jobs == removeFinishedJobs
      id == IF arg = None /\ StoppedJobs(jobs) # {} THEN getLastStoppedJob(jobs) ELSE arg
  IN  /\ AtPrompt
      /\ id \in StoppedJobs(jobs)
      /\ jobs_list' = [jobs EXCEPT ![id].stopped = FALSE]
      /\ proc' = [Reaped EXCEPT ![jobs[id].pid] = Signalled("SIGCONT", @)]
      /\ pc' = "wait"
      /\ UNCHANGED <<foreground_job, wait_job_pid, foreground_job_killed, exit_shell,
                     timers, status, let_go>>

\* kill -sig id.  After SIGKILL the child may or may not be dead in time for
\* waitpid(WNOHANG); the entry goes in both cases.
KillCommand(sig, id) ==
  LET jobs == removeFinishedJobs
      pid == jobs[id].pid
  IN  /\ AtPrompt
      /\ id \in DOMAIN jobs
      /\ jobs_list' = CASE sig = "SIGSTOP" -> [jobs EXCEPT ![id].stopped = TRUE]
                        [] sig = "SIGCONT" -> [jobs EXCEPT ![id].stopped = FALSE]
                        [] sig = "SIGKILL" -> removeJobs(jobs, {id})
                        [] OTHER -> jobs
      /\ \/ proc' = [Reaped EXCEPT ![pid] = Signalled(sig, @)]
         \/ sig = "SIGKILL" /\ proc' = [Reaped EXCEPT ![pid] = "reaped"]
      /\ let_go' = IF sig = "SIGKILL" THEN let_go \cup {pid} ELSE let_go
      /\ pc' = "wait"
      /\ UNCHANGED <<foreground_job, wait_job_pid, foreground_job_killed, exit_shell,
                     timers, status>>

\* quit, or quit kill, which also kills and reaps every job.
QuitCommand(kill_jobs) ==
  LET jobs == removeFinishedJobs
  IN  /\ AtPrompt
      /\ jobs_list' = jobs
      /\ proc' = IF kill_jobs THEN killAllJobs(jobs) ELSE Reaped
      /\ exit_shell' = TRUE
      /\ pc' = "wait"
      /\ UNCHANGED <<foreground_job, wait_job_pid, foreground_job_killed, timers,
                     status, let_go>>

-----------------------------------------------------------------------------
(* timeout: the inner command, then the alarm, then the entry.             *)

TimeoutCommand(delay, bg) ==
  /\ AtPrompt
  /\ Spawn(bg)
  /\ timed' = [pid |-> NewPid, job_id |-> IF bg THEN Last(jobs_list') ELSE None,
               delay |-> delay, completion |-> 0]
  /\ pc' = "arm"
  /\ UNCHANGED <<timeout_list, min_completion_time, now, alarm_at, deadline, status, let_go>>

\* alarm(0) cancels the pending alarm.
timeout_arm ==
  /\ pc = "arm"
  /\ LET completion_time == now + timed.delay
     IN  /\ timed' = [timed EXCEPT !.completion = completion_time]
         /\ deadline' = [deadline EXCEPT ![timed.pid] = completion_time]
         /\ IF min_completion_time > completion_time \/ timeout_list = << >>
            THEN /\ alarm_at' = IF timed.delay = 0 THEN None ELSE completion_time
                 /\ min_completion_time' = completion_time
            ELSE UNCHANGED <<alarm_at, min_completion_time>>
  /\ pc' = "insert"
  /\ UNCHANGED <<shell, timeout_list, now, status, proc, let_go>>

\* Mutant of timeout_insert: under the time the alarm is set for.
timeout_insert_MinKey ==
  /\ pc = "insert"
  /\ timeout_list' = [t \in DOMAIN timeout_list \cup {min_completion_time} |->
                        IF t \in DOMAIN timeout_list THEN timeout_list[t]
                        ELSE [pid |-> timed.pid, job_id |-> timed.job_id]]
  /\ timed' = NoTimer
  /\ pc' = "wait"
  /\ UNCHANGED <<shell, min_completion_time, now, alarm_at, deadline, status, proc,
                 let_go>>

\* std::map::insert keeps the entry that is already there.
timeout_insert ==
  /\ pc = "insert"
  /\ timeout_list' = [t \in DOMAIN timeout_list \cup {timed.completion} |->
                        IF t \in DOMAIN timeout_list THEN timeout_list[t]
                        ELSE [pid |-> timed.pid, job_id |-> timed.job_id]]
  /\ timed' = NoTimer
  /\ pc' = "wait"
  /\ UNCHANGED <<shell, min_completion_time, now, alarm_at, deadline, status, proc,
                 let_go>>

-----------------------------------------------------------------------------
(* waitForJob.  A signal handler may run between its steps.                *)

NextPrompt == IF exit_shell THEN "gone" ELSE "prompt"

wait_nothing ==
  /\ pc = "wait"
  /\ wait_job_pid = None
  /\ pc' = NextPrompt
  /\ UNCHANGED <<shell, timers, status, proc, let_go>>

\* Mutant of wait_child: waitpid without WUNTRACED.
wait_child_NoUntraced ==
  /\ pc = "wait"
  /\ wait_job_pid # None
  /\ proc[wait_job_pid] = "zombie"
  /\ status' = "exited"
  /\ proc' = [proc EXCEPT ![wait_job_pid] = "reaped"]
  /\ pc' = "report"
  /\ UNCHANGED <<shell, timers, let_go>>

\* waitpid(WUNTRACED); if the child was reaped by somebody else it fails and
\* leaves status uninitialised.
wait_child ==
  /\ pc = "wait"
  /\ wait_job_pid # None
  /\ \/ /\ proc[wait_job_pid] = "zombie"
        /\ status' = "exited"
        /\ proc' = [proc EXCEPT ![wait_job_pid] = "reaped"]
     \/ /\ proc[wait_job_pid] \in {"stopped", "suspended"}
        /\ status' = "stopped"
        /\ UNCHANGED proc
     \/ /\ proc[wait_job_pid] = "reaped"
        /\ status' \in {"exited", "stopped"}
        /\ UNCHANGED proc
  /\ pc' = "report"
  /\ UNCHANGED <<shell, timers, let_go>>

wait_report ==
  /\ pc = "report"
  /\ IF status = "stopped"
     THEN /\ foreground_job' = [foreground_job EXCEPT !.stopped = TRUE]
          /\ jobs_list' = addJob(jobs_list, foreground_job')
          /\ UNCHANGED foreground_job_killed
     ELSE /\ foreground_job_killed' = FALSE
          /\ UNCHANGED <<foreground_job, jobs_list>>
  /\ pc' = "clear"
  /\ UNCHANGED <<wait_job_pid, exit_shell, timers, status, proc, let_go>>

wait_clear ==
  /\ pc = "clear"
  /\ wait_job_pid' = None
  /\ pc' = NextPrompt
  /\ UNCHANGED <<jobs_list, foreground_job, foreground_job_killed, exit_shell,
                 timers, status, proc, let_go>>

-----------------------------------------------------------------------------
(* The signal handlers, at any time while the shell runs.                  *)

ctrlZHandler ==
  /\ pc # "gone"
  /\ wait_job_pid # None
  /\ proc' = kill(wait_job_pid, "SIGSTOP")
  /\ UNCHANGED <<shell, timers, pc, status, let_go>>

ctrlCHandler ==
  /\ pc # "gone"
  /\ wait_job_pid # None
  /\ proc' = kill(wait_job_pid, "SIGKILL")
  /\ foreground_job_killed' = TRUE
  /\ UNCHANGED <<jobs_list, foreground_job, wait_job_pid, exit_shell, timers, pc,
                 status, let_go>>

\* Mutant of Due: one second early.
Due_Early == {t \in DOMAIN timeout_list : t - now <= 1}

\* The entries whose time is less than a second away.
Due == {t \in DOMAIN timeout_list : t - now < 1}

\* A due child that has ended is reaped, any other is killed; the jobs are
\* removed by the ids they had when the timeouts were set.
alarmHandler ==
  LET Expired(p) == \E t \in Due : timeout_list[t].pid = p
      left == DOMAIN timeout_list \ Due
  IN  /\ pc # "gone"
      /\ alarm_at # None /\ alarm_at <= now
      /\ proc' = [p \in Pids |-> CASE Expired(p) /\ proc[p] = "zombie" -> "reaped"
                                   [] Expired(p) /\ proc[p] # "zombie" -> Signalled("SIGKILL", proc[p])
                                   [] OTHER -> proc[p]]
      /\ jobs_list' = removeJobs(jobs_list, {timeout_list[t].job_id : t \in Due})
      /\ timeout_list' = Restrict(timeout_list, left)
      /\ alarm_at' = IF left = {} THEN None ELSE Min(left)
      /\ UNCHANGED <<foreground_job, wait_job_pid, foreground_job_killed, exit_shell,
                     min_completion_time, timed, now, deadline, pc, status, let_go>>

-----------------------------------------------------------------------------
Ids == 1 .. MaxPid

Command ==
  \/ \E bg \in BOOLEAN : ExternalCommand(bg)
  \/ PipeCommand
  \/ JobsCommand \/ SetcoreCommand
  \/ \E arg \in Ids \cup {None} : ForegroundCommand(arg)
  \/ \E arg \in Ids \cup {None} : BackgroundCommand(arg)
  \/ \E sig \in {"SIGSTOP", "SIGTSTP", "SIGCONT", "SIGKILL", "other"}, id \in Ids : KillCommand(sig, id)
  \/ \E kill_jobs \in BOOLEAN : QuitCommand(kill_jobs)

waitForJob == wait_nothing \/ wait_child \/ wait_report \/ wait_clear

ShellStep == fg_continue \/ waitForJob

Gone == pc = "gone" /\ UNCHANGED vars

\* Everything but timeout.
JobNext ==
  \/ Command
  \/ ShellStep
  \/ ctrlZHandler \/ ctrlCHandler
  \/ \E p \in Pids : Exits(p)
  \/ Gone

TimeoutNext ==
  \/ JobNext
  \/ \E delay \in Timeouts, bg \in BOOLEAN : TimeoutCommand(delay, bg)
  \/ timeout_arm \/ timeout_insert
  \/ alarmHandler
  \/ Tick

JobSpec == Init /\ [][JobNext]_vars

TimeoutSpec == Init /\ [][TimeoutNext]_vars

(* The shell is scheduled, and a process that was sent SIGKILL dies.       *)
(* Nothing makes any other process end or a user type.                     *)
FairJobSpec ==
  /\ JobSpec
  /\ WF_vars(ShellStep)
  /\ \A p \in Pids : WF_vars(proc[p] = "dying" /\ Exits(p))

-----------------------------------------------------------------------------
(* Properties.                                                             *)

ListedPids == {jobs_list[i].pid : i \in DOMAIN jobs_list}

EntryType == [pid: Pids, job_id: Nat \cup {None}, stopped: BOOLEAN]

\* Every variable keeps its type.
TypeOK ==
  /\ \A i \in DOMAIN jobs_list : i \in Nat \ {0} /\ jobs_list[i] \in EntryType
  /\ foreground_job \in EntryType \cup {Entry(None, None, FALSE)}
  /\ wait_job_pid \in Pids \cup {None}
  /\ pc \in {"prompt", "continue", "arm", "insert", "wait", "report", "clear", "gone"}
  /\ \A t \in DOMAIN timeout_list : t \in Nat /\ timeout_list[t].pid \in Pids
  /\ proc \in [Pids -> {"none", "running", "stopped", "suspended", "dying", "zombie", "reaped"}]

\* No entry of the jobs list outlives its process for good: whoever reaps a
\* child also removes its entry, or removeFinishedJobs would keep it for ever.
NoGhostJobs == ~exit_shell => \A p \in ListedPids : proc[p] # "reaped"

\* An entry sits under its own id, no two entries share a process, and the
\* process the shell is waiting for is not listed as a background job.
OnePlace ==
  /\ \A i \in DOMAIN jobs_list : jobs_list[i].job_id = i
  /\ \A i, j \in DOMAIN jobs_list : jobs_list[i].pid = jobs_list[j].pid => i = j
  /\ pc = "wait" => wait_job_pid \notin ListedPids

\* The shell loses no child: each one is a listed job, the job it waits for,
\* or one it let go (the first of a pipe, a job it sent SIGKILL).  A job that
\* is stopped again and goes back under its old id displaces no other.
EveryChildTracked ==
  \A p \in Pids :
    proc[p] \in {"none", "reaped"}
      \/ p \in ListedPids \cup let_go \cup {wait_job_pid}

\* The stopped mark of an entry, set and cleared in five places, tells what the
\* process does: fg, bg, kill and ctrl-Z in any order leave no job that is
\* marked as stopped but runs, or the other way round.  (A job that kill has suspended
\* with SIGTSTP, SIGTTIN or SIGTTOU is not marked, and bg does not take it.)
StoppedMarkTrue ==
  \A i \in DOMAIN jobs_list :
    /\ jobs_list[i].stopped => proc[jobs_list[i].pid] # "running"
    /\ proc[jobs_list[i].pid] = "stopped" => jobs_list[i].stopped

\* The jobs list is consistent: its types, one place for every process, true marks.
ListConsistent == TypeOK /\ OnePlace /\ StoppedMarkTrue

\* A ctrl-C or ctrl-Z that hits the job the shell waits for brings the prompt
\* back, whatever the job does.
SignalReturnsPrompt ==
  (pc = "wait" /\ \E p \in Pids : wait_job_pid = p /\ proc[p] \in {"dying", "stopped"})
    ~> pc \in {"prompt", "gone"}

\* The alarm handler, which pops every timeout that is due, ends no process before
\* its own time and leaves the alarm set for the first of the timeouts that remain.
AlarmKillsOnlyDue ==
  [][alarm_at # alarm_at' /\ pc' = pc =>
       /\ \A p \in Pids : proc'[p] = "dying" /\ proc[p] # "dying" =>
                            deadline[p] # None /\ deadline[p] <= now
       /\ DOMAIN timeout_list' # {} => alarm_at' = Min(DOMAIN timeout_list')]_vars

\* "not a built-in so we can add it and send kill signal to it when time comes"
\* (Commands.cpp:453): a timed child that runs before its time is on the list of
\* timeouts, whatever was popped or inserted around it.  The list is a map from
\* completion times, so of two children of the same second it keeps only one.
TimedJobsListed ==
  pc # "insert" => \A p \in Pids :
    deadline[p] # None /\ deadline[p] > now /\ proc[p] = "running" =>
      \/ \E t \in DOMAIN timeout_list : timeout_list[t].pid = p
      \/ \E q \in Pids \ {p} : deadline[q] = deadline[p]
=============================================================================
