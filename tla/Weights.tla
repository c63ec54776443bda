------------------------------- MODULE Weights -------------------------------
(***************************************************************************)
(* The weights of processes (kernel/hw2.c): a weight in every task, and    *)
(* the system calls that set it, sum it over the leaves below the caller   *)
(* and find the heaviest process above the caller.                         *)
(*                                                                         *)
(* The walk to the heaviest process takes no lock, so it is one step per   *)
(* task, between which other processes fork, exit, are waited for and set  *)
(* their weights.  A task that was released keeps its fields: its memory is *)
(* not reused while a walk may still read it.  The sum over the leaves is   *)
(* taken in one step.                                                      *)
(***************************************************************************)
EXTENDS Integers, FiniteSets, FiniteSetsExt

CONSTANTS Pids,           \* 0, the idle task; 1, init; 2, kthreadd; and others
          WeightValues    \* the weights that processes ask for

ASSUME PidsAssumption == 0 .. 2 \subseteq Pids /\ Pids \subseteq Nat /\ IsFiniteSet(Pids)

VARIABLES tasks,          \* the task_struct of every process
          walk            \* the call of sys_get_heaviest_ancestor being executed

Task(state, real_parent, weight) ==
  [state |-> state, real_parent |-> real_parent, weight |-> weight]
NoTask == Task("none", 0, 0)
NoWalk == [by |-> 0, at |-> 0, max_pid |-> 1, max_weight |-> -1, above |-> {}, quiet |-> FALSE]

\* The idle task is its own parent.
WeightsInit ==
  /\ tasks = [pid \in Pids |-> IF pid = 0 THEN Task("live", 0, 0) ELSE NoTask]
  /\ walk = NoWalk

Live(pid) == tasks[pid].state = "live"
Users == {pid \in Pids : Live(pid) /\ pid \notin {0, 2, walk.by}}
children(pid) ==
  {c \in Pids \ {0} : tasks[c].real_parent = pid /\ tasks[c].state \in {"live", "zombie"}}
Unborn == {pid \in Pids : tasks[pid].state = "none"}

\* The tasks changed: a walk that is under way may see some of them before and
\* some after.
Disturb == walk' = [walk EXCEPT !.quiet = FALSE]

-----------------------------------------------------------------------------
(* Processes.                                                              *)

\* A new task is a copy of its parent, the weight included.
kernel_thread(parent, pid) ==
  /\ tasks' = [tasks EXCEPT ![pid] = Task("live", parent, tasks[parent].weight)]
  /\ Disturb

fork(pid) ==
  /\ pid \in Users
  /\ Unborn # {}
  /\ kernel_thread(pid, Min(Unborn))

\* The kernel starts a user program on its own behalf: a child of kthreadd.
call_usermodehelper ==
  /\ Unborn # {}
  /\ kernel_thread(2, Min(Unborn))

\* A process ends; its children, ended ones included, go to init.
exit(pid) ==
  /\ pid \in Users \ {1}
  /\ tasks' = [c \in Pids |->
                 IF c = pid THEN [tasks[c] EXCEPT !.state = "zombie"]
                 ELSE IF c \in children(pid) THEN [tasks[c] EXCEPT !.real_parent = 1]
                 ELSE tasks[c]]
  /\ Disturb

wait(pid) ==
  /\ tasks[pid].state = "zombie"
  /\ tasks' = [tasks EXCEPT ![pid].state = "gone"]
  /\ Disturb

-----------------------------------------------------------------------------
(* The system calls.                                                       *)

sys_set_weight(pid, weight) ==
  /\ pid \in Users
  /\ weight >= 0
  /\ tasks' = [tasks EXCEPT ![pid].weight = weight]
  /\ Disturb

\* Mutant of get_child_leaf_sum: a process with children counts as well.
RECURSIVE get_child_leaf_sum_Inner(_)
get_child_leaf_sum_Inner(root) ==
  tasks[root].weight + MapThenSumSet(get_child_leaf_sum_Inner, children(root))

RECURSIVE get_child_leaf_sum(_)
get_child_leaf_sum(root) ==
  IF children(root) = {} THEN tasks[root].weight
  ELSE MapThenSumSet(get_child_leaf_sum, children(root))

ECHILD == 10
sys_get_leaf_children_sum(pid) ==
  IF children(pid) = {} THEN -ECHILD ELSE get_child_leaf_sum(pid)

Ancestors(pid) ==
  LET up[n \in 0 .. Cardinality(Pids)] == IF n = 0 THEN pid ELSE tasks[up[n - 1]].real_parent
  IN  {up[n] : n \in 0 .. Cardinality(Pids)}

sys_get_heaviest_ancestor(pid) ==
  /\ pid \in Users
  /\ walk = NoWalk
  /\ walk' = [NoWalk EXCEPT !.by = pid, !.at = pid, !.above = Ancestors(pid), !.quiet = TRUE]
  /\ UNCHANGED tasks

Heavier(weight) == weight > walk.max_weight

\* Mutant of heaviest_ancestor_weight: begin again when something has changed.
heaviest_ancestor_weight_Retry ==
  LET task == tasks[walk.at]
      up == [walk EXCEPT !.at = task.real_parent]
  IN  /\ walk.by # 0 /\ walk.at # 1
      /\ walk' = IF ~walk.quiet
                 THEN [NoWalk EXCEPT !.by = walk.by, !.at = walk.by, !.quiet = TRUE,
                                     !.above = Ancestors(walk.by)]
                 ELSE IF Heavier(task.weight)
                 THEN [up EXCEPT !.max_pid = walk.at, !.max_weight = task.weight]
                 ELSE up
      /\ UNCHANGED tasks

\* One turn of the loop.
heaviest_ancestor_weight ==
  LET task == tasks[walk.at]
      up == [walk EXCEPT !.at = task.real_parent]
  IN  /\ walk.by # 0 /\ walk.at # 1
      /\ walk' = IF Heavier(task.weight)
                 THEN [up EXCEPT !.max_pid = walk.at, !.max_weight = task.weight]
                 ELSE up
      /\ UNCHANGED tasks

heaviest_return ==
  /\ walk.by # 0 /\ walk.at = 1
  /\ walk' = NoWalk
  /\ UNCHANGED tasks

WalkStep == heaviest_ancestor_weight \/ heaviest_return

WeightsStep ==
  \/ \E pid \in Pids : \/ fork(pid) \/ exit(pid) \/ wait(pid)
                       \/ \E weight \in WeightValues : sys_set_weight(pid, weight)
                       \/ sys_get_heaviest_ancestor(pid)
  \/ call_usermodehelper

-----------------------------------------------------------------------------
(* Properties.                                                             *)

WeightsTypeOK ==
  /\ tasks \in [Pids -> [state : {"none", "live", "zombie", "gone"},
                         real_parent : Pids, weight : Nat]]
  /\ walk.at \in Pids /\ walk.max_pid \in Pids

Below(pid) == {q \in Pids : q # pid /\ tasks[q].state \in {"live", "zombie"} /\ pid \in Ancestors(q)}

\* What get_leaf_children_sum adds up for any process, after any forks, exits and
\* reparenting, is the weights of the processes below it that have no children,
\* ended ones that nobody has waited for included, each once.
LeafSumRight ==
  \A pid \in Pids \ {0} : Live(pid) =>
    sys_get_leaf_children_sum(pid) =
      IF Below(pid) = {} THEN -ECHILD
      ELSE MapThenSumSet(LAMBDA q : tasks[q].weight, {q \in Below(pid) : children(q) = {}})

\* When a walk is over it has found a process that was the caller or above it when
\* the call was made, whatever others did in between; if nothing changed it is the
\* nearest of the heaviest, init not counted.
HeaviestRight ==
  walk.by # 0 /\ walk.at = 1 =>
    /\ walk.max_pid \in walk.above
    /\ walk.quiet /\ walk.by # 1 =>
         \A q \in walk.above \ Ancestors(1) :
           \/ tasks[q].weight < tasks[walk.max_pid].weight
           \/ tasks[q].weight = tasks[walk.max_pid].weight /\ q \in Ancestors(walk.max_pid)

\* Both system calls answer what they should, and no weight is negative.
AnswersRight == WeightsTypeOK /\ LeafSumRight /\ HeaviestRight

\* A call to get_heaviest_ancestor returns, although nothing keeps the processes
\* above the caller in place.  (A program that the kernel itself started is not
\* below init: its walk never comes to process 1 and does not end.)
WalkEnds == (walk.by # 0 /\ 1 \in walk.above) ~> walk.by = 0
=============================================================================
