--------------------------------- MODULE Boot ---------------------------------
(***************************************************************************)
(* The start of the kernel (init/main.c), up to the processes whose        *)
(* weights kernel/hw2.c keeps: the command line becomes the arguments of    *)
(* init, the boot thread makes init and kthreadd and becomes the idle task, *)
(* and init runs the initcalls and then a program, all of it interleaved.  *)
(*                                                                         *)
(* A word of the command line has a kind: "arg", name alone; "env",         *)
(* name=value; "module", with a dot in its name; "early", an early_param;   *)
(* "init", "rdinit" and "blacklist", the __setup options of this file; and  *)
(* "--".  The subsystems that start_kernel initialises are left out.        *)
(***************************************************************************)
EXTENDS Weights, Sequences, SequencesExt

CONSTANTS CommandLines,     \* the command lines the kernel may be given
          MAX_INIT_ARGS,    \* CONFIG_INIT_ENV_ARG_LIMIT, for arguments and environment
          Levels,           \* the initcalls, the ones before SMP first, by level
          Followed          \* the command lines after which processes are followed

ASSUME ArgsAssumption == MAX_INIT_ARGS \in Nat /\ MAX_INIT_ARGS >= 2

VARIABLES command_line,
          early,            \* how many early parameters were handled, and whether all were
          parsed, params,   \* the words that were parsed, and what they have set
          system_state,
          irqs,             \* whether interrupts are enabled
          boot, init,       \* where the boot thread and init are
          kthreadd_task,    \* the pid of kthreadd, or 0
          kthreadd_done,    \* whether the completion is complete
          initmem,          \* whether the __init sections are still there
          next,             \* how many of the initcalls were done
          ran,              \* the initcalls that were called, in their order
          ramdisk,          \* whether ramdisk_execute_command is set
          tried             \* the programs that could not be executed, in their order

options == <<command_line, early, parsed, params>>
threads == <<boot, init>>
progress == <<next, ran, ramdisk, tried>>
handover == <<kthreadd_task, kthreadd_done, initmem, system_state>>
weights == <<tasks, walk>>
vars == <<options, irqs, threads, progress, handover, weights>>

-----------------------------------------------------------------------------
(* The command line.                                                       *)

Word(kind, name) == [kind |-> kind, name |-> name]
NULL == Word("null", "")
Default(kind) == Word(kind, "default")

\* argv_init and envp_init with the slot for the last NULL.
Slots(first) ==
  [i \in 0 .. MAX_INIT_ARGS + 1 |-> IF i < Len(first) THEN first[i + 1] ELSE NULL]

NoParams ==
  [argv_init |-> Slots(<<Default("init")>>),
   envp_init |-> Slots(<<Word("env", "HOME"), Word("env", "TERM")>>),
   panic_later |-> FALSE, execute_command |-> FALSE, rdinit |-> FALSE,
   blacklist |-> {}]

Dashes(line) == {i \in DOMAIN line : line[i].kind = "--"}
before_dashes(line) == SubSeq(line, 1, Min(Dashes(line) \cup {Len(line) + 1}) - 1)
after_dashes(line) ==
  before_dashes(SubSeq(line, Min(Dashes(line) \cup {Len(line)}) + 1, Len(line)))

do_early_param(line) ==
  Cardinality({i \in DOMAIN before_dashes(line) : line[i].kind = "early"})

parse_early_param(e, line) ==
  IF e.done THEN e ELSE [count |-> e.count + do_early_param(line), done |-> TRUE]

\* Mutant of cleared: the arguments are kept.
cleared_Keep(argv) == argv

\* init= and rdinit= forget the arguments so far, but for the one in the last slot.
cleared(argv) == [i \in DOMAIN argv |-> IF i \in 1 .. MAX_INIT_ARGS - 1 THEN NULL ELSE argv[i]]

init_setup(p) == [p EXCEPT !.execute_command = TRUE, !.argv_init = cleared(@)]
rdinit_setup(p) == [p EXCEPT !.rdinit = TRUE, !.argv_init = cleared(@)]
initcall_blacklist(p, name) == [p EXCEPT !.blacklist = @ \cup {name}]

FirstNull(argv) == Min({i \in DOMAIN argv : argv[i] = NULL})

set_arg(p, word) ==
  LET i == FirstNull(p.argv_init)
  IN  [p EXCEPT !.panic_later = i > MAX_INIT_ARGS, !.argv_init[i] = word]

\* A variable takes the place of one of its name.
set_env(p, word) ==
  LET envp == p.envp_init
      i == Min({k \in DOMAIN envp : envp[k] = NULL \/ envp[k].name = word.name})
  IN  [p EXCEPT !.panic_later = i >= MAX_INIT_ARGS /\ envp[MAX_INIT_ARGS] # NULL,
                !.envp_init[i] = word]

\* The setup function of the option is called; an early one has had its call.
obsolete_checksetup(p, word) ==
  CASE word.kind = "init" -> init_setup(p)
    [] word.kind = "rdinit" -> rdinit_setup(p)
    [] word.kind = "blacklist" -> initcall_blacklist(p, word.name)
    [] word.kind = "early" -> p

unknown_bootoption(p, word) ==
  CASE word.kind \in {"init", "rdinit", "blacklist", "early"} -> obsolete_checksetup(p, word)
    [] word.kind = "env" /\ ~p.panic_later -> set_env(p, word)
    [] word.kind = "arg" /\ ~p.panic_later -> set_arg(p, word)
    [] OTHER -> p

\* What stands after -- goes to init as it is.
set_init_arg(p, word) ==
  IF p.panic_later THEN p
  ELSE IF FirstNull(p.argv_init) > MAX_INIT_ARGS THEN [p EXCEPT !.panic_later = TRUE]
  ELSE set_arg(p, word)

\* parse_args gives the words one after the other to a function and stops at --: those
\* before it go to the first function, and those after it, up to another --, to the
\* second one.
parse_args(p, line, i) ==
  LET n == Len(before_dashes(line))
  IN  IF i <= n THEN unknown_bootoption(p, line[i])
      ELSE IF i - (n + 1) \in DOMAIN after_dashes(line) THEN set_init_arg(p, line[i])
      ELSE p

Init ==
  /\ command_line \in CommandLines
  /\ early = [count |-> 0, done |-> FALSE]
  /\ parsed = 0 /\ params = NoParams
  /\ system_state = "BOOTING"
  /\ irqs = FALSE
  /\ boot = "setup_arch" /\ init = "unborn"
  /\ kthreadd_task = 0 /\ kthreadd_done = FALSE /\ initmem = TRUE
  /\ next = 0 /\ ran = << >> /\ ramdisk = FALSE /\ tried = << >>
  /\ WeightsInit

-----------------------------------------------------------------------------
(* The boot thread.                                                        *)

\* Some architectures parse the early parameters in setup_arch, the others do not.
setup_arch ==
  /\ boot = "setup_arch"
  /\ early' \in {early, parse_early_param(early, command_line)}
  /\ boot' = "early"
  /\ UNCHANGED <<command_line, parsed, params, irqs, init, progress, handover, weights>>

start_kernel_early ==
  /\ boot = "early"
  /\ early' = parse_early_param(early, command_line)
  /\ boot' = "start_kernel"
  /\ UNCHANGED <<command_line, parsed, params, irqs, init, progress, handover, weights>>

parse_word ==
  /\ boot = "start_kernel"
  /\ parsed < Len(command_line)
  /\ params' = parse_args(params, command_line, parsed + 1)
  /\ parsed' = parsed + 1
  /\ UNCHANGED <<command_line, early, irqs, threads, progress, handover, weights>>

start_kernel ==
  /\ boot = "start_kernel"
  /\ parsed = Len(command_line)
  /\ irqs' = TRUE
  /\ boot' = IF params.panic_later THEN "panic" ELSE "init"
  /\ UNCHANGED <<options, init, progress, handover, weights>>

rest_init_init ==
  /\ boot = "init"
  /\ kernel_thread(0, 1)
  /\ init' = "wait"
  /\ boot' = "weight"
  /\ UNCHANGED <<options, irqs, progress, handover>>

rest_init_weight ==
  /\ boot = "weight"
  /\ tasks' = [tasks EXCEPT ![1].weight = 0]
  /\ boot' = "kthreadd"
  /\ UNCHANGED <<options, irqs, init, progress, handover, walk>>

rest_init_kthreadd ==
  /\ boot = "kthreadd"
  /\ kernel_thread(0, 2)
  /\ boot' = "kthreadd_task"
  /\ UNCHANGED <<options, irqs, init, progress, handover>>

rest_init_task ==
  /\ boot = "kthreadd_task"
  /\ kthreadd_task' = 2
  /\ boot' = "scheduling"
  /\ UNCHANGED <<options, irqs, init, progress, kthreadd_done, initmem,
                 system_state, weights>>

rest_init_scheduling ==
  /\ boot = "scheduling"
  /\ system_state' = "SCHEDULING"
  /\ boot' = "complete"
  /\ UNCHANGED <<options, irqs, init, progress, kthreadd_task, kthreadd_done,
                 initmem, weights>>

rest_init_complete ==
  /\ boot = "complete"
  /\ kthreadd_done' = TRUE
  /\ boot' = "idle"
  /\ UNCHANGED <<options, irqs, init, progress, kthreadd_task, initmem,
                 system_state, weights>>

BootThread ==
  \/ setup_arch \/ start_kernel_early \/ parse_word \/ start_kernel
  \/ rest_init_init \/ rest_init_weight \/ rest_init_kthreadd \/ rest_init_task
  \/ rest_init_scheduling \/ rest_init_complete

-----------------------------------------------------------------------------
(* init.                                                                   *)

\* Mutant of kernel_init_wait: init does not wait.
kernel_init_wait_Not ==
  /\ init = "wait"
  /\ init' = "initcalls"
  /\ UNCHANGED <<options, irqs, boot, progress, handover, weights>>

kernel_init_wait ==
  /\ init = "wait"
  /\ kthreadd_done
  /\ init' = "initcalls"
  /\ UNCHANGED <<options, irqs, boot, progress, handover, weights>>

do_pre_smp_initcalls == Head(Levels)

\* Mutant of do_initcalls: the first level begins where those before SMP do.
do_initcalls_Twice == FlattenSeq(Levels)

\* One level after the other.
do_initcalls == FlattenSeq(Tail(Levels))

Calls == do_pre_smp_initcalls \o do_initcalls

initcall_blacklisted(fn) == fn \in params.blacklist

\* An initcall may return with interrupts disabled.
do_one_initcall ==
  LET fn == Calls[next + 1]
  IN  /\ init = "initcalls"
      /\ next < Len(Calls)
      /\ next' = next + 1
      /\ IF initcall_blacklisted(fn) THEN UNCHANGED <<ran, irqs, init>>
         ELSE /\ ran' = Append(ran, fn)
              /\ irqs' \in BOOLEAN
              /\ init' = "returned"
      /\ UNCHANGED <<options, boot, ramdisk, tried, handover, weights>>

\* What do_one_initcall puts right after the call.
initcall_checks ==
  /\ init = "returned"
  /\ irqs' = IF ~irqs THEN TRUE ELSE irqs
  /\ init' = "initcalls"
  /\ UNCHANGED <<options, boot, progress, handover, weights>>

\* The early user space program, the one given or /init, is kept if it is there.
kernel_init_freeable ==
  /\ init = "initcalls"
  /\ next = Len(Calls)
  /\ ramdisk' \in BOOLEAN
  /\ init' = "free"
  /\ UNCHANGED <<options, irqs, boot, next, ran, tried, handover, weights>>

kernel_init_free ==
  /\ init = "free"
  /\ initmem' = FALSE
  /\ init' = "running"
  /\ UNCHANGED <<options, irqs, boot, progress, kthreadd_task, kthreadd_done,
                 system_state, weights>>

kernel_init_running ==
  /\ init = "running"
  /\ system_state' = "RUNNING"
  /\ init' = "exec"
  /\ UNCHANGED <<options, irqs, boot, progress, kthreadd_task, kthreadd_done,
                 initmem, weights>>

fallbacks == <<"/sbin/init", "/etc/init", "/bin/init", "/bin/sh">>

\* The programs that kernel_init tries.
candidates ==
  (IF ramdisk THEN <<"rdinit">> ELSE << >>)
    \o (IF params.execute_command THEN <<"init">> ELSE fallbacks)

run_init_process ==
  /\ init = "exec"
  /\ Len(tried) < Len(candidates)
  /\ \/ /\ init' = "user"
        /\ params' = [params EXCEPT !.argv_init[0] = Word("path", candidates[Len(tried) + 1])]
        /\ UNCHANGED tried
     \/ /\ tried' = Append(tried, candidates[Len(tried) + 1])
        /\ UNCHANGED <<init, params>>
  /\ UNCHANGED <<command_line, early, parsed, irqs, boot, next, ran, ramdisk, handover, weights>>

kernel_init_panic ==
  /\ init = "exec"
  /\ Len(tried) = Len(candidates)
  /\ init' = "panic"
  /\ UNCHANGED <<options, irqs, boot, progress, handover, weights>>

InitThread ==
  \/ kernel_init_wait \/ do_one_initcall \/ initcall_checks \/ kernel_init_freeable
  \/ kernel_init_free \/ kernel_init_running \/ run_init_process \/ kernel_init_panic

\* The bound: processes are followed after some of the command lines only.
UserSpace(step) ==
  /\ init = "user"
  /\ command_line \in Followed /\ tried = << >> /\ ~ramdisk
  /\ step
  /\ UNCHANGED <<options, irqs, threads, progress, handover>>

Next == BootThread \/ InitThread \/ UserSpace(WeightsStep) \/ UserSpace(WalkStep)

\* Both threads are scheduled, and so is the process in which a walk runs.
Fairness == WF_vars(BootThread) /\ WF_vars(InitThread) /\ WF_vars(UserSpace(WalkStep))

Spec == Init /\ [][Next]_vars /\ Fairness

-----------------------------------------------------------------------------
(* Properties.                                                             *)

\* Past its wait init can rely on what the boot thread has set up: kthreadd is there
\* to make kernel threads, and the boot thread, which has reset init's weight, no longer
\* uses anything that free_initmem takes away; every initcall begins with interrupts
\* enabled, and so does the program, whatever the initcalls before have left.
HandOver ==
  init \notin {"unborn", "wait"} =>
    /\ kthreadd_task # 0
    /\ boot = "idle"
    /\ system_state # "BOOTING"
    /\ init # "returned" => irqs

\* Every early parameter before -- has been handled once, whether or not the
\* architecture has asked for it before start_kernel does.
EarlyOnce ==
  boot \notin {"setup_arch", "early"} =>
    early.count = Cardinality({i \in DOMAIN before_dashes(command_line) :
                                  command_line[i].kind = "early"})

\* When init becomes a program every initcall was called once, lower levels first,
\* except the ones on the blacklist.
InitcallsOnce ==
  init \in {"free", "running", "exec", "user", "panic"} =>
    ran = SelectSeq(FlattenSeq(Levels), LAMBDA fn :
            \A i \in DOMAIN before_dashes(command_line) :
              command_line[i].kind = "blacklist" => command_line[i].name # fn)

\* Nothing of the start is done twice or left out.
CalledOnce == EarlyOnce /\ InitcallsOnce

Given(kind) == \E i \in DOMAIN before_dashes(command_line) : command_line[i].kind = kind

\* The program that runs is the first one that could be executed of those that
\* were to be tried; where init= was given no other takes its place, and without a
\* program the kernel panics.
RequestedInit ==
  /\ init = "user" /\ Given("init") => params.argv_init[0].name \in {"rdinit", "init"}
  /\ init = "panic" => IF Given("init") THEN Last(tried) = "init" ELSE Last(tried) = "/bin/sh"

\* init gets the names that stand alone after the last init= or rdinit=, and then
\* everything after --, up to another one.
Arguments(line) == SelectSeq(line, LAMBDA word : word.kind = "arg")
LastInit == Max({i \in DOMAIN before_dashes(command_line) :
                   command_line[i].kind \in {"init", "rdinit"}} \cup {0})
Earlier == Arguments(SubSeq(command_line, 1, LastInit))
Later ==
  Arguments(SubSeq(before_dashes(command_line), LastInit + 1, Len(before_dashes(command_line))))
    \o after_dashes(command_line)

\* The program gets exactly these, in their order and with a NULL behind them.  When
\* MAX_INIT_ARGS or more stand before init= the last slot keeps one that was to be
\* forgotten (main.c:338), but there is a NULL at the end all the same.
ArgumentsPassed ==
  init = "user" =>
    /\ params.argv_init[MAX_INIT_ARGS + 1] = NULL /\ params.envp_init[MAX_INIT_ARGS + 1] = NULL
    /\ Len(Earlier) < MAX_INIT_ARGS =>
         \A i \in 1 .. MAX_INIT_ARGS :
           params.argv_init[i] = IF i <= Len(Later) THEN Later[i] ELSE NULL

\* The environment names no variable twice, and has every variable that was given.
EnvironmentWhole ==
  init = "user" =>
    \A name \in {"HOME", "TERM"} \cup {word.name : word \in
        {w \in Range(before_dashes(command_line)) : w.kind = "env"}} :
      Cardinality({i \in DOMAIN params.envp_init : params.envp_init[i].name = name}) = 1

\* init is run as the command line asks: the program, its arguments and environment.
InitInvocation == RequestedInit /\ ArgumentsPassed /\ EnvironmentWhole

\* The start comes to an end: a program runs as process 1, or the kernel panics.
Boots == <>(init = "user" \/ init = "panic" \/ boot = "panic")

\* system_state moves forward only, although two threads assign it.
StateForward ==
  [][system_state' = IF system_state = "BOOTING" THEN "SCHEDULING" ELSE "RUNNING"]_system_state

\* What has begun goes forward and comes to its end: the start, and every walk up the
\* process tree from below init.
Progress == StateForward /\ Boots /\ WalkEnds
=============================================================================
