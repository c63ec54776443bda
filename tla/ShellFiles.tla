------------------------------ MODULE ShellFiles ------------------------------
(***************************************************************************)
(* What the commands of the shell of hw1 (Commands.cpp) do to descriptors, *)
(* to files and to the working directory: redirections, pipes, fare and    *)
(* cd, each with the system calls that may fail in it.                     *)
(*                                                                         *)
(* A command line is a sequence of words, each standing for a command with  *)
(* its arguments or for one of the signs > | &; stack holds one frame for   *)
(* every execute() that has not returned.  A descriptor refers to the terminal,  *)
(* to a file or to an end of a pipe.  dup, open and pipe fail when the      *)
(* table is full; dup2 may fail at any time; close releases the descriptor *)
(* even when it reports an error.  What commands print is left out.        *)
(***************************************************************************)
EXTENDS Integers, Sequences, FiniteSets, SequencesExt, TLC

CONSTANTS CommandLines,   \* the command lines a user may type
          Limits,         \* how many descriptors a process may have
          MaxCommands,    \* how many command lines are typed
          MaxFaults,      \* how many calls fail without need
          Texts,          \* what the file given to fare may hold at first
          Dirs            \* the directories

VARIABLES limit,          \* RLIMIT_NOFILE of the shell
          fdt,            \* the shell's descriptor table
          stack,          \* the commands being executed, the innermost last
          children,       \* the processes of the last command line
          files,          \* the file of fare and its temporary file
          fared,          \* what the last fare had to do
          cwd, old_path, old_pwd,
          exists,         \* the directories that were not removed
          typed,          \* how many command lines were typed
          dead,           \* the shell crashed
          faults          \* the calls that failed without need, in this shell

descriptors == <<limit, fdt, children>>
session == <<typed, dead>>
directories == <<cwd, old_path, old_pwd, exists>>
store == <<files, fared>>
vars == <<descriptors, stack, store, directories, session, faults>>

Object(kind, pipe) == [kind |-> kind, pipe |-> pipe]
Closed == Object("closed", << >>)
Tty == Object("tty", << >>)
Absent == <<"absent">>
Terminal(n) == [fd \in 0 .. n - 1 |-> IF fd <= 2 THEN Tty ELSE Closed]

Init ==
  /\ limit \in Limits
  /\ fdt = Terminal(limit)
  /\ stack = << >>
  /\ children = {}
  /\ \E text \in Texts : /\ files = [f |-> text, temp |-> Absent]
                         /\ fared = [text |-> text, old |-> <<"a">>, new |-> <<"a">>,
                                      retried |-> FALSE]
  /\ cwd \in Dirs /\ exists = Dirs
  /\ old_path = "" /\ old_pwd = FALSE
  /\ typed = 0 /\ dead = FALSE
  /\ faults = {}

-----------------------------------------------------------------------------
(* Command lines.                                                          *)

Found(line, signs) ==
  {i \in 1 .. Len(line) - Len(signs) + 1 :
     \A k \in 1 .. Len(signs) : line[i + k - 1].op = signs[k]}
Before(line, signs) == SubSeq(line, 1, Min(Found(line, signs)) - 1)
After(line, signs) == SubSeq(line, Min(Found(line, signs)) + Len(signs), Len(line))

_removeBackgroundSign(line) == SelectSeq(line, LAMBDA word : word.op # "&")

\* A redirection is split at the first >> or else at the first >.
_isRedirectionCommand(line) == Found(line, <<">">>) # {}
redirection_of(line) ==
  [op |-> "redirect",
   command |-> Before(line, IF Found(line, <<">", ">">>) # {} THEN <<">", ">">> ELSE <<">">>)]

\* Mutant of pipe_of: a pipe is split at its first bar, whichever kind it is.
pipe_of_FirstBar(line) ==
  [op |-> "pipe", std |-> IF Found(line, <<"|", "&">>) # {} THEN 2 ELSE 1,
   left |-> _removeBackgroundSign(Before(line, <<"|">>)),
   right |-> _removeBackgroundSign(After(line, <<"|">>))]

\* A pipe is split at the first |& or else at the first |, and every & is erased.
_isPipeCommand(line) == Found(line, <<"|">>) # {}
pipe_of(line) ==
  LET both == Found(line, <<"|", "&">>) # {}
      sign == IF both THEN <<"|", "&">> ELSE <<"|">>
  IN  [op |-> "pipe", std |-> IF both THEN 2 ELSE 1,
       left |-> _removeBackgroundSign(Before(line, sign)),
       right |-> _removeBackgroundSign(After(line, sign))]

CreateCommand(line) ==
  IF _isRedirectionCommand(line) THEN redirection_of(line)
  ELSE IF _isPipeCommand(line) THEN pipe_of(line)
  ELSE IF line = << >> THEN [op |-> "none"]
  ELSE Head(line)

-----------------------------------------------------------------------------
(* The descriptor table, and the stack of commands.                        *)

Free(t) == {n \in DOMAIN t : t[n] = Closed}
Lowest(t) == CHOOSE n \in Free(t) : \A m \in Free(t) : n <= m
Opened(t, object) == [t EXCEPT ![Lowest(t)] = object]
Dup2(t, from, to) == [t EXCEPT ![to] = t[from]]
CloseAll(t, fds) == [n \in DOMAIN t |-> IF n \in fds THEN Closed ELSE t[n]]

Top == Last(stack)
At(op, at) == ~dead /\ stack # << >> /\ Top.cmd.op = op /\ Top.at = at
Fd(name) == Top.fd[name]

\* Where a command stands in the tree: the sides of the commands around it.
Path == [i \in 1 .. Len(stack) - 1 |-> stack[i].at]

Frame(line) == [line |-> line, cmd |-> CreateCommand(line), at |-> "start", fd |-> << >>]
Moved(at, fd) == [stack EXCEPT ![Len(stack)] = [@ EXCEPT !.at = at, !.fd = fd @@ @]]
Goto(at, fd) == stack' = Moved(at, fd)
Call(at, line, fd) == stack' = Append(Moved(at, fd), Frame(line))
Return == stack' = Front(stack)

Fault(call) == Cardinality(faults) < MaxFaults /\ faults' = faults \cup {call}
NoFault == UNCHANGED faults

\* A command line is typed; the processes of the one before are not followed.
executeCommand(line) ==
  LET cmd == CreateCommand(line)
  IN  /\ ~dead /\ stack = << >>
      /\ typed < MaxCommands
      /\ typed' = typed + 1
      /\ stack' = <<Frame(line)>>
      /\ children' = {}
      /\ fared' = IF cmd.op # "fare" THEN fared
                  ELSE IF files.f = Absent THEN [fared EXCEPT !.retried = TRUE]
                  ELSE [text |-> files.f, old |-> cmd.old, new |-> cmd.new, retried |-> FALSE]
      /\ UNCHANGED <<limit, fdt, files, directories, dead, faults>>

\* No command, or a built-in command that touches none of this.
BuiltInCommand ==
  /\ At("builtin", "start") \/ At("none", "start")
  /\ Return
  /\ UNCHANGED <<descriptors, store, directories, session, faults>>

-----------------------------------------------------------------------------
(* External commands and redirections.                                     *)


\* The descriptor that the child closes before execvp: the read end, when the
\* command is itself the left side of a pipe.
close_fd ==
  LET n == Len(Path) IN IF n > 0 /\ Path[n] = "left" THEN {stack[n].fd["r"]} ELSE {}

ExternalCommand ==
  LET inherited == CloseAll(fdt, close_fd)
  IN  /\ At("external", "start")
      /\ children' = children \cup {[path |-> Path, fds |-> {inherited[fd] : fd \in DOMAIN fdt}]}
      /\ Return
      /\ UNCHANGED <<limit, fdt, store, directories, session, faults>>

\* Mutant of redirect_undo: the file is closed, the saved descriptor is not.
redirect_undo_KeepSaved(t, file, saved) == CloseAll(t, {file})

redirect_undo(t, file, saved) == CloseAll(t, {file, saved})

\* Open the file, save the standard output, put the file in its place.
RedirectionCommand ==
  LET file == Lowest(fdt)
      with_file == Opened(fdt, Object("file", << >>))
      saved == Lowest(with_file)
      with_saved == Opened(with_file, with_file[1])
  IN  /\ At("redirect", "start")
      /\ \/ Return /\ UNCHANGED <<fdt, faults>>
         \/ /\ Cardinality(Free(fdt)) = 1
            /\ fdt' = CloseAll(with_file, {file})
            /\ Return /\ NoFault
         \/ /\ Cardinality(Free(fdt)) >= 2
            /\ fdt' = redirect_undo(with_saved, file, saved)
            /\ Return /\ NoFault
         \/ /\ Cardinality(Free(fdt)) >= 2
            /\ fdt' = Dup2(with_saved, file, 1)
            /\ Call("inside", Top.cmd.command, [file |-> file, saved |-> saved])
            /\ NoFault
      /\ UNCHANGED <<limit, children, store, directories, session>>

\* Close the file and put the standard output back.
redirect_restore ==
  LET t == CloseAll(fdt, {Fd("file")})
  IN  /\ At("redirect", "inside")
      /\ \/ fdt' = CloseAll(Dup2(t, Fd("saved"), 1), {Fd("saved")}) /\ NoFault
         \/ fdt' = CloseAll(t, {Fd("saved")}) /\ Fault("restore_output")
      /\ Return
      /\ UNCHANGED <<limit, children, store, directories, session>>

-----------------------------------------------------------------------------
(* Pipes.                                                                  *)

\* What has been saved is closed again when a call fails.
pipe_undo(t, stdin, out) == CloseAll(t, stdin \cup out)

\* Save the two descriptors and make the pipe.
PipeCommand ==
  LET std == Top.cmd.std
      stdin == Lowest(fdt)
      with_stdin == Opened(fdt, fdt[0])
      out == Lowest(with_stdin)
      with_out == Opened(with_stdin, with_stdin[std])
      r == Lowest(with_out)
      with_r == Opened(with_out, Object("read", Path))
      w == Lowest(with_r)
      free == Cardinality(Free(fdt))
  IN  /\ At("pipe", "start")
      /\ \/ /\ free = 0
            /\ Return /\ UNCHANGED fdt
         \/ /\ free = 1
            /\ fdt' = pipe_undo(with_stdin, {stdin}, {})
            /\ Return
         \/ /\ free \in {2, 3}
            /\ fdt' = pipe_undo(with_out, {stdin}, {out})
            /\ Return
         \/ /\ free >= 4
            /\ fdt' = Opened(with_r, Object("write", Path))
            /\ Goto("made", [stdin |-> stdin, out |-> out, r |-> r, w |-> w])
      /\ UNCHANGED <<limit, children, store, directories, session, faults>>

\* The write end becomes the output of the first command, which then runs unless
\* close reports an error.  When dup2 fails the write end stays open.
pipe_left ==
  /\ At("pipe", "made")
  /\ \/ /\ fdt' = CloseAll(Dup2(fdt, Fd("w"), Top.cmd.std), {Fd("w")})
        /\ Call("left", Top.cmd.left, << >>) \/ Goto("left", << >>)
        /\ NoFault
     \/ Goto("left", << >>) /\ UNCHANGED fdt /\ Fault("write_end")
  /\ UNCHANGED <<limit, children, store, directories, session>>

\* The output is put back, the read end becomes the input of the second command,
\* which then runs.
pipe_right ==
  /\ At("pipe", "left")
  /\ \E restored, joined \in BOOLEAN : (restored \/ joined) /\
       LET t == CloseAll(IF restored THEN Dup2(fdt, Fd("out"), Top.cmd.std) ELSE fdt, {Fd("out")})
       IN  /\ IF joined
              THEN /\ fdt' = CloseAll(Dup2(t, Fd("r"), 0), {Fd("r")})
                   /\ Call("right", Top.cmd.right, << >>) \/ Goto("right", << >>)
              ELSE /\ fdt' = t
                   /\ Goto("right", << >>)
           /\ CASE restored /\ joined -> NoFault
                [] restored /\ ~joined -> Fault("read_end")
                [] OTHER -> Fault("restore_output")
  /\ UNCHANGED <<limit, children, store, directories, session>>

\* The input is put back.
pipe_restore ==
  /\ At("pipe", "right")
  /\ \/ fdt' = CloseAll(Dup2(fdt, Fd("stdin"), 0), {Fd("stdin")}) /\ NoFault
     \/ fdt' = CloseAll(fdt, {Fd("stdin")}) /\ Fault("restore_input")
  /\ Return
  /\ UNCHANGED <<limit, children, store, directories, session>>

-----------------------------------------------------------------------------
(* fare: copy to a temporary file with the replacements made, then put it  *)
(* in the place of the file.                                               *)

Both == {Fd("src"), Fd("dest")}

FareCommand ==
  LET dest == Lowest(fdt)
      with_dest == Opened(fdt, Object("file", << >>))
      src == Lowest(with_dest)
  IN  /\ At("fare", "start")
      /\ \/ Return /\ UNCHANGED <<fdt, files>>
         \/ /\ Free(fdt) # {}
            /\ files' = [files EXCEPT !.temp = << >>]
            /\ fdt' = CloseAll(with_dest, {dest})
            /\ Return
         \/ /\ Cardinality(Free(fdt)) >= 2 /\ files.f # Absent
            /\ files' = [files EXCEPT !.temp = << >>]
            /\ fdt' = Opened(with_dest, Object("file", << >>))
            /\ Goto("copy", [src |-> src, dest |-> dest, pos |-> 0, instances |-> 0])
      /\ UNCHANGED <<limit, children, fared, directories, session, faults>>

\* Mutant of fare_fail: what was copied is put in the place of the file all the same.
fare_fail_Replace == fdt' = CloseAll(fdt, Both) /\ Goto("remove", << >>)

fare_fail == fdt' = CloseAll(fdt, Both) /\ Return

\* Mutant of fare_advance: the characters read are not put back.
fare_advance_NoSeek(bytes_read) == bytes_read

\* How far the position moves when the first of the characters read is copied.
fare_advance(bytes_read) == bytes_read + (1 - bytes_read)

\* One turn of the loop.  A read or a write that fails ends the command; the
\* write may have stored some of its characters.
fare_copy ==
  LET rest == SubSeq(files.f, Fd("pos") + 1, Len(files.f))
      bytes_read == IF Len(rest) < Len(fared.old) THEN Len(rest) ELSE Len(fared.old)
      chunk == SubSeq(rest, 1, bytes_read)
      match == chunk = fared.old
      first == IF bytes_read = 0 THEN << >> ELSE <<Head(chunk)>>
      written == IF match THEN fared.new ELSE first
  IN  /\ At("fare", "copy")
      /\ \/ /\ \E k \in 0 .. Len(written) :
                 files' = [files EXCEPT !.temp = @ \o SubSeq(written, 1, k)]
            /\ fare_fail
         \/ /\ bytes_read > 0
            /\ files' = [files EXCEPT !.temp = @ \o written]
            /\ Goto("copy", [pos |-> Fd("pos") + (IF match THEN bytes_read ELSE fare_advance(bytes_read)),
                             instances |-> Fd("instances") + (IF match THEN 1 ELSE 0)])
            /\ UNCHANGED fdt
         \/ /\ bytes_read = 0
            /\ Goto("close", << >>)
            /\ UNCHANGED <<fdt, files>>
      /\ UNCHANGED <<limit, children, fared, directories, session, faults>>

\* When the first close reports an error the second one is not reached.
fare_close ==
  /\ At("fare", "close")
  /\ \/ fdt' = CloseAll(fdt, {Fd("src")}) /\ Return /\ Fault("close_source")
     \/ fdt' = CloseAll(fdt, Both) /\ Return /\ NoFault
     \/ fdt' = CloseAll(fdt, Both) /\ Goto("remove", << >>) /\ NoFault
  /\ UNCHANGED <<limit, children, store, directories, session>>

\* The results of remove and rename are ignored.
fare_remove ==
  /\ At("fare", "remove")
  /\ files' \in {files, [files EXCEPT !.f = Absent]}
  /\ Goto("rename", << >>)
  /\ UNCHANGED <<descriptors, fared, directories, session, faults>>

fare_rename ==
  /\ At("fare", "rename")
  /\ files' \in {files, [f |-> files.temp, temp |-> Absent]}
  /\ Return
  /\ UNCHANGED <<descriptors, fared, directories, session, faults>>

-----------------------------------------------------------------------------
(* cd, and the end of the shell.                                           *)

left_path == cwd

\* Mutant of ChangeDirCommand: old_path is set before chdir is known to succeed.
ChangeDirCommand_EarlyOld ==
  LET dash == Top.cmd.to = "-"
      new_path == IF dash THEN old_path ELSE Top.cmd.to
  IN  /\ At("cd", "start")
      /\ Return
      /\ old_path' = cwd /\ old_pwd' = TRUE
      /\ cwd' = IF new_path \in exists THEN new_path ELSE cwd
      /\ UNCHANGED <<descriptors, store, exists, session, faults>>

\* The working directory is read, then changed.  In a directory that was removed
\* it cannot be read: the shell reports that, goes on, and crashes when it
\* assigns the null pointer to old_path.
ChangeDirCommand ==
  LET dash == Top.cmd.to = "-"
      new_path == IF dash THEN old_path ELSE Top.cmd.to
      refused == (dash /\ ~old_pwd) \/ new_path \notin exists
  IN  /\ At("cd", "start")
      /\ Return
      /\ IF refused
         THEN UNCHANGED <<cwd, old_path, old_pwd, dead>>
         ELSE /\ cwd' = new_path
              /\ IF cwd \in exists
                 THEN old_path' = left_path /\ old_pwd' = TRUE /\ UNCHANGED dead
                 ELSE dead' = TRUE /\ UNCHANGED <<old_path, old_pwd>>
      /\ UNCHANGED <<descriptors, store, exists, typed, faults>>

\* Somebody removes a directory.
Removed(dir) ==
  /\ dir \in exists
  /\ exists # {dir}
  /\ exists' = exists \ {dir}
  /\ UNCHANGED <<descriptors, stack, store, cwd, old_path, old_pwd, session, faults>>

\* The shell has crashed, or is killed between two system calls; a new one is started.
Restart ==
  /\ dead' = FALSE
  /\ fdt' = Terminal(limit)
  /\ stack' = << >> /\ children' = {}
  /\ cwd' \in exists
  /\ old_path' = "" /\ old_pwd' = FALSE
  /\ faults' = {}
  /\ UNCHANGED <<limit, store, exists, typed>>

Next ==
  \/ \E line \in CommandLines : executeCommand(line)
  \/ BuiltInCommand \/ ExternalCommand
  \/ RedirectionCommand \/ redirect_restore
  \/ PipeCommand \/ pipe_left \/ pipe_right \/ pipe_restore
  \/ FareCommand \/ fare_copy \/ fare_close \/ fare_remove \/ fare_rename
  \/ ChangeDirCommand
  \/ \E dir \in Dirs : Removed(dir)
  \/ Restart

Spec == Init /\ [][Next]_vars

-----------------------------------------------------------------------------
(* Properties.                                                             *)

AtPrompt == ~dead /\ stack = << >>

\* text with every occurrence of old replaced, from the left and not overlapping.
RECURSIVE Replaced(_, _, _)
Replaced(text, old, new) ==
  LET found == {i \in 1 .. Len(text) - Len(old) + 1 : SubSeq(text, i, i + Len(old) - 1) = old}
      first == CHOOSE i \in found : \A j \in found : i <= j
  IN  IF found = {} THEN text
      ELSE SubSeq(text, 1, first - 1) \o new
             \o Replaced(SubSeq(text, first + Len(old), Len(text)), old, new)

Result == Replaced(fared.text, fared.old, fared.new)

\* The commands that the command line runs, and between them where the output of
\* each pipe comes from, in the order in which they stand in the line.
RECURSIVE Parsed(_)
Parsed(line) ==
  LET cmd == CreateCommand(line)
  IN  CASE cmd.op = "redirect" -> Parsed(cmd.command)
        [] cmd.op = "pipe" -> Parsed(cmd.left) \o <<[std |-> cmd.std]>> \o Parsed(cmd.right)
        [] cmd.op = "none" -> << >>
        [] OTHER -> <<cmd>>

Written(line) ==
  LET end == Min(Found(line, <<">">>) \cup {Len(line) + 1})
      shown == SelectSeq([i \in 1 .. end - 1 |-> i], LAMBDA i : line[i].op # "&")
  IN  [k \in DOMAIN shown |->
         IF line[shown[k]].op = "|"
         THEN [std |-> IF shown[k] \in Found(line, <<"|", "&">>) THEN 2 ELSE 1]
         ELSE line[shown[k]]]

\* A command line with at most one |& runs the commands that stand before its first
\* > in their order, with the pipes that stand between them.  (From a second |& on
\* the & has been erased and the pipe takes the standard output.)
PipedAsWritten ==
  Len(stack) = 1 /\ Cardinality(Found(stack[1].line, <<"|", "&">>)) <= 1 =>
    Parsed(stack[1].line) = Written(stack[1].line)

\* Every variable keeps its type.
TypeOK ==
  /\ DOMAIN fdt = 0 .. limit - 1
  /\ \A fd \in DOMAIN fdt : /\ fdt[fd].kind \in {"closed", "tty", "file", "read", "write"}
                           /\ Range(fdt[fd].pipe) \subseteq {"left", "right", "inside"}
  /\ cwd \in Dirs /\ old_path \in Dirs \cup {""} /\ exists \subseteq Dirs
  /\ {files.f, files.temp} \subseteq Seq({"a", "b", "absent"})
  /\ faults \subseteq {"write_end", "read_end", "restore_output", "restore_input", "close_source"}

\* Back at the prompt nothing but the three standard descriptors is open, on every
\* path through a redirection, a pipe of pipes or fare that runs out of
\* descriptors half way; the three calls whose failure does leak one are named.
NoLeak ==
  AtPrompt /\ faults \cap {"write_end", "read_end", "close_source"} = {} =>
    \A fd \in DOMAIN fdt : fd > 2 => fdt[fd] = Closed

\* Back at the prompt the shell reads from and writes to the terminal again, unless
\* putting a descriptor back has failed.
StandardRestored ==
  AtPrompt /\ faults \cap {"restore_output", "restore_input"} = {} =>
    \A fd \in 0 .. 2 : fdt[fd] = Tty

\* Back at the prompt the table is the one the shell has begun with, but for the
\* failures named above.
TableRestored == TypeOK /\ NoLeak /\ StandardRestored

\* A process holds the write end of a pipe only if it belongs to the pipe's left
\* side: once those have ended, the right side reads end of file and can end.
OnlyLeftWrites ==
  faults \cap {"write_end", "restore_output"} = {} =>
    \A child \in children : \A object \in child.fds :
      object.kind = "write" => IsPrefix(object.pipe \o <<"left">>, child.path)

\* A process holds the read end of a pipe only if it belongs to the pipe's right side,
\* or to another pipe on its left side.  So an external command that is itself the left
\* side is told when nobody reads any more.  The commands of a pipe on the left side,
\* a and b in a | b |& c, are not: they keep the read end, which is closed in an
\* external command only (close_fd).
OnlyRightReads ==
  faults \cap {"read_end", "restore_input"} = {} =>
    \A child \in children : \A object \in child.fds :
      object.kind = "read" =>
        \/ IsPrefix(object.pipe \o <<"right">>, child.path)
        \/ /\ IsPrefix(object.pipe \o <<"left">>, child.path)
           /\ Len(child.path) > Len(object.pipe) + 1


\* When the loop of fare is over the temporary file holds the text with every
\* occurrence replaced, and the number to report is right.
FareReplaces ==
  stack # << >> /\ Top.cmd.op = "fare" /\ Top.at = "close" =>
    /\ files.temp = Result
    /\ Fd("instances") * (Len(fared.new) - Len(fared.old)) = Len(Result) - Len(fared.text)

\* At every moment, so whenever the shell is killed and whichever calls fail, the
\* file is as it was, or as it shall be, or the temporary file is as it shall be.
\* The exception is a fare that is given again after the file was removed and the
\* temporary file not renamed: it empties the temporary file before it finds out.
NothingLost ==
  \/ files.f \in {fared.text, Result}
  \/ files.f = Absent /\ (files.temp = Result \/ fared.retried)

\* cd - goes back to the directory that was left: the remembered one changes only when
\* the shell has moved to the directory asked for, and then to the one before.
OldPathFollowsMoves ==
  [][old_path' \notin {old_path, ""} =>
       old_path' = cwd /\ cwd' = (IF Top.cmd.to = "-" THEN old_path ELSE Top.cmd.to)]_vars
=============================================================================
