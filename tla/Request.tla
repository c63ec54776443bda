-------------------------------- MODULE Request --------------------------------
(***************************************************************************)
(* requestHandle of hw3 (request.c) and the robust I/O under it (segel.c): *)
(* one worker serves one connection after the other.  A connection delivers *)
(* its characters in pieces of any size and then stays open, is closed or   *)
(* is reset; a write takes any part of what it is given, and waits for a    *)
(* client that does not read; every system call behind a wrapper of segel.c *)
(* may fail, which ends the whole process.                                 *)
(*                                                                         *)
(* A request line is a method, "G" for GET or "P" for another one, and a    *)
(* URI, "s" for a file, "c" for a CGI program, "u" for one with "..".  "x"  *)
(* is any other character, and "r", "n" are the two that end a line.  A call *)
(* that is interrupted is made again, which changes nothing.               *)
(***************************************************************************)
EXTENDS Integers, Sequences, FiniteSets, SequencesExt

CONSTANTS Streams,         \* what a client may send
          MAXLINE, RIO_BUFSIZE,
          MaxConnections   \* how many connections are served

ASSUME SizesAssumption == MAXLINE \in Nat /\ MAXLINE >= 3 /\ RIO_BUFSIZE \in Nat \ {0}

ASSUME StreamsAssumption ==
  Streams \subseteq Seq({"G", "P", "s", "c", "u", "x", "r", "n"})

VARIABLES stream, ending,  \* what the client sends, and what it does then
          reads,           \* whether it goes on reading what is sent to it
          wire,            \* the characters that were not read yet
          rio_buf,         \* those in the buffer of rio
          taken,           \* those given to the caller of rio_readlineb
          got, buf,        \* the line being read, and the caller's buffer
          pc,
          outcome,         \* what the request has come to
          todo, out,       \* what is still to be written, and what was
          child,           \* the CGI process
          held,            \* the file and the mapping that are in use
          request_stat,    \* the counters of this worker
          reported,        \* the counters in the response
          log,             \* what the requests before have come to
          exited

input == <<stream, ending, reads, wire, rio_buf, taken, got, buf>>
output == <<todo, out, child, held>>
stats == <<request_stat, reported, log>>
vars == <<input, pc, outcome, output, stats, exited>>

EmptyLine == <<"r", "n">>
Uninitialised == <<"?">>   \* what a buffer of the stack holds before it is written
Leftover == <<"!">>        \* the same, once it has been seen not to be the empty line

Init ==
  /\ stream = << >> /\ ending = "open" /\ reads = TRUE
  /\ wire = << >> /\ rio_buf = << >> /\ taken = << >>
  /\ got = << >> /\ buf = Uninitialised
  /\ pc = "listen" /\ outcome = "none"
  /\ todo = << >> /\ out = << >> /\ child = "none" /\ held = {}
  /\ request_stat = [total |-> 0, static |-> 0, dynamic |-> 0]
  /\ reported = request_stat
  /\ log = << >>
  /\ exited = FALSE

\* unix_error: a message, and exit.
unix_error ==
  /\ exited' = TRUE
  /\ pc' = "exited"

Goto(at) == pc' = at /\ UNCHANGED exited

\* socket, setsockopt, bind and listen; the first failure is the result.
Open_listenfd ==
  /\ pc = "listen"
  /\ Goto("accept") \/ unix_error
  /\ UNCHANGED <<input, outcome, output, stats>>

\* A connection is accepted and requestHandle begins.
Accept(s) ==
  /\ pc = "accept"
  /\ Len(log) < MaxConnections
  /\ stream' = s /\ ending' \in {"open", "closed", "reset"} /\ reads' \in BOOLEAN
  /\ wire' = s /\ rio_buf' = << >> /\ taken' = << >>
  /\ got' = << >> /\ buf' = Uninitialised
  /\ request_stat' = [request_stat EXCEPT !.total = @ + 1]
  /\ outcome' = "none" /\ out' = << >>
  /\ Goto("line")
  /\ UNCHANGED <<todo, child, held, reported, log>>

-----------------------------------------------------------------------------
(* Reading.                                                                *)

Reading == pc \in {"line", "headers"}

\* Mutant of rio_empty: the buffer is refilled one character too early.
rio_empty_Early == Len(rio_buf) <= 1 /\ (rio_buf # << >> => wire # << >>)

rio_empty == rio_buf = << >>

\* read(2) takes some of what has arrived.
rio_refill ==
  /\ Reading /\ rio_empty /\ wire # << >>
  /\ \E k \in 1 .. (IF Len(wire) < RIO_BUFSIZE THEN Len(wire) ELSE RIO_BUFSIZE) :
       /\ rio_buf' = SubSeq(wire, 1, k)
       /\ wire' = SubSeq(wire, k + 1, Len(wire))
  /\ UNCHANGED <<stream, ending, reads, taken, got, buf, pc, outcome, output, stats, exited>>

\* Mutant of HeadersDone: any line ends the headers.
HeadersDone_AnyLine(line) == Last(line) = "n"

\* Mutant of HeadersDone: the empty line is expected without its "r".
HeadersDone_Newline(line) == line = <<"n">>

HeadersDone(line) == line = EmptyLine

\* Where the caller of Rio_readlineb goes with the line in its buffer.
LineRead(line) ==
  /\ got' = << >>
  /\ \/ pc = "line" /\ buf' = line /\ Goto("parse")
     \/ pc = "headers" /\ HeadersDone(line) /\ buf' = line /\ Goto("uri")
     \/ pc = "headers" /\ ~HeadersDone(line) /\ buf' = line /\ Goto("headers")

LineEnds(line) == Last(line) = "n" \/ Len(line) = MAXLINE - 1

\* One character goes from the buffer of rio to the line.
rio_readlineb ==
  LET line == Append(got, Head(rio_buf))
  IN  /\ Reading /\ ~rio_empty
      /\ rio_buf' = Tail(rio_buf)
      /\ taken' = Append(taken, Head(rio_buf))
      /\ IF LineEnds(line) THEN LineRead(line)
         ELSE got' = line /\ Goto(pc) /\ UNCHANGED buf
      /\ UNCHANGED <<stream, ending, reads, wire, outcome, output, stats>>

\* End of file: the line so far, or else the caller's buffer as it was.  If nothing
\* was read into that it may hold anything, the empty line of an earlier call as well.
rio_eof ==
  /\ Reading /\ rio_buf = << >> /\ wire = << >>
  /\ ending = "closed"
  /\ LET lines == IF got # << >> THEN {got}
                  ELSE IF pc = "headers" /\ buf = Uninitialised THEN {EmptyLine, Leftover}
                  ELSE {buf}
     IN  \E line \in lines : LineRead(line)
  /\ UNCHANGED <<stream, ending, reads, wire, rio_buf, taken, outcome, output, stats>>

rio_error ==
  /\ Reading /\ rio_buf = << >>
  /\ ending = "reset"
  /\ unix_error
  /\ UNCHANGED <<input, outcome, output, stats>>

-----------------------------------------------------------------------------
(* The request.                                                            *)

\* What sscanf finds; what it does not assign may have any value.
Methods(line) == IF Head(line) \in {"G", "P", "x"} THEN {Head(line)} ELSE {"G", "P"}
Uris(line) ==
  IF Head(line) \in {"G", "P", "x"} /\ Len(line) > 1 /\ line[2] \in {"s", "c", "u"} THEN {line[2]}
  ELSE {"s", "c", "u"}

requestParseURI(uri) == IF uri = "c" THEN "dynamic" ELSE "static"

\* The Rio_writen calls of a response; each writes more than one character.
Piece(name) == <<name, name>>
ErrorResponse == <<Piece("status"), Piece("type"), Piece("stats"), Piece("body")>>
StaticResponse == <<Piece("head"), Piece("file")>>
DynamicResponse == <<Piece("head")>>

requestError(error) ==
  /\ outcome' = error
  /\ todo' = ErrorResponse
  /\ reported' = request_stat
  /\ Goto("write")

requestHandle_parse ==
  /\ pc = "parse"
  /\ \E method \in Methods(buf) :
       IF method # "G"
       THEN /\ requestError("501")
            /\ UNCHANGED buf
       ELSE /\ \E uri \in Uris(buf) : outcome' = requestParseURI(uri)
            /\ buf' = Uninitialised
            /\ Goto("headers")
            /\ UNCHANGED <<todo, reported>>
  /\ UNCHANGED <<stream, ending, reads, wire, rio_buf, taken, got, out, child, held, request_stat,
                 log>>

Counted(kind) ==
  IF kind = "static" THEN [request_stat EXCEPT !.static = @ + 1]
  ELSE [request_stat EXCEPT !.dynamic = @ + 1]

\* stat, and the tests of what it says of the file.
requestHandle_stat ==
  /\ pc = "uri"
  /\ \/ \E error \in {"404", "403"} : requestError(error) /\ UNCHANGED request_stat
     \/ /\ request_stat' = Counted(outcome)
        /\ reported' = Counted(outcome)
        /\ IF outcome = "static" THEN todo' = StaticResponse /\ Goto("open")
           ELSE todo' = DynamicResponse /\ Goto("write")
        /\ UNCHANGED outcome
  /\ UNCHANGED <<input, out, child, held, log>>

\* The file may be gone, or not readable, since stat.
Open ==
  /\ pc = "open"
  /\ \/ held' = {"file"} /\ Goto("mmap")
     \/ unix_error /\ UNCHANGED held
  /\ UNCHANGED <<input, outcome, todo, out, child, stats>>

\* The mapping fails for one when the file is empty.
Mmap ==
  /\ pc = "mmap"
  /\ \/ held' = {"mapping"} /\ Goto("write")
     \/ unix_error /\ UNCHANGED held
  /\ UNCHANGED <<input, outcome, todo, out, child, stats>>

-----------------------------------------------------------------------------
(* Writing.                                                                *)

\* Mutant of rio_rest: after a short write the piece is written from its beginning.
rio_rest_Again(piece, nwritten) == IF nwritten < Len(piece) THEN piece ELSE << >>

rio_rest(piece, nwritten) == SubSeq(piece, nwritten + 1, Len(piece))

\* write(2) takes some of the piece, or fails when the client is gone; part of a
\* file that has shrunk cannot be written either.  Of a client that does not read it
\* takes no more than the socket has room for, which may be nothing (see Fairness).
rio_writen ==
  /\ pc = "write" /\ todo # << >>
  /\ \/ \E k \in 1 .. Len(Head(todo)) :
          LET rest == rio_rest(Head(todo), k)
          IN  /\ out' = out \o SubSeq(Head(todo), 1, k)
              /\ todo' = (IF rest = << >> THEN << >> ELSE <<rest>>) \o Tail(todo)
              /\ Goto("write")
     \/ /\ ending # "open" \/ Head(Head(todo)) = "file"
        /\ unix_error
        /\ UNCHANGED <<out, todo>>
  /\ UNCHANGED <<input, outcome, child, held, stats>>

\* The end of requestError, of requestServeStatic (Munmap) or of the head of a CGI
\* response.
Written ==
  /\ pc = "write" /\ todo = << >>
  /\ IF outcome = "dynamic" THEN Goto("fork") /\ UNCHANGED held
     ELSE held' = held \ {"mapping"} /\ Goto("return")
  /\ UNCHANGED <<input, outcome, todo, out, child, stats>>

Fork ==
  /\ pc = "fork"
  /\ \/ child' = "new" /\ Goto("waitpid")
     \/ unix_error /\ UNCHANGED child
  /\ UNCHANGED <<input, outcome, todo, out, held, stats>>

\* The child becomes the CGI program.  When it cannot, it exits, and what the
\* server has printed but not flushed goes to the client.
Execve ==
  /\ child = "new"
  /\ \/ child' = "cgi" /\ UNCHANGED out
     \/ child' = "ended" /\ out' \in {out, Append(out, "log")}
  /\ UNCHANGED <<input, pc, outcome, todo, held, stats, exited>>

MaxCgi == 2

cgi_write ==
  /\ child = "cgi"
  /\ Len(SelectSeq(out, LAMBDA unit : unit = "cgi")) < MaxCgi
  /\ out' = Append(out, "cgi")
  /\ UNCHANGED <<input, pc, outcome, todo, child, held, stats, exited>>

cgi_end ==
  /\ child = "cgi"
  /\ child' = "ended"
  /\ UNCHANGED <<input, pc, outcome, todo, out, held, stats, exited>>

waitpid ==
  /\ pc = "waitpid"
  /\ child = "ended"
  /\ child' = "none"
  /\ Goto("return")
  /\ UNCHANGED <<input, outcome, todo, out, held, stats>>

\* requestHandle returns, and the worker closes the connection.
Close ==
  /\ pc = "return"
  /\ log' = Append(log, outcome)
  /\ Goto("accept")
  /\ UNCHANGED <<input, outcome, output, request_stat, reported>>

Handler ==
  \/ rio_refill \/ rio_readlineb \/ rio_eof \/ rio_error
  \/ requestHandle_parse \/ requestHandle_stat \/ Open \/ Mmap
  \/ rio_writen \/ Written \/ Fork \/ waitpid \/ Close

Child == Execve \/ cgi_write \/ cgi_end

Next == Open_listenfd \/ (\E s \in Streams : Accept(s)) \/ Handler \/ Child

\* The worker is scheduled and a CGI program comes to its end (output.c does), but
\* neither gets past a write to a client that does not read.
Fairness ==
  /\ WF_vars(Handler /\ (pc = "write" /\ todo # << >> => reads))
  /\ WF_vars(Execve)
  /\ WF_vars(cgi_end /\ reads)

Spec == Init /\ [][Next]_vars /\ Fairness

-----------------------------------------------------------------------------
(* Properties.                                                             *)

\* Every variable keeps its type; a line never overruns the caller's buffer.
TypeOK ==
  /\ Len(got) < MAXLINE - 1 /\ Len(buf) < MAXLINE
  /\ Len(rio_buf) <= RIO_BUFSIZE
  /\ held \subseteq {"file", "mapping"}
  /\ child \in {"none", "new", "cgi", "ended"}
  /\ exited = (pc = "exited")

\* No character is lost, read twice or read out of order between the connection and
\* the handler, whatever the pieces that read returns.
NothingSkipped == pc # "accept" => taken \o rio_buf \o wire = stream

\* Whatever the pieces, reading loses nothing and overruns no buffer.
ReadsSafely == TypeOK /\ NothingSkipped

LineStarts == {1} \cup {i + 1 : i \in {k \in DOMAIN stream : stream[k] = "n"}}
EmptyLines == {i \in LineStarts : i > 1 /\ i < Len(stream) /\ SubSeq(stream, i, i + 1) = EmptyLine}
FirstEmpty == CHOOSE i \in EmptyLines : \A j \in EmptyLines : i <= j
Complete == EmptyLines # {}

\* Whether every line up to the first empty one fits the buffer, its end and the
\* final NUL included.
Fits == \A i \in {k \in LineStarts : k <= FirstEmpty} :
          \E k \in i .. i + MAXLINE - 2 : k <= Len(stream) /\ stream[k] = "n"

\* The headers of a complete request are read up to the end of the first empty line
\* and no further, whatever the client sends after it, if the lines up to there fit.
HeadersEnd ==
  pc \in {"uri", "open", "mmap", "write", "fork", "waitpid", "return"} /\ outcome # "501"
    /\ Complete /\ Fits =>
      taken = SubSeq(stream, 1, FirstEmpty + 1)

CgiOutput == {<< >>, <<"log">>, <<"cgi">>, <<"cgi", "cgi">>}

\* When requestHandle returns the client has been sent one whole response, its parts
\* in order and none of them twice, and of the kind that this request asks for and
\* no earlier one; a CGI program's output comes after the head.
ResponseWhole ==
  pc = "return" =>
    /\ CASE outcome = "static" -> out = FlattenSeq(StaticResponse)
         [] outcome = "dynamic" -> \E tail \in CgiOutput : out = FlattenSeq(DynamicResponse) \o tail
         [] OTHER -> out = FlattenSeq(ErrorResponse)
    /\ Complete /\ stream[1] = "P" => outcome = "501"
    /\ Complete /\ stream[1] = "G" =>
         outcome \in {"404", "403", requestParseURI(stream[2])}

\* When requestHandle returns no file, mapping or child of its is left.
NothingHeld == pc = "return" => held = {} /\ child = "none"

Count(kinds, all) == Len(SelectSeq(all, LAMBDA kind : kind \in kinds))

\* The counters in a response are those of the requests this worker has handled, the
\* one being answered included, and every request is counted in one way at most.
ReportedExact ==
  pc = "return" =>
    LET all == Append(log, outcome)
    IN  reported = [total |-> Len(all), static |-> Count({"static"}, all),
                    dynamic |-> Count({"dynamic"}, all)]

\* What requestHandle leaves when it returns is in order: a whole response, with exact
\* counters, and nothing held.
ReturnsClean == ResponseWhole /\ NothingHeld /\ ReportedExact

\* A complete request of a client that reads its response is answered, or the process
\* has ended, even if the client neither sends more nor closes.  (After an incomplete
\* one the loop of requestReadhdrs may go on for ever, and a client that does not read
\* may keep the worker in write.)
RequestAnswered == (pc = "line" /\ Complete /\ reads) ~> pc \in {"return", "exited"}
=============================================================================
