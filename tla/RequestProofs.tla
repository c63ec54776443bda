---------------------------- MODULE RequestProofs ----------------------------
(***************************************************************************)
(* The buffered reader of hw3 segel.c under requestHandle, for everything   *)
(* that a client may send, every MAXLINE of at least 3, every RIO_BUFSIZE   *)
(* and any number of connections: nothing is lost, read twice or read out   *)
(* of order, and no line overruns the buffer it is read into.              *)
(***************************************************************************)
EXTENDS Request, SequenceTheorems, TLAPS

\* The characters of a client, and what stands for the contents of a buffer that
\* was not written.
Chars == {"G", "P", "s", "c", "u", "x", "r", "n", "?", "!"}

\* The fixed contents of a line buffer.
LEMMA Literals ==
  /\ << >> \in Seq(Chars) /\ Len(<< >>) = 0
  /\ Uninitialised \in Seq(Chars) /\ Len(Uninitialised) = 1
  /\ EmptyLine \in Seq(Chars) /\ Len(EmptyLine) = 2
  /\ Leftover \in Seq(Chars) /\ Len(Leftover) = 1
<1>1. "?" \in Chars /\ "r" \in Chars /\ "n" \in Chars /\ "!" \in Chars
  BY DEF Chars
<1>2. Uninitialised \in Seq(Chars) /\ Len(Uninitialised) = 1
  BY <1>1, SMTT(30) DEF Uninitialised
<1>3. EmptyLine \in Seq(Chars) /\ Len(EmptyLine) = 2
  BY <1>1, SMTT(30) DEF EmptyLine
<1>4. Leftover \in Seq(Chars) /\ Len(Leftover) = 1
  BY <1>1, SMTT(30) DEF Leftover
<1> QED BY <1>2, <1>3, <1>4, EmptySeq, SMTT(30)

\* A stream in three parts.
Joined(a, b, c) == a \o b \o c

\* What is read, buffered and still to come is what the client sends.
Conserved == Joined(taken, rio_buf, wire) = stream

\* The buffers hold characters and stay within their sizes.
BuffersOK ==
  /\ wire \in Seq(Chars) /\ rio_buf \in Seq(Chars) /\ taken \in Seq(Chars)
  /\ got \in Seq(Chars) /\ buf \in Seq(Chars)
  /\ Len(got) < MAXLINE - 1 /\ Len(buf) < MAXLINE
  /\ Len(rio_buf) <= RIO_BUFSIZE

\* The process has exited exactly when no step of it is left.
ControlOK ==
  /\ held \subseteq {"file", "mapping"}
  /\ child \in {"none", "new", "cgi", "ended"}
  /\ exited = (pc = "exited")

\* The inductive invariant: NothingSkipped, at every point of the code.
RInv == Conserved /\ BuffersOK /\ ControlOK

\* Moving the first character from one part of a stream to the part before it
\* changes nothing of the whole: one turn of the loop of rio_readlineb.
LEMMA MoveOne ==
  ASSUME NEW S, NEW a \in Seq(S), NEW b \in Seq(S), NEW c \in Seq(S), b # << >>
  PROVE  Joined(Append(a, Head(b)), Tail(b), c) = Joined(a, b, c)
<1>1. Head(b) \in S /\ Tail(b) \in Seq(S)
  BY HeadTailProperties, SMTT(30)
<1>2. <<Head(b)>> \in Seq(S)
  BY <1>1, SMTT(30)
<1>3. Append(a, Head(b)) = a \o <<Head(b)>>
  BY <1>1, AppendIsConcat, SMTT(30)
<1>4. <<Head(b)>> \o Tail(b) = b
  <2>1. Len(b) \in Nat \ {0} /\ Head(b) = b[1]
    BY EmptySeq, SMTT(30)
  <2> DEFINE h == <<Head(b)>>
             t == Tail(b)
  <2>2. Len(h) = 1 /\ h[1] = b[1]
    BY <2>1, SMTT(30)
  <2>3. Len(t) = Len(b) - 1 /\ \A i \in 1 .. Len(t) : t[i] = b[i + 1]
    BY HeadTailProperties, SMTT(30)
  <2>4. /\ h \o t \in Seq(S) /\ Len(h \o t) = Len(h) + Len(t)
        /\ \A i \in 1 .. Len(h) + Len(t) :
             (h \o t)[i] = IF i <= Len(h) THEN h[i] ELSE t[i - Len(h)]
    BY <1>1, <1>2, ConcatProperties, SMTT(30)
  <2> HIDE DEF h, t
  <2>5. Len(h \o t) = Len(b)
    BY <2>1, <2>2, <2>3, <2>4, SMTT(30)
  <2>6. ASSUME NEW i \in 1 .. Len(b) PROVE (h \o t)[i] = b[i]
    <3>1. CASE i = 1
      BY <2>1, <2>2, <2>3, <2>4, <3>1
    <3>2. CASE i # 1
      <4>1. i - 1 \in 1 .. Len(t) /\ i \in 1 .. Len(h) + Len(t) /\ ~(i <= Len(h))
        BY <2>1, <2>2, <2>3, <3>2, SMTT(30)
      <4>2. (h \o t)[i] = t[i - 1]
        BY <2>2, <2>4, <4>1, SMTT(30)
      <4>3. t[i - 1] = b[(i - 1) + 1] /\ (i - 1) + 1 = i
        BY <2>3, <4>1, SMTT(30)
      <4> QED BY <4>2, <4>3
    <3> QED BY <3>1, <3>2
  <2>7. h \o t = b
    BY <2>4, <2>5, <2>6, SeqEqual, ZenonT(30)
  <2> QED BY <2>7, SMTT(30) DEF h, t
<1>5. (a \o <<Head(b)>>) \o Tail(b) = a \o (<<Head(b)>> \o Tail(b))
  BY <1>1, <1>2, ConcatAssociative, SMTT(30)
<1> QED BY <1>3, <1>4, <1>5, ZenonT(30) DEF Joined

\* Cutting a stream in two changes nothing of the whole: a short read.
LEMMA Cut ==
  ASSUME NEW S, NEW c \in Seq(S), NEW k \in 1 .. Len(c)
  PROVE  /\ SubSeq(c, 1, k) \in Seq(S) /\ Len(SubSeq(c, 1, k)) = k
         /\ SubSeq(c, k + 1, Len(c)) \in Seq(S)
         /\ SubSeq(c, 1, k) \o SubSeq(c, k + 1, Len(c)) = c
<1>1. Len(c) \in Nat /\ k \in Nat /\ 1 <= k /\ k <= Len(c)
  BY LenProperties, SMTT(30)
<1>2. /\ \A i \in 1 .. k : c[i] \in S
      /\ \A i \in k + 1 .. Len(c) : c[i] \in S
  BY <1>1, ElementOfSeq, SMTT(30)
<1>3. SubSeq(c, 1, k) \in Seq(S) /\ Len(SubSeq(c, 1, k)) = k
  BY <1>1, <1>2, SubSeqProperties, SMTT(30)
<1>4. SubSeq(c, k + 1, Len(c)) \in Seq(S)
  BY <1>1, <1>2, SubSeqProperties, SMTT(30)
<1>5. SubSeq(c, 1, k) \o SubSeq(c, k + 1, Len(c)) = SubSeq(c, 1, Len(c))
  BY <1>1, ConcatAdjacentSubSeq, SMTT(30)
<1>6. SubSeq(c, 1, Len(c)) = c
  BY <1>1, SubSeqFull, SMTT(30)
<1> QED BY <1>3, <1>4, <1>5, <1>6, ZenonT(30)

\* Three parts may be joined from the right.
LEMMA Regroup ==
  \A a, b, c \in Seq(Chars) : Joined(a, b, c) = a \o (b \o c)
<1>1. ASSUME NEW a \in Seq(Chars), NEW b \in Seq(Chars), NEW c \in Seq(Chars)
      PROVE  (a \o b) \o c = a \o (b \o c)
  BY ConcatAssociative, SMTT(30)
<1> QED BY <1>1, ZenonT(30) DEF Joined

\* An empty buffer that is filled with the beginning of what is still to come
\* changes nothing of the whole: read(2) in rio_read.
LEMMA Refilled ==
  \A a, b, c \in Seq(Chars) : Joined(a, << >>, b \o c) = Joined(a, b, c)
<1> SUFFICES ASSUME NEW a \in Seq(Chars), NEW b \in Seq(Chars), NEW c \in Seq(Chars)
             PROVE  Joined(a, << >>, b \o c) = Joined(a, b, c)
  BY Zenon
<1>1. a \o << >> = a
  BY ConcatEmptySeq, SMTT(30)
<1>2. Joined(a, << >>, b \o c) = a \o (b \o c)
  BY <1>1, ZenonT(30) DEF Joined
<1>3. Joined(a, b, c) = a \o (b \o c)
  BY Regroup, ZenonT(30)
<1> QED BY <1>2, <1>3, ZenonT(30)

\* One character goes from the buffer to the line.
LEMMA HandedOver ==
  \A a, b, c \in Seq(Chars) :
    b # << >> => Joined(Append(a, Head(b)), Tail(b), c) = Joined(a, b, c)
BY MoveOne, SMTT(30)

-----------------------------------------------------------------------------
\* The initial state.
LEMMA InitRInv == Init => RInv
<1> SUFFICES ASSUME Init PROVE RInv
  OBVIOUS
<1>1. << >> \in Seq(Chars) /\ Len(<< >>) = 0
  BY EmptySeq, SMTT(30)
<1>2. << >> \o << >> \o << >> = << >>
  BY <1>1, ConcatEmptySeq, SMTT(30)
<1>3. Conserved
  BY <1>2, SMTT(30) DEF Init, Conserved, Joined
<1>4. Uninitialised \in Seq(Chars) /\ Len(Uninitialised) = 1
  BY Literals, SMTT(30)
<1>5. BuffersOK
  BY <1>1, <1>4, SizesAssumption, SMTT(30) DEF Init, BuffersOK
<1>6. ControlOK
  BY ZenonT(30) DEF Init, ControlOK
<1> QED BY <1>3, <1>5, <1>6, SMTT(30) DEF RInv

\* Where the caller goes with a line, it has taken it into its buffer.
LEMMA LineReadOK ==
  ASSUME BuffersOK, NEW line \in Seq(Chars), Len(line) < MAXLINE, LineRead(line)
  PROVE  /\ got' \in Seq(Chars) /\ Len(got') < MAXLINE - 1
         /\ buf' \in Seq(Chars) /\ Len(buf') < MAXLINE
<1>1. got' = << >> /\ buf' = line
  BY DEF LineRead
<1>2. << >> \in Seq(Chars) /\ Len(<< >>) = 0
  BY EmptySeq
<1> QED BY <1>1, <1>2, SizesAssumption

\* Every step keeps the control state in order.
LEMMA NextControl == ControlOK /\ [Next]_vars => ControlOK'
<1> SUFFICES ASSUME ControlOK, [Next]_vars PROVE ControlOK'
  OBVIOUS
<1>1. ASSUME NEW at \in {"accept", "line", "parse", "headers", "uri", "open", "mmap",
                         "write", "fork", "waitpid", "return"},
             pc # "exited", Goto(at)
      PROVE  exited' = (pc' = "exited")
  BY <1>1, SMTT(30) DEF Goto, ControlOK
<1>2. ASSUME unix_error PROVE exited' = (pc' = "exited")
  BY <1>2, ZenonT(30) DEF unix_error
<1>3. CASE Open_listenfd
  BY <1>1, <1>2, <1>3 DEF Open_listenfd, output, ControlOK
<1>4. ASSUME NEW s \in Streams, Accept(s) PROVE ControlOK'
  BY <1>1, <1>4, SMTT(30) DEF Accept, ControlOK
<1>5. CASE rio_refill \/ rio_error
  BY <1>2, <1>5 DEF rio_refill, rio_error, output, ControlOK
<1>6. ASSUME NEW line, Reading, LineRead(line) PROVE exited' = (pc' = "exited")
  BY <1>1, <1>6 DEF LineRead, Reading
<1>7. CASE rio_readlineb
  <2>1. child' = child /\ held' = held
    BY <1>7 DEF rio_readlineb, output
  <2>2. exited' = (pc' = "exited")
    BY <1>1, <1>6, <1>7, SMTT(30) DEF rio_readlineb, Reading
  <2> QED BY <2>1, <2>2 DEF ControlOK
<1>8. CASE rio_eof
  <2>1. child' = child /\ held' = held
    BY <1>8, SMTT(30) DEF rio_eof, output
  <2>2. exited' = (pc' = "exited")
    BY <1>6, <1>8, SMTT(30) DEF rio_eof
  <2> QED BY <2>1, <2>2 DEF ControlOK
<1>9. CASE requestHandle_parse
  BY <1>1, <1>9, SMTT(30) DEF requestHandle_parse, requestError, ControlOK
<1>10. CASE requestHandle_stat
  BY <1>1, <1>10, SMTT(30) DEF requestHandle_stat, requestError, ControlOK
<1>11. CASE Open \/ Mmap
  BY <1>1, <1>2, <1>11 DEF Open, Mmap, ControlOK
<1>12. CASE rio_writen
  BY <1>1, <1>2, <1>12 DEF rio_writen, ControlOK
<1>13. CASE Written
  BY <1>1, <1>13 DEF Written, ControlOK
<1>14. CASE Fork \/ waitpid
  BY <1>1, <1>2, <1>14, ZenonT(30) DEF Fork, waitpid, ControlOK
<1>15. CASE Close
  BY <1>1, <1>15 DEF Close, output, ControlOK
<1>16. CASE Child
  BY <1>16, ZenonT(30) DEF Child, Execve, cgi_write, cgi_end, ControlOK
<1>17. CASE UNCHANGED vars
  BY <1>17 DEF vars, output, ControlOK
<1> QED
  BY <1>3, <1>4, <1>5, <1>7, <1>8, <1>9, <1>10, <1>11, <1>12, <1>13, <1>14, <1>15,
     <1>16, <1>17 DEF Next, Handler

\* Every step keeps the stream whole and the buffers within their sizes.
LEMMA NextRead == RInv /\ [Next]_vars => Conserved' /\ BuffersOK'
<1> SUFFICES ASSUME RInv, [Next]_vars PROVE Conserved' /\ BuffersOK'
  OBVIOUS
<1>0. Conserved /\ BuffersOK
  BY DEF RInv
<1>1. << >> \in Seq(Chars) /\ Len(<< >>) = 0
  BY EmptySeq, SMTT(30)
<1>2. Uninitialised \in Seq(Chars) /\ Len(Uninitialised) = 1
  BY Literals, SMTT(30)
<1>22. 0 < MAXLINE - 1 /\ 1 < MAXLINE /\ 2 < MAXLINE /\ 0 <= RIO_BUFSIZE
  BY SizesAssumption, SMTT(30)
<1>3. ASSUME UNCHANGED input PROVE Conserved' /\ BuffersOK'
  BY <1>0, <1>3, SMTT(30) DEF input, Conserved, Joined, BuffersOK
<1>4. ASSUME NEW s \in Streams, Accept(s) PROVE Conserved' /\ BuffersOK'
  <2>1. s \in Seq(Chars)
    BY StreamsAssumption, SMTT(30) DEF Chars
  <2>2. << >> \o << >> \o s = s
    BY <1>1, <2>1, ConcatEmptySeq, SMTT(30)
  <2>3. Conserved'
    BY <1>4, <2>2, SMTT(30) DEF Accept, Conserved, Joined
  <2>4. BuffersOK'
    <3>1. /\ wire' = s /\ rio_buf' = << >> /\ taken' = << >> /\ got' = << >>
          /\ buf' = Uninitialised
      BY <1>4, SMTT(30) DEF Accept
    <3> QED BY <1>1, <1>2, <1>22, <2>1, <3>1, ZenonT(30) DEF BuffersOK
  <2> QED BY <2>3, <2>4, SMTT(30)
<1>5. CASE rio_refill
  <2>1. PICK k \in 1 .. (IF Len(wire) < RIO_BUFSIZE THEN Len(wire) ELSE RIO_BUFSIZE) :
          rio_buf' = SubSeq(wire, 1, k) /\ wire' = SubSeq(wire, k + 1, Len(wire))
    BY <1>5, SMTT(30) DEF rio_refill
  <2>2. rio_buf = << >> /\ UNCHANGED <<stream, taken, got, buf>>
    BY <1>5, SMTT(30) DEF rio_refill, rio_empty
  <2>3. k \in 1 .. Len(wire) /\ k <= RIO_BUFSIZE
    BY <1>0, SizesAssumption, LenProperties, SMTT(30) DEF BuffersOK
  <2>4. /\ rio_buf' \in Seq(Chars) /\ Len(rio_buf') = k /\ wire' \in Seq(Chars)
        /\ rio_buf' \o wire' = wire
    BY <1>0, <2>1, <2>3, Cut, SMTT(30) DEF BuffersOK
  <2>5. Conserved'
    <3>1. taken \in Seq(Chars)
      BY <1>0, ZenonT(30) DEF BuffersOK
    <3>2. Joined(taken, << >>, wire) = Joined(taken, rio_buf', wire')
      BY <2>4, <3>1, Refilled, ZenonT(30)
    <3> QED BY <1>0, <2>2, <3>2, ZenonT(30) DEF Conserved, Joined
  <2>6. BuffersOK'
    BY <1>0, <2>2, <2>3, <2>4, SMTT(30) DEF BuffersOK
  <2> QED BY <2>5, <2>6, SMTT(30)
<1>6. CASE rio_readlineb
  <2> DEFINE line == Append(got, Head(rio_buf))
  <2>1. /\ rio_buf # << >> /\ UNCHANGED <<stream, wire>>
        /\ rio_buf' = Tail(rio_buf) /\ taken' = Append(taken, Head(rio_buf))
    BY <1>6, SMTT(30) DEF rio_readlineb, rio_empty
  <2>2. /\ Head(rio_buf) \in Chars /\ Tail(rio_buf) \in Seq(Chars)
        /\ Len(Tail(rio_buf)) = Len(rio_buf) - 1
    BY <1>0, <2>1, HeadTailProperties, SMTT(30) DEF BuffersOK
  <2>3. Conserved'
    <3>1. taken \in Seq(Chars) /\ rio_buf \in Seq(Chars) /\ wire \in Seq(Chars)
      BY <1>0, SMTT(30) DEF BuffersOK
    <3>2. Joined(taken', rio_buf', wire) = Joined(taken, rio_buf, wire)
      BY <2>1, <3>1, HandedOver, ZenonT(30)
    <3> QED BY <1>0, <2>1, <3>2, ZenonT(30) DEF Conserved, Joined
  <2>4. taken' \in Seq(Chars) /\ line \in Seq(Chars) /\ Len(line) = Len(got) + 1
    BY <1>0, <2>1, <2>2, AppendProperties, SMTT(30) DEF BuffersOK
  <2>5. Len(got) \in Nat /\ Len(rio_buf) \in Nat
    BY <1>0, LenProperties, SMTT(30) DEF BuffersOK
  <2>6. CASE LineEnds(line)
    <3>1. LineRead(line)
      BY <1>6, <2>6, SMTT(30) DEF rio_readlineb
    <3>2. Len(line) < MAXLINE
      BY <1>0, <2>4, <2>5, SizesAssumption, SMTT(30) DEF BuffersOK
    <3>3. /\ got' \in Seq(Chars) /\ Len(got') < MAXLINE - 1
          /\ buf' \in Seq(Chars) /\ Len(buf') < MAXLINE
      BY <1>0, <2>4, <3>1, <3>2, LineReadOK, ZenonT(30)
    <3>4. BuffersOK'
      BY <1>0, <2>1, <2>2, <2>4, <2>5, <3>3, SizesAssumption DEF BuffersOK
    <3> QED BY <2>3, <3>4, SMTT(30)
  <2>7. CASE ~LineEnds(line)
    <3>1. got' = line /\ buf' = buf
      BY <1>6, <2>7, SMTT(30) DEF rio_readlineb
    <3>2. Len(line) # MAXLINE - 1
      BY <2>7, SMTT(30) DEF LineEnds
    <3>3. Len(got') < MAXLINE - 1
      <4>1. ASSUME NEW n \in Nat, n < MAXLINE - 1, n + 1 # MAXLINE - 1
            PROVE  n + 1 < MAXLINE - 1
        BY <4>1, SizesAssumption, SMTT(30)
      <4>2. Len(got) + 1 < MAXLINE - 1
        BY <1>0, <2>4, <2>5, <3>2, <4>1, ZenonT(30) DEF BuffersOK
      <4> QED BY <2>4, <3>1, <4>2, ZenonT(30)
    <3>4. got' \in Seq(Chars)
      BY <2>4, <3>1, SMTT(30)
    <3>5. BuffersOK'
      <4> HIDE DEF line
      <4> QED
        BY <1>0, <2>1, <2>2, <2>4, <2>5, <3>1, <3>3, <3>4, SizesAssumption, SMTT(30) DEF BuffersOK
    <3> QED BY <2>3, <3>5
  <2> QED BY <2>6, <2>7, SMTT(30)
<1>7. CASE rio_eof
  <2>1. UNCHANGED <<stream, wire, rio_buf, taken>>
    BY <1>7, SMTT(30) DEF rio_eof
  <2>2. PICK line \in {got, EmptyLine, Leftover, buf} : LineRead(line)
    BY <1>7, SMTT(30) DEF rio_eof
  <2>3. /\ EmptyLine \in Seq(Chars) /\ Len(EmptyLine) = 2
        /\ Leftover \in Seq(Chars) /\ Len(Leftover) = 1
    BY Literals, SMTT(30)
  <2>4. line \in Seq(Chars) /\ Len(line) < MAXLINE
    <3>1. Len(got) \in Nat /\ Len(buf) \in Nat
      BY <1>0, LenProperties, SMTT(30) DEF BuffersOK
    <3>2. CASE line = got
      BY <1>0, <3>1, <3>2, SizesAssumption, SMTT(30) DEF BuffersOK
    <3>3. CASE line = buf
      BY <1>0, <3>3, SMTT(30) DEF BuffersOK
    <3>4. CASE line \in {EmptyLine, Leftover}
      BY <1>22, <2>3, <3>4, ZenonT(30)
    <3> QED BY <3>2, <3>3, <3>4, SMTT(30)
  <2>5. /\ got' \in Seq(Chars) /\ Len(got') < MAXLINE - 1
        /\ buf' \in Seq(Chars) /\ Len(buf') < MAXLINE
    BY <1>0, <2>2, <2>4, LineReadOK, SMTT(30)
  <2> QED BY <1>0, <2>1, <2>5, SMTT(30) DEF Conserved, Joined, BuffersOK
<1>8. CASE requestHandle_parse
  <2>1. UNCHANGED <<stream, wire, rio_buf, taken, got>> /\ buf' \in {buf, Uninitialised}
    BY <1>8, SMTT(30) DEF requestHandle_parse
  <2>2. buf' \in Seq(Chars) /\ Len(buf') < MAXLINE
    BY <1>0, <1>2, <1>22, <2>1, ZenonT(30) DEF BuffersOK
  <2> QED BY <1>0, <2>1, <2>2, SMTT(30) DEF Conserved, Joined, BuffersOK
<1>9. CASE \/ Open_listenfd \/ rio_error \/ requestHandle_stat \/ Open \/ Mmap
           \/ rio_writen \/ Written \/ Fork \/ waitpid \/ Close \/ Child
  BY <1>3, <1>9
  DEF Open_listenfd, rio_error, requestHandle_stat, Open, Mmap, rio_writen, Written,
      Fork, waitpid, Close, Child, Execve, cgi_write, cgi_end
<1>10. CASE UNCHANGED vars
  BY <1>3, <1>10 DEF vars
<1> QED
  BY <1>4, <1>5, <1>6, <1>7, <1>8, <1>9, <1>10 DEF Next, Handler

\* Whatever a client sends and in whatever pieces it arrives, rio_readlineb hands
\* over every character once and in order, and overruns no buffer.
THEOREM ReadingCorrect == Spec => []ReadsSafely
<1>1. RInv => ReadsSafely
  BY DEF RInv, Conserved, Joined, BuffersOK, ControlOK, ReadsSafely, TypeOK, NothingSkipped
<1>2. RInv /\ [Next]_vars => RInv'
  BY NextRead, NextControl, SMTT(30) DEF RInv
<1> QED BY <1>1, <1>2, InitRInv, PTL DEF Spec
=============================================================================
