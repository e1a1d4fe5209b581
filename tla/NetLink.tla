------------------------------ MODULE NetLink -------------------------------
(***************************************************************************)
(* Two jobs with the engines net and netsplice (engines/net.c), one that   *)
(* writes to a socket and one that reads from it, over TCP, a UNIX socket  *)
(* or UDP.  Each is its own fio_netio_queue under do_io, which counts an   *)
(* IO when all of it is done and queues the rest of a short one again.     *)
(*                                                                         *)
(* A byte is its number in what the writer sends.  A datagram holds the    *)
(* bytes of an IO, or is the message that closes the link.                 *)
(***************************************************************************)
EXTENDS Integers, Sequences, SequencesExt, FiniteSets

CONSTANTS BlockSize,  \* bytes of an IO
          SockBuf,    \* bytes, or datagrams, the network holds
          PipeSize,   \* bytes a pipe of netsplice holds
          MaxLost,    \* bound: datagrams the network loses
          Confs       \* protocol, engine and sizes of the jobs, what goes wrong

VARIABLES conf,
          pc,        \* where each job is
          td,        \* of each job: bytes done, the IO it does, its errors
          sock,      \* what is on its way
          pipe,      \* the pipe of each job
          got,       \* what the reader has in its buffers, in order
          link       \* listening, connected, closed, what was lost

vars == <<conf, pc, td, sock, pipe, got, link>>

writer == "writer"
reader == "reader"
Jobs == {writer, reader}

FIO_TYPE_TCP == "tcp"
FIO_TYPE_UDP == "udp"
FIO_TYPE_UNIX == "unix"
FIO_LINK_CLOSE == <<0>>

Udp == conf.proto = FIO_TYPE_UDP
UseSplice == conf.use_splice /\ conf.proto = FIO_TYPE_TCP
Size(j) == IF j = writer THEN conf.write_size ELSE conf.read_size

\* The bytes the writer has in its buffer after n of this IO.
Buffer(n) == [i \in 1 .. td[writer].left - n |->
                 td[writer].done + BlockSize - td[writer].left + n + i]
Least(a, b) == IF a < b THEN a ELSE b
First(s, n) == SubSeq(s, 1, Least(n, Len(s)))
Room == SockBuf - Len(sock)
Terminated(j) == j \in link.terminate
Goto(j, where) == pc' = [pc EXCEPT ![j] = where]

----------------------------------------------------------------------------
(* Setting up the link *)

\* fio_netio_init: the reader listens, on UDP it is bound.
fio_netio_init(j) ==
    /\ pc[j] = "init" /\ Goto(j, "open")
    /\ link' = IF j = reader THEN [link EXCEPT !.listening = TRUE] ELSE link
    /\ UNCHANGED <<conf, td, sock, pipe, got>>

\* Jobs of one program are initialized before any of them begins.
MayBegin == conf.together => \A j \in Jobs : pc[j] # "init"

\* fio_netio_connect
fio_netio_connect ==
    /\ pc[writer] = "open" /\ MayBegin
    /\ IF Udp \/ link.listening
       THEN /\ Goto(writer, "get") /\ UNCHANGED td
            /\ link' = [link EXCEPT !.connected = TRUE]
       ELSE /\ Goto(writer, "ended") /\ td' = [td EXCEPT ![writer].error = "refused"]
            /\ UNCHANGED link
    /\ UNCHANGED <<conf, sock, pipe, got>>

\* fio_netio_accept waits for a connection.  When the job is terminated its
\* poll is interrupted, and what it should have returned is not initialized.
fio_netio_accept ==
    /\ pc[reader] = "open" /\ MayBegin
    /\ \/ (Udp \/ link.connected) /\ Goto(reader, "get") /\ UNCHANGED <<td, link>>
       \/ /\ ~Udp
          /\ Terminated(reader) \/ (conf.accept_fails /\ link.connected)
          /\ Goto(reader, "ended")
          /\ td' = [td EXCEPT ![reader].error = "accept"]
          /\ link' = [link EXCEPT !.listening = FALSE, !.reader_closed = TRUE]
    /\ UNCHANGED <<conf, sock, pipe, got>>

----------------------------------------------------------------------------
(* do_io *)

Start(j) == IF UseSplice THEN IF j = writer THEN "vmsplice" ELSE "splice" ELSE "try"

\* The next IO, unless the job is through.
Get(j) ==
    /\ pc[j] = "get"
    /\ IF td[j].done >= Size(j) \/ td[j].error # "none" \/ Terminated(j)
       THEN Goto(j, "close") /\ UNCHANGED td
       ELSE /\ Goto(j, Start(j))
            /\ td' = [td EXCEPT ![j].left = IF @ = 0 THEN BlockSize ELSE @, ![j].xfer = 0]
    /\ UNCHANGED <<conf, sock, pipe, got, link>>

\* Mutant: the resid of a short IO is forgotten.
CompletedWhole(t, n) ==
    IF n = 0 THEN [t EXCEPT !.error = "full resid", !.left = 0]
    ELSE [t EXCEPT !.left = 0, !.done = @ + BlockSize]

\* fio_netio_queue returns n bytes: the IO is done, or its rest is queued again.
Completed(t, n) ==
    IF n = 0 THEN [t EXCEPT !.error = "full resid", !.left = 0]
    ELSE IF n = t.left THEN [t EXCEPT !.left = 0, !.done = @ + BlockSize]
    ELSE [t EXCEPT !.left = @ - n]

----------------------------------------------------------------------------
(* send and recv *)

Queue(datagram) ==
    \/ /\ link.listening /\ Len(sock) < SockBuf
       /\ sock' = Append(sock, datagram) /\ UNCHANGED link
    \/ /\ link.lost < MaxLost /\ conf.lossy
       /\ link' = [link EXCEPT !.lost = @ + 1] /\ UNCHANGED sock

\* fio_netio_send: without waiting, for room, then until all of it is sent.
fio_netio_send ==
    /\ pc[writer] = "try"
    /\ IF Udp
       THEN /\ Queue(Buffer(0))
            /\ td' = [td EXCEPT ![writer] = Completed(@, td[writer].left)]
            /\ Goto(writer, "get")
       ELSE IF link.reader_closed
       THEN /\ Goto(writer, "ended") /\ td' = [td EXCEPT ![writer].error = "SIGPIPE"]
            /\ UNCHANGED <<sock, link>>
       ELSE IF Room = 0 THEN Goto(writer, "poll") /\ UNCHANGED <<td, sock, link>>
       ELSE /\ sock' = sock \o First(Buffer(0), Room)
            /\ td' = [td EXCEPT ![writer] = Completed(@, Least(Room, @.left))]
            /\ Goto(writer, "get") /\ UNCHANGED link
    /\ UNCHANGED <<conf, pipe, got>>

SendWaiting ==
    LET n == Least(Room, td[writer].left - td[writer].xfer)
        t == [td[writer] EXCEPT !.xfer = @ + n]
    IN /\ pc[writer] = "wait"
       /\ IF link.reader_closed
          THEN /\ Goto(writer, "ended") /\ td' = [td EXCEPT ![writer].error = "SIGPIPE"]
               /\ UNCHANGED sock
          ELSE /\ Room > 0
               /\ sock' = sock \o SubSeq(Buffer(td[writer].xfer), 1, n)
               /\ IF t.xfer = t.left
                  THEN td' = [td EXCEPT ![writer] = Completed(t, t.left)] /\ Goto(writer, "get")
                  ELSE td' = [td EXCEPT ![writer] = t] /\ UNCHANGED pc
       /\ UNCHANGED <<conf, pipe, got, link>>

\* recvfrom and is_udp_close
RecvFrom(msg) ==
    IF msg = FIO_LINK_CLOSE
    THEN td' = [td EXCEPT ![reader] = Completed(@, 0)] /\ UNCHANGED got
    ELSE /\ got' = got \o First(msg, td[reader].left)
         /\ td' = [td EXCEPT ![reader] = Completed(@, Least(Len(msg), @.left))]

\* What the socket of a stream hands out.
Taken(n) == SubSeq(sock, 1, n)

\* fio_netio_recv: without waiting, for data, then until the buffer is full.
fio_netio_recv ==
    LET n == Least(Len(sock), td[reader].left)
    IN /\ pc[reader] = "try"
       /\ IF sock = <<>> THEN Goto(reader, "poll") /\ UNCHANGED <<td, sock, got>>
          ELSE /\ Goto(reader, "get")
               /\ IF Udp THEN RecvFrom(Head(sock)) /\ sock' = Tail(sock)
                  ELSE /\ got' = got \o Taken(n)
                       /\ sock' = SubSeq(sock, n + 1, Len(sock))
                       /\ td' = [td EXCEPT ![reader] = Completed(@, n)]
       /\ UNCHANGED <<conf, pipe, link>>

\* MSG_WAITALL
RecvWaiting ==
    LET n == Least(Len(sock), td[reader].left - td[reader].xfer)
        t == [td[reader] EXCEPT !.xfer = @ + n]
    IN /\ pc[reader] = "wait"
       /\ sock # <<>> \/ link.writer_closed
       /\ IF sock = <<>>
          THEN /\ IF t.xfer = 0 THEN Goto(reader, "poll") /\ UNCHANGED td
                  ELSE Goto(reader, "get") /\ td' = [td EXCEPT ![reader] = Completed(t, t.xfer)]
               /\ UNCHANGED <<sock, got>>
          ELSE IF Udp THEN RecvFrom(Head(sock)) /\ sock' = Tail(sock) /\ Goto(reader, "get")
          ELSE /\ got' = got \o Taken(n)
               /\ sock' = SubSeq(sock, n + 1, Len(sock))
               /\ IF t.xfer = t.left
                  THEN td' = [td EXCEPT ![reader] = Completed(t, t.left)] /\ Goto(reader, "get")
                  ELSE td' = [td EXCEPT ![reader] = t] /\ UNCHANGED pc
       /\ UNCHANGED <<conf, pipe, link>>

\* What poll waits for.
Ready(j) == IF j = writer THEN Room > 0 \/ link.reader_closed
            ELSE sock # <<>> \/ link.writer_closed

\* poll_wait: when the job is terminated, poll is not called any more or was
\* interrupted, and what poll should have returned is not initialized.
poll_wait(j) ==
    /\ pc[j] = "poll"
    /\ \/ ~Terminated(j) /\ Ready(j) /\ Goto(j, "wait") /\ UNCHANGED td
       \/ Terminated(j) /\ Goto(j, "wait") /\ UNCHANGED td
       \/ Terminated(j) /\ Goto(j, "get") /\ td' = [td EXCEPT ![j].error = "interrupted"]
    /\ UNCHANGED <<conf, sock, pipe, got, link>>

\* The job is terminated and gets a signal: a call that waits is interrupted
\* and returns what it has done so far, or begins again (SA_RESTART).
Terminate(j) ==
    /\ conf.terminate /\ ~Terminated(j)
    /\ link' = [link EXCEPT !.terminate = @ \cup {j}]
    /\ IF pc[j] # "wait" \/ td[j].xfer = 0 THEN UNCHANGED <<pc, td>>
       ELSE Goto(j, "get") /\ td' = [td EXCEPT ![j] = Completed(@, td[j].xfer)]
    /\ UNCHANGED <<conf, sock, pipe, got>>

----------------------------------------------------------------------------
(* splice and vmsplice *)

PipeRoom(j) == PipeSize - Len(pipe[j])

SpliceLen(j) == td[j].left

\* fio_netio_splice_out: into the pipe, all of it, then to the socket.
vmsplice_io_u_in ==
    LET n == Least(PipeRoom(writer), td[writer].left - td[writer].xfer)
        full == td[writer].xfer + n = td[writer].left
    IN /\ pc[writer] = "vmsplice" /\ n > 0
       /\ pipe' = [pipe EXCEPT ![writer] = @ \o SubSeq(Buffer(td[writer].xfer), 1, n)]
       /\ td' = [td EXCEPT ![writer].xfer = IF full THEN 0 ELSE @ + n]
       /\ IF full THEN Goto(writer, "splice") ELSE UNCHANGED pc
       /\ UNCHANGED <<conf, sock, got, link>>

splice_out ==
    LET n == Least(Room, SpliceLen(writer) - td[writer].xfer)
        t == [td[writer] EXCEPT !.xfer = @ + n]
    IN /\ pc[writer] = "splice"
       /\ IF link.reader_closed
          THEN /\ Goto(writer, "ended") /\ td' = [td EXCEPT ![writer].error = "SIGPIPE"]
               /\ UNCHANGED <<sock, pipe>>
          ELSE /\ n > 0
               /\ sock' = sock \o SubSeq(pipe[writer], 1, n)
               /\ pipe' = [pipe EXCEPT ![writer] = SubSeq(@, n + 1, Len(@))]
               /\ IF t.xfer = SpliceLen(writer)
                  THEN td' = [td EXCEPT ![writer] = Completed(t, t.xfer)] /\ Goto(writer, "get")
                  ELSE td' = [td EXCEPT ![writer] = t] /\ UNCHANGED pc
       /\ UNCHANGED <<conf, got, link>>

\* fio_netio_splice_in: from the socket into the pipe, then to the buffer.
splice_in ==
    LET n == Least(Least(Len(sock), PipeRoom(reader)), td[reader].left - td[reader].xfer)
        t == [td[reader] EXCEPT !.xfer = @ + n]
    IN /\ pc[reader] = "splice"
       /\ n > 0 \/ (link.writer_closed /\ sock = <<>>)
       /\ pipe' = [pipe EXCEPT ![reader] = @ \o Taken(n)]
       /\ sock' = SubSeq(sock, n + 1, Len(sock))
       /\ td' = [td EXCEPT ![reader] = t]
       /\ IF n = 0 \/ t.xfer = t.left THEN Goto(reader, "vmsplice") ELSE UNCHANGED pc
       /\ UNCHANGED <<conf, got, link>>

vmsplice_io_u_out ==
    LET n == td[reader].xfer
    IN /\ pc[reader] = "vmsplice"
       /\ got' = got \o SubSeq(pipe[reader], 1, n)
       /\ pipe' = [pipe EXCEPT ![reader] = SubSeq(@, n + 1, Len(@))]
       /\ td' = [td EXCEPT ![reader] = Completed(@, n)]
       /\ Goto(reader, "get")
       /\ UNCHANGED <<conf, sock, link>>

----------------------------------------------------------------------------
(* Closing *)

\* fio_netio_close_file: on UDP a message tells the reader; netsplice closes
\* with generic_close_file and sends none.
fio_netio_close_file(j) ==
    /\ pc[j] = "close" /\ Goto(j, "ended")
    /\ IF j = writer /\ Udp /\ ~conf.use_splice
       THEN \/ Queue(FIO_LINK_CLOSE)
            \/ pc[reader] = "ended" /\ UNCHANGED <<sock, link>>
       ELSE /\ link' = IF j = writer THEN [link EXCEPT !.writer_closed = TRUE]
                       ELSE [link EXCEPT !.reader_closed = TRUE]
            /\ UNCHANGED sock
    /\ UNCHANGED <<conf, td, pipe, got>>

Init ==
    /\ conf \in Confs
    /\ pc = [j \in Jobs |-> "init"]
    /\ td = [j \in Jobs |-> [done |-> 0, left |-> 0, xfer |-> 0, error |-> "none"]]
    /\ sock = <<>> /\ got = <<>>
    /\ pipe = [j \in Jobs |-> <<>>]
    /\ link = [listening |-> FALSE, connected |-> FALSE, writer_closed |-> FALSE,
               reader_closed |-> FALSE, lost |-> 0, terminate |-> {}]

Ended == \A j \in Jobs : pc[j] = "ended"

JobStep(j) ==
    \/ fio_netio_init(j) \/ Get(j) \/ poll_wait(j) \/ fio_netio_close_file(j)
    \/ /\ j = writer
       /\ \/ fio_netio_connect \/ fio_netio_send \/ SendWaiting
          \/ vmsplice_io_u_in \/ splice_out
    \/ /\ j = reader
       /\ \/ fio_netio_accept \/ fio_netio_recv \/ RecvWaiting
          \/ splice_in \/ vmsplice_io_u_out

Next == \E j \in Jobs : JobStep(j) \/ Terminate(j)

Spec == Init /\ [][Next]_vars /\ \A j \in Jobs : WF_vars(JobStep(j))

----------------------------------------------------------------------------
(* Properties *)

\* On a stream the reader's buffers, the pipes and the network hold what the
\* writer has sent, each byte once and in order, whatever was split where and
\* whichever IO was queued again.
StreamIntact ==
    ~Udp => LET sent == got \o pipe[reader] \o sock \o pipe[writer]
            IN sent = [i \in 1 .. Len(sent) |-> i]

\* What the jobs count is what they have done: the reader's bytes are in its
\* buffers, and of the writer's none is missing on the way.
BytesCounted ==
    ~Udp => /\ td[reader].done <= Len(got)
            /\ td[writer].done <= Len(got) + Len(pipe[reader]) + Len(sock)

\* A job fails only for a reason: nobody listened, the reader went away, or
\* the link was closed when data was missing.
ErrorsReal ==
    /\ td[writer].error = "refused" => ~conf.together \/ td[reader].error = "accept"
    /\ td[writer].error = "SIGPIPE" =>
         td[reader].done >= conf.read_size \/ Terminated(reader) \/ td[reader].error = "accept"
    /\ \A j \in Jobs : td[j].error = "interrupted" => Terminated(j)
    /\ td[reader].error = "accept" => td[reader].done = 0 /\ got = <<>>
    /\ td[reader].error = "full resid" =>
         /\ Udp \/ UseSplice
         /\ pc[writer] = "ended"
         /\ link.lost > 0 \/ Terminated(writer) \/ conf.write_size < conf.read_size

\* A reader of a stream that asks for more than is written finds its socket
\* readable for ever, and nothing in it.
RecvSpins == ~Udp /\ ~UseSplice /\ conf.write_size < conf.read_size
=============================================================================
