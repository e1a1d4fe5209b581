---------------------------- MODULE ClientServer ----------------------------
(***************************************************************************)
(* fio --client: one client process (client.c) drives a fio server         *)
(* (server.c) on each host over its own stream connection.                 *)
(*                                                                         *)
(* The client connects, probes, sends the remote arguments (JOBLINE) and   *)
(* the job file (JOB), then polls all connections, collects ETA replies in *)
(* rounds and drops a server when it says QUIT, disconnects, or leaves a   *)
(* command unanswered.  The server reads commands one by one; while a job  *)
(* runs it reads them in the idle loop of run_threads.                     *)
(*                                                                         *)
(* Payloads are counted in units of which a packet holds MAX_PDU.          *)
(***************************************************************************)
EXTENDS Integers, Sequences, FiniteSets, SequencesExt

CONSTANTS Hosts,     \* the servers
          Confs,     \* what the client is asked to do, what goes wrong, and the
                     \* bounds: on the rounds of ETA requests (etas), and of
                     \* every host on the turns of its idle loop (turns)
          MAX_PDU    \* FIO_SERVER_MAX_PDU

VARIABLES conf,    \* the remote arguments, whether there is a job file, the
                   \* faults and the weak hosts that meet them
          cs,      \* the client's lists and counters
          cpc,     \* where the client is
          pfds,    \* the poll array of fio_handle_clients
          ready,   \* its entries with POLLIN in revents
          i,       \* the loop counter
          retval,  \* what fio_handle_clients returns
          c2s, s2c,  \* the two directions of every connection
          eof,     \* connections the server has closed
          srv,     \* the servers
          ran      \* of every host: how far its job file got

vars == <<conf, cs, cpc, pfds, ready, i, retval, c2s, s2c, eof, srv, ran>>
clientVars == <<cs, cpc, pfds, ready, i, retval>>

Client_created == 0
Client_connected == 1
Client_started == 2
Client_running == 3
Client_stopped == 4

----------------------------------------------------------------------------
(* Commands on the wire *)

\* A payload goes out in packets of at most MAX_PDU; all but the last have
\* FIO_NET_CMD_F_MORE.
fio_net_send_cmd(op, size, tag, val) ==
    LET n == IF size = 0 THEN 1 ELSE (size + MAX_PDU - 1) \div MAX_PDU
    IN [k \in 1 .. n |->
          [opcode |-> op, tag |-> tag, val |-> val, more |-> k < n,
           pdu_len |-> IF k < n THEN MAX_PDU ELSE size - (n - 1) * MAX_PDU]]

fio_net_send_simple_cmd(op, tag) == fio_net_send_cmd(op, 0, tag, 0)

\* Reading puts them together again: up to the first packet without
\* F_MORE or without payload, or of another opcode, which is an error.
LastOf(ch) ==
    {k \in 1 .. Len(ch) :
        /\ \A j \in 1 .. k - 1 : /\ ch[j].more /\ ch[j].pdu_len > 0
                                 /\ ch[j].opcode = ch[1].opcode
        /\ ~ch[k].more \/ ch[k].pdu_len = 0 \/ ch[k].opcode # ch[1].opcode}

\* There is a command to read, or the end of the connection.
Readable(ch, closed) == LastOf(ch) # {} \/ closed

\* "fails" is what fio_net_recv_cmd makes of a broken connection.
fio_net_recv_cmd(ch) ==
    IF LastOf(ch) = {} THEN [opcode |-> "fails", tag |-> 0, val |-> 0, pdu_len |-> 0]
    ELSE LET k == CHOOSE k \in LastOf(ch) : TRUE IN
         IF ch[k].opcode # ch[1].opcode
         THEN [opcode |-> "fails", tag |-> 0, val |-> 0, pdu_len |-> 0]
         ELSE [opcode |-> ch[1].opcode, tag |-> ch[1].tag, val |-> ch[1].val,
               pdu_len |-> FoldLeft(LAMBDA n, p : n + p.pdu_len, 0,
                                    SubSeq(ch, 1, k))]

Rest(ch) ==
    IF LastOf(ch) = {} THEN <<>>
    ELSE LET k == CHOOSE k \in LastOf(ch) : TRUE IN SubSeq(ch, k + 1, Len(ch))

\* Payloads larger than a packet: job files and thread statistics.
SizeOf(op) == IF op \in {"JOB", "TS"} THEN MAX_PDU + 1
              ELSE IF op \in {"PROBE", "ETA", "JOBLINE", "STOP"} THEN 1
              ELSE 0

Packets(op, tag, val) == fio_net_send_cmd(op, SizeOf(op), tag, val)

----------------------------------------------------------------------------
(* The client's lists *)

\* The status line of a round of ETAs is displayed when the last reply it
\* waits for is in, and the round is freed.
dec_jobs_eta(w, e) ==
    IF w.etas[e].freed THEN [w EXCEPT !.failed = TRUE]
    ELSE [w EXCEPT !.etas[e].pending = @ - 1,
                   !.etas[e].freed = w.etas[e].pending = 1]

\* remove_client and put_client: the last reference takes the client off
\* the lists and out of the round it is in.
remove_client(w, h) ==
    IF w.cl[h].refs = 0 THEN [w EXCEPT !.failed = TRUE]
    ELSE IF w.cl[h].refs > 1 THEN [w EXCEPT !.cl[h].refs = @ - 1]
    ELSE LET gone == [w EXCEPT !.cl[h].refs = 0, !.cl[h].eta = 0,
                        !.client_list = SelectSeq(@, LAMBDA c : c # h),
                        !.nr_clients = @ - 1, !.sum_stat_clients = @ - 1]
         IN IF w.cl[h].eta # 0 THEN dec_jobs_eta(gone, w.cl[h].eta) ELSE gone

\* A command whose reply will be looked for.
Remember(w, h, op, eta) ==
    [w EXCEPT !.nextid = @ + 1,
              !.cl[h].cmds = Append(@, [id |-> w.nextid, op |-> op,
                                        saved_tag |-> eta, old |-> FALSE])]

remove_reply_cmd(w, h, id) ==
    [w EXCEPT !.cl[h].cmds = SelectSeq(@, LAMBDA c : c.id # id)]

----------------------------------------------------------------------------
(* Connecting and sending the job *)

Send(h, packets) == c2s' = [c2s EXCEPT ![h] = @ \o packets]

\* fio_clients_connect for one client: connect, probe, and send the command
\* line if it has more than the name of the program.
ConnectClient(h) ==
    /\ cpc = "connect" /\ cs.cl[h].state = Client_created /\ cs.cl[h].refs > 0
    /\ h = Head(SelectSeq(cs.client_list,
                          LAMBDA c : cs.cl[c].state = Client_created))
    /\ \/ /\ cs' = [Remember(cs, h, "PROBE", 0)
                      EXCEPT !.cl[h].state = Client_connected]
          /\ Send(h, fio_net_send_simple_cmd("PROBE", cs.nextid)
                     \o IF conf.remote = "none" THEN <<>>
                        ELSE Packets("JOBLINE", 0, 0))
          /\ srv' = [srv EXCEPT ![h].pc = "conn"]
       \/ /\ "connect" \in conf.faults /\ h \in conf.weak
          /\ cs' = remove_client(cs, h)
          /\ UNCHANGED <<c2s, srv>>
    /\ UNCHANGED <<conf, cpc, pfds, ready, i, retval, s2c, eof, ran>>

\* No client is left after connecting: parse_options goes on as if there
\* had been none, and fio_backend finds no jobs.
NobodyConnected ==
    /\ cpc = "connect" /\ cs.nr_clients = 0
    /\ cpc' = "ended"
    /\ UNCHANGED <<conf, cs, pfds, ready, i, retval, c2s, s2c, eof, srv, ran>>

\* Who is not sent the job file: all when it cannot be read, a host whose
\* connection breaks.
Unsent == {{}} \cup IF "send" \in conf.faults THEN {Hosts, conf.weak} ELSE {}

\* fio_clients_send_ini, when there is a job file, and the beginning of
\* fio_handle_clients.
fio_clients_send_ini ==
    /\ cpc = "connect" /\ cs.nr_clients > 0
    /\ \A h \in ToSet(cs.client_list) : cs.cl[h].state # Client_created
    /\ \E lost \in IF conf.job_file THEN Unsent ELSE {{}} :
         LET w == FoldLeft(remove_client, cs,
                           SelectSeq(cs.client_list, LAMBDA h : h \in lost))
             here == ToSet(cs.client_list)
         IN /\ cs' = [w EXCEPT !.sum_stat_clients = w.nr_clients,
                        !.cl = [h \in Hosts |-> [w.cl[h] EXCEPT !.sent_job =
                                  conf.job_file /\ h \in here]]]
            /\ c2s' = [h \in Hosts |->
                         IF conf.job_file /\ h \in here \ lost
                         THEN c2s[h] \o Packets("JOB", 0, 0) ELSE c2s[h]]
            /\ ran' = [h \in Hosts |-> IF h \in here \cap lost THEN "unsent"
                                       ELSE ran[h]]
            /\ cpc' = IF w.nr_clients = 0 THEN "ended" ELSE "head"
            /\ retval' = IF w.nr_clients = 0 THEN 1 ELSE 0
    /\ UNCHANGED <<conf, pfds, ready, i, s2c, eof, srv>>

\* sig_int: SIGINT or SIGTERM of the client, once, tells every server on
\* the list that is connected to quit.
sig_int ==
    /\ "int" \in conf.faults /\ ~cs.interrupted /\ cpc # "ended"
    /\ cs' = [cs EXCEPT !.interrupted = TRUE]
    /\ c2s' = [h \in Hosts |->
                 IF h \in ToSet(cs.client_list) /\ cs.cl[h].state # Client_created
                 THEN c2s[h] \o fio_net_send_simple_cmd("QUIT", 0) ELSE c2s[h]]
    /\ UNCHANGED <<conf, cpc, pfds, ready, i, retval, s2c, eof, srv, ran>>

----------------------------------------------------------------------------
(* fio_handle_clients *)

\* The head of the loop: clients that have nothing to wait for are removed,
\* the others polled.
Head_ ==
    LET idle(h) == ~cs.cl[h].sent_job /\ cs.cl[h].cmds = <<>>
        w == FoldLeft(remove_client, cs, SelectSeq(cs.client_list, idle))
    IN /\ cpc = "head"
       /\ cs' = [w EXCEPT !.failed = @ \/ Len(w.client_list) # w.nr_clients]
       /\ pfds' = w.client_list
       /\ cpc' = IF w.nr_clients = 0 THEN "ended" ELSE "poll"
       /\ UNCHANGED <<conf, ready, i, retval, c2s, s2c, eof, srv, ran>>

\* A round of ETAs: it waits for as many replies as there are clients, is
\* sent to those that run and owe no earlier reply, and counts those that do
\* as answered.
request_client_etas(w) ==
    LET e == Len(w.etas) + 1
        asked(h) == w.cl[h].eta = 0 /\ w.cl[h].state = Client_running
        skipped == SelectSeq(w.client_list, LAMBDA h : w.cl[h].eta # 0)
        ask(v, h) == [Remember(v, h, "SEND_ETA", e) EXCEPT !.cl[h].eta = e]
    IN FoldLeft(LAMBDA v, h : dec_jobs_eta(v, e),
                FoldLeft(ask, [w EXCEPT !.etas = Append(@,
                                  [pending |-> w.nr_clients, freed |-> FALSE])],
                         SelectSeq(w.client_list, asked)),
                skipped)

\* client_check_cmd_timeout: commands older than FIO_NET_CLIENT_TIMEOUT are
\* dropped; TRUE when that leaves none.
OldCmds(w, h) == SelectSeq(w.cl[h].cmds, LAMBDA c : c.old)
DropOld(w, h) == [w EXCEPT !.cl[h].cmds = SelectSeq(@, LAMBDA c : ~c.old)]

client_check_cmd_timeout(w, h) ==
    OldCmds(w, h) # <<>> /\ DropOld(w, h).cl[h].cmds = <<>>

fio_client_timed_out(w) ==
    FoldLeft(LAMBDA v, h : IF client_check_cmd_timeout(v, h)
                           THEN [remove_client(DropOld(v, h), h)
                                   EXCEPT !.timed_out = @ \cup {h}]
                           ELSE DropOld(v, h),
             w, w.client_list)

\* 900 msecs have passed in the poll loop.  After a timeout the loop is left
\* with the revents of the last poll.
EtaTick ==
    LET asked == request_client_etas(cs)
        w == fio_client_timed_out(asked)
        new(h) == SelectSeq(asked.cl[h].cmds, LAMBDA c : c.id >= cs.nextid)
    IN /\ cpc = "poll" /\ Len(cs.etas) < conf.etas
       /\ cs' = w
       /\ c2s' = [h \in Hosts |-> c2s[h] \o
                    FlattenSeq([k \in 1 .. Len(new(h)) |->
                        fio_net_send_simple_cmd("SEND_ETA", new(h)[k].id)])]
       /\ cpc' = IF w.nr_clients < cs.nr_clients THEN "fds" ELSE "poll"
       /\ i' = 1
       /\ UNCHANGED <<conf, pfds, ready, retval, s2c, eof, srv, ran>>

\* Mutant: the end of a connection does not show, and a poll that times out
\* leaves the loop.
PollNoHup ==
    /\ cpc = "poll"
    /\ ready' = {k \in 1 .. Len(pfds) : s2c[pfds[k]] # <<>>}
    /\ cpc' = "fds" /\ i' = 1
    /\ UNCHANGED <<conf, cs, pfds, retval, c2s, s2c, eof, srv, ran>>

Poll ==
    /\ cpc = "poll"
    /\ ready' = {k \in 1 .. Len(pfds) : s2c[pfds[k]] # <<>> \/ eof[pfds[k]]}
    /\ ready' # {}
    /\ cpc' = "fds" /\ i' = 1
    /\ UNCHANGED <<conf, cs, pfds, retval, c2s, s2c, eof, srv, ran>>

\* handle_ts: the sums over all clients are shown with the last of them.
handle_ts(w) ==
    IF w.sum_stat_clients = 1 THEN w
    ELSE [w EXCEPT !.sum_stat_nr = @ + 1,
                   !.shown = @ \/ w.sum_stat_nr + 1 = w.sum_stat_clients]

\* Mutant: the client stays in the round it has answered.
HandleEtaKept(w, h, id) ==
    LET known == {k \in 1 .. Len(w.cl[h].cmds) : w.cl[h].cmds[k].id = id}
    IN IF known = {} THEN [w EXCEPT !.failed = TRUE]
       ELSE dec_jobs_eta(remove_reply_cmd(w, h, id),
                         w.cl[h].cmds[CHOOSE k \in known : TRUE].saved_tag)

\* handle_eta asserts that the reply is to the round the client is in; a
\* reply whose command is no longer known carries no round at all.
handle_eta(w, h, id) ==
    LET known == {k \in 1 .. Len(w.cl[h].cmds) : w.cl[h].cmds[k].id = id}
        e == IF known = {} THEN 0
             ELSE w.cl[h].cmds[CHOOSE k \in known : TRUE].saved_tag
        v == remove_reply_cmd(w, h, id)
    IN IF e = 0 \/ w.cl[h].eta # e THEN [v EXCEPT !.failed = TRUE]
       ELSE dec_jobs_eta([v EXCEPT !.cl[h].eta = 0], e)

\* The server says that it is done.
HandleQuit(w, h) == [remove_client(w, h) EXCEPT !.finished = @ \cup {h}]

\* Mutant: the error of the job is not looked at.
HandleNoError(w, h, cmd) ==
    IF cmd.opcode = "QUIT" THEN HandleQuit(w, h)
    ELSE IF cmd.opcode = "TS" THEN handle_ts(w)
    ELSE IF cmd.opcode = "ETA" THEN handle_eta(w, h, cmd.tag)
    ELSE IF cmd.opcode = "PROBE" THEN remove_reply_cmd(w, h, cmd.tag)
    ELSE IF cmd.opcode = "RUN" THEN [w EXCEPT !.cl[h].state = Client_running]
    ELSE IF cmd.opcode = "START" THEN [w EXCEPT !.cl[h].state = Client_started]
    ELSE IF cmd.opcode = "STOP" THEN [w EXCEPT !.cl[h].state = Client_stopped]
    ELSE w

handle_client(w, h, cmd) ==
    IF cmd.opcode = "QUIT" THEN HandleQuit(w, h)
    ELSE IF cmd.opcode = "TS" THEN handle_ts(w)
    ELSE IF cmd.opcode = "ETA" THEN handle_eta(w, h, cmd.tag)
    ELSE IF cmd.opcode = "PROBE" THEN remove_reply_cmd(w, h, cmd.tag)
    ELSE IF cmd.opcode = "RUN" THEN [w EXCEPT !.cl[h].state = Client_running]
    ELSE IF cmd.opcode = "START" THEN [w EXCEPT !.cl[h].state = Client_started]
    ELSE IF cmd.opcode = "STOP"
    THEN [w EXCEPT !.cl[h].state = Client_stopped, !.cl[h].error = cmd.val]
    ELSE w

\* One entry of the poll array.  find_client_by_fd takes a reference, and
\* reading a command blocks until it is there or the connection ends.
HandleFd ==
    /\ cpc = "fds" /\ i <= cs.nr_clients
    /\ i' = i + 1
    /\ UNCHANGED <<conf, cpc, pfds, ready, c2s, eof, srv, ran>>
    /\ IF i \notin ready \/ cs.cl[pfds[i]].refs = 0
       THEN UNCHANGED <<cs, retval, s2c>>
       ELSE LET h == pfds[i]
                held == [cs EXCEPT !.cl[h].refs = @ + 1]
                cmd == fio_net_recv_cmd(s2c[h])
                w == IF cmd.opcode = "fails" THEN remove_client(held, h)
                     ELSE handle_client(held, h, cmd)
            IN /\ Readable(s2c[h], eof[h])
               /\ s2c' = [s2c EXCEPT ![h] = Rest(@)]
               /\ retval' = IF cmd.opcode = "fails" \/ w.cl[h].error # 0
                            THEN 1 ELSE retval
               /\ cs' = remove_client(w, h)

EndFds ==
    /\ cpc = "fds" /\ i > cs.nr_clients
    /\ cpc' = IF cs.nr_clients = 0 THEN "ended" ELSE "head"
    /\ UNCHANGED <<conf, cs, pfds, ready, i, retval, c2s, s2c, eof, srv, ran>>

----------------------------------------------------------------------------
(* The server *)

Reply(h, packets) == s2c' = [s2c EXCEPT ![h] = @ \o packets]

\* handle_connection returns on an error of a command: from the idle loop
\* to the running job, otherwise the connection is closed.
LeaveConnection(h) ==
    IF srv[h].pc = "nested"
    THEN srv' = [srv EXCEPT ![h].pc = "run"] /\ UNCHANGED eof
    ELSE srv' = [srv EXCEPT ![h].pc = "closed"] /\ eof' = [eof EXCEPT ![h] = TRUE]

handle_probe_cmd(h, cmd) ==
    /\ cmd.opcode = "PROBE"
    /\ Reply(h, Packets("PROBE", cmd.tag, 0))
    /\ UNCHANGED <<srv, ran, eof>>

\* No reply when there are no jobs.
handle_send_eta_cmd(h, cmd) ==
    /\ cmd.opcode = "SEND_ETA"
    /\ IF srv[h].thread_number = 0
       THEN UNCHANGED s2c
       ELSE Reply(h, Packets("ETA", cmd.tag, 0))
    /\ UNCHANGED <<srv, ran, eof>>

\* The job file is parsed, and run unless that fails.
handle_job_cmd(h, cmd) ==
    /\ cmd.opcode = "JOB"
    /\ \/ /\ "parse" \in conf.faults /\ h \in conf.weak
          /\ Reply(h, Packets("QUIT", 0, 0))
          /\ ran' = [ran EXCEPT ![h] = "refused"]
          /\ LeaveConnection(h)
       \/ /\ Reply(h, Packets("START", 0, 0))
          /\ srv' = [srv EXCEPT ![h] = [pc |-> "run", thread_number |-> 1,
                                        cmd |-> "JOB", turns |-> 0]]
          /\ ran' = [ran EXCEPT ![h] = "running"]
          /\ UNCHANGED eof

\* Arguments that cannot be parsed are refused like a job file; those that
\* define no job leave fio_backend at once.
handle_jobline_cmd(h, cmd) ==
    /\ cmd.opcode = "JOBLINE"
    /\ \/ /\ "parse" \in conf.faults /\ h \in conf.weak
          /\ Reply(h, Packets("QUIT", 0, 0))
          /\ ran' = [ran EXCEPT ![h] = "refused"]
          /\ LeaveConnection(h)
       \/ /\ conf.remote = "job"
          /\ Reply(h, Packets("START", 0, 0))
          /\ srv' = [srv EXCEPT ![h] = [pc |-> "run", thread_number |-> 1,
                                        cmd |-> "JOBLINE", turns |-> 0]]
          /\ ran' = [ran EXCEPT ![h] = "running"]
          /\ UNCHANGED eof
       \/ /\ conf.remote # "job"
          /\ Reply(h, Packets("START", 0, 0) \o Packets("QUIT", 0, 0))
          /\ UNCHANGED <<srv, ran, eof>>

\* QUIT: the jobs are told to terminate, which JobsDone may do at any time,
\* and the connection is left.
handle_quit_cmd(h, cmd) ==
    /\ cmd.opcode = "QUIT"
    /\ ran' = [ran EXCEPT ![h] = IF @ = "no" THEN "quit" ELSE @]
    /\ LeaveConnection(h)
    /\ UNCHANGED s2c

\* handle_connection, waiting for commands or called from the idle loop.
\* Nothing sends EXIT.
handle_command(h) ==
    LET cmd == fio_net_recv_cmd(c2s[h]) IN
    /\ srv[h].pc \in {"conn", "nested"}
    /\ UNCHANGED <<clientVars, conf>>
    /\ LastOf(c2s[h]) # {}
    /\ c2s' = [c2s EXCEPT ![h] = Rest(@)]
    /\ \/ handle_probe_cmd(h, cmd) \/ handle_send_eta_cmd(h, cmd)
       \/ handle_job_cmd(h, cmd) \/ handle_jobline_cmd(h, cmd)
       \/ handle_quit_cmd(h, cmd)

\* fio_server_idle_loop: RUN is sent every time round.
fio_server_idle_loop(h) ==
    /\ UNCHANGED <<clientVars, conf, c2s, eof, ran>>
    /\ \/ /\ srv[h].pc = "run"
          /\ srv[h].turns < conf.turns[h]
          /\ Reply(h, Packets("RUN", 0, 0))
          /\ srv' = [srv EXCEPT ![h].pc = "nested", ![h].turns = @ + 1]
       \/ /\ srv[h].pc = "nested" /\ LastOf(c2s[h]) = {}
          /\ srv' = [srv EXCEPT ![h].pc = "run"]
          /\ UNCHANGED s2c

\* Mutant: the server says QUIT before it sends the statistics.
QuitFirst(h) ==
    /\ srv[h].pc = "run"
    /\ Reply(h, Packets("QUIT", 0, 0))
    /\ srv' = [srv EXCEPT ![h].pc = "conn", ![h].thread_number = 0]
    /\ UNCHANGED <<clientVars, conf, c2s, eof, ran>>

\* The jobs are done: statistics (TEXT, GS and DU, which the client only
\* shows, are left out), the exit value (of a job file), QUIT.  An
\* exit value other than 0 also ends the connection.
JobsDone(h) ==
    \E error \in {0} \cup {1 : f \in {"error"} \cap conf.faults} :
        /\ srv[h].pc = "run"
        /\ UNCHANGED <<clientVars, conf, c2s>>
        /\ Reply(h, Packets("TS", 0, 0)
                    \o (IF srv[h].cmd = "JOB" THEN Packets("STOP", 0, error)
                                              ELSE <<>>)
                    \o Packets("QUIT", 0, 0))
        /\ ran' = [ran EXCEPT ![h] = IF error = 0 THEN "done" ELSE "failed"]
        /\ srv' = [srv EXCEPT ![h].pc = IF error = 0 THEN "conn" ELSE "closed",
                              ![h].thread_number = 0]
        /\ eof' = [eof EXCEPT ![h] = error # 0]

\* The server or the network dies, with packets still on their way.
Down(h) ==
    /\ "down" \in conf.faults /\ h \in conf.weak /\ srv[h].pc \notin {"none", "closed"}
    /\ srv' = [srv EXCEPT ![h].pc = "closed"]
    /\ \E n \in 0 .. Len(s2c[h]) : s2c' = [s2c EXCEPT ![h] = SubSeq(@, 1, n)]
    /\ eof' = [eof EXCEPT ![h] = TRUE]
    /\ ran' = [ran EXCEPT ![h] = "lost"]
    /\ UNCHANGED <<clientVars, conf, c2s>>

\* More than FIO_NET_CLIENT_TIMEOUT passes before a reply is seen; commands
\* get old in the order they were sent.
Age(h) ==
    /\ "slow" \in conf.faults /\ h \in conf.weak
    /\ \E k \in 1 .. Len(cs.cl[h].cmds) :
         /\ \A j \in 1 .. k : cs.cl[h].cmds[j].old <=> j < k
         /\ cs' = [cs EXCEPT !.cl[h].cmds[k].old = TRUE]
    /\ UNCHANGED <<conf, cpc, pfds, ready, i, retval, c2s, s2c, eof, srv, ran>>

----------------------------------------------------------------------------
Init ==
    /\ conf \in Confs
    /\ cs = [cl |-> [h \in Hosts |-> [refs |-> 1, state |-> Client_created,
                      sent_job |-> FALSE, error |-> 0, eta |-> 0, cmds |-> <<>>]],
             client_list |-> SetToSeq(Hosts), nr_clients |-> Cardinality(Hosts),
             sum_stat_clients |-> 0, sum_stat_nr |-> 0, shown |-> FALSE,
             etas |-> <<>>, nextid |-> 1, timed_out |-> {}, finished |-> {},
             interrupted |-> FALSE,
             failed |-> FALSE]
    /\ cpc = "connect" /\ pfds = <<>> /\ ready = {} /\ i = 1 /\ retval = 0
    /\ c2s = [h \in Hosts |-> <<>>] /\ s2c = [h \in Hosts |-> <<>>]
    /\ eof = [h \in Hosts |-> FALSE]
    /\ srv = [h \in Hosts |-> [pc |-> "none", thread_number |-> 0, cmd |-> "none",
                              turns |-> 0]]
    /\ ran = [h \in Hosts |-> "no"]

ClientStep ==
    \/ \E h \in Hosts : ConnectClient(h)
    \/ NobodyConnected \/ fio_clients_send_ini \/ Head_ \/ Poll \/ HandleFd \/ EndFds

\* The thread of fio that runs run_threads also serves the connection.
ServerStep(h) == handle_command(h) \/ fio_server_idle_loop(h) \/ JobsDone(h)

Ended == cpc = "ended" /\ UNCHANGED vars

Next == \/ ClientStep \/ EtaTick \/ sig_int \/ Ended
        \/ \E h \in Hosts : ServerStep(h) \/ Down(h) \/ Age(h)

\* The client polls on, every server handles what it is sent, and jobs end.
Spec == Init /\ [][Next]_vars /\ WF_vars(ClientStep)
        /\ \A h \in Hosts : WF_vars(ServerStep(h))

----------------------------------------------------------------------------
(* Properties *)

TypeOK ==
    /\ cpc \in {"connect", "head", "poll", "fds", "ended"}
    /\ retval \in {0, 1} /\ cs.nr_clients \in 0 .. Cardinality(Hosts)
    /\ \A h \in Hosts : cs.cl[h].state \in 0 .. 4 /\ cs.cl[h].refs \in 0 .. 2

\* The assertions of client.c hold, a reference that is dropped is one that
\* was taken, and a round of ETAs is not touched after it was freed.
NeverFails == ~cs.failed

\* Between two commands every client on client_list has exactly one
\* reference, every other one none, and nr_clients counts them.
ClientsCounted ==
    /\ cs.nr_clients = Len(cs.client_list)
    /\ \A h \in Hosts : cs.cl[h].refs = IF h \in ToSet(cs.client_list)
                                        THEN 1 ELSE 0

\* The round a client owes a reply to is not freed, and waits for at least
\* as many replies as are owed to it.
EtaOwned ==
    \A e \in 1 .. Len(cs.etas) :
        LET owing == {h \in Hosts : cs.cl[h].eta = e} IN
        IF cs.etas[e].freed THEN owing = {}
        ELSE cs.etas[e].pending >= Cardinality(owing)

\* Clients and rounds of ETAs are counted right, and no assertion of client.c
\* fails, though answers come late, after a timeout or never.
ClientsExact == TypeOK /\ NeverFails /\ ClientsCounted /\ EtaOwned

\* A server that was sent a job file is dropped only when the job file has
\* been run or refused, the server is lost or was told to quit before the job
\* file came, or it left a command unanswered for FIO_NET_CLIENT_TIMEOUT:
\* nobody leaves early.
ServedToTheEnd ==
    \A h \in Hosts :
        cs.cl[h].refs = 0 /\ cs.cl[h].sent_job /\ h \notin cs.timed_out =>
            ran[h] \in {"done", "failed", "refused", "lost", "unsent", "quit"}

\* When a job file has failed on a server that was not given up, or the server
\* was lost before it said that it is done, the client ends with exit value 1.
ErrorsTold ==
    LET bad(h) == \/ ran[h] = "failed"
                  \/ ran[h] = "lost" /\ cs.cl[h].sent_job /\ h \notin cs.finished
    IN cpc = "ended" /\ (\E h \in Hosts \ cs.timed_out : bad(h)) => retval = 1

\* The client comes to its end.
Ends == <>(cpc = "ended")
=============================================================================
