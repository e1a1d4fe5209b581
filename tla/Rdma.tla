-------------------------------- MODULE Rdma --------------------------------
(***************************************************************************)
(* Two jobs with the engine rdma (engines/rdma.c): the client writes, the  *)
(* server reads.  With the memory semantics (RDMA_WRITE, RDMA_READ) the    *)
(* client moves the data alone and tells the server at the end; with the   *)
(* channel semantics (SEND) every message needs a receive of the server.   *)
(*                                                                         *)
(* Verbs and connection manager are external: a send queue in order, a     *)
(* receive queue, a completion queue that raises one event each time it    *)
(* was armed.  A work request is the number of its io_u, or Control.  The   *)
(* jobs set no rnr_retry_count: a message is not sent again when it finds  *)
(* no receive.                                                             *)
(***************************************************************************)
EXTENDS Integers, Sequences, SequencesExt, FiniteSets, FiniteSetsExt

CONSTANTS Confs       \* modes, depths and sizes of the jobs

VARIABLES conf,
          pc,         \* where each job is
          rd,         \* struct rdmaio_data of each job
          td,         \* of each job: free io_us, IOs issued and done, td->done
          hca,        \* of each job: receive and completion queue, the events,
                      \* and those got less those acknowledged
          wire,       \* of each job: sends posted, sends acknowledged
          link        \* listening, requested, established, and whose is broken

vars == <<conf, pc, rd, td, hca, wire, link>>

client == "client"
server == "server"
Jobs == {client, server}
Peer(j) == IF j = client THEN server ELSE client

Control == 0          \* wr_id FIO_RDMA_MAX_IO_DEPTH

FIO_RDMA_MEM_WRITE == "RDMA_WRITE"
FIO_RDMA_MEM_READ == "RDMA_READ"
FIO_RDMA_CHA_SEND == "SEND"
FIO_RDMA_CHA_RECV == "RECV"
MemorySemantics == {FIO_RDMA_MEM_WRITE, FIO_RDMA_MEM_READ}

IoUs(j) == 1 .. conf.iodepth[j]
CurDepth(j) == conf.iodepth[j] - Cardinality(td[j].free)
Goto(j, where) == pc' = [pc EXCEPT ![j] = where]

----------------------------------------------------------------------------
(* Queue pairs and completion queues *)

\* A completion is added: an armed queue raises an event.
Complete(h, wc) ==
    [h EXCEPT !.cq = Append(@, wc),
              !.events = IF h.armed THEN @ + 1 ELSE @, !.armed = FALSE]

Post(j, reqs) == wire' = [wire EXCEPT ![j].sq = @ \o reqs]

Send(id) == [op |-> FIO_RDMA_CHA_SEND, id |-> id]

Status(req, ok) == [op |-> req.op, id |-> req.id, ok |-> ok]

\* The head of the send queue reaches the other side.
Deliver(j) ==
    LET req == Head(wire[j].sq)
        rq == hca[Peer(j)].rq
        sent == [wire EXCEPT ![j].sq = Tail(@), ![j].acked = Append(@, Status(req, TRUE))]
    IN /\ wire[j].sq # <<>> /\ j \notin link.broken
       /\ \/ /\ req.op \in MemorySemantics
             /\ wire' = sent /\ UNCHANGED hca
          \/ /\ req.op = FIO_RDMA_CHA_SEND /\ rq # <<>>
             /\ wire' = sent
             /\ hca' = [hca EXCEPT ![Peer(j)] =
                           Complete([@ EXCEPT !.rq = Tail(@)],
                                    [op |-> FIO_RDMA_CHA_RECV, id |-> Head(rq), ok |-> TRUE])]
       /\ UNCHANGED <<conf, pc, rd, td, link>>

\* The completion of a send reaches its sender.
Acknowledge(j) ==
    /\ wire[j].acked # <<>>
    /\ wire' = [wire EXCEPT ![j].acked = Tail(@)]
    /\ hca' = [hca EXCEPT ![j] = Complete(@, Head(wire[j].acked))]
    /\ UNCHANGED <<conf, pc, rd, td, link>>

\* A send that finds no receive fails, and with it what comes after it.
ReceiverNotReady(j) ==
    LET req == Head(wire[j].sq)
    IN /\ wire[j].sq # <<>>
       /\ \/ j \in link.broken
          \/ req.op = FIO_RDMA_CHA_SEND /\ hca[Peer(j)].rq = <<>>
       /\ link' = [link EXCEPT !.broken = @ \cup {j}]
       /\ wire' = [wire EXCEPT ![j].sq = Tail(@), ![j].acked = Append(@, Status(req, FALSE))]
       /\ UNCHANGED <<conf, pc, rd, td, hca>>

----------------------------------------------------------------------------
(* Completions *)

\* client_recv and server_recv: what the message tells.
Received(j, r) ==
    IF j = client THEN [r EXCEPT !.rmt_nr = conf.iodepth[server]]
    ELSE [r EXCEPT !.rdma_protocol = IF conf.mode = FIO_RDMA_CHA_SEND
                                     THEN FIO_RDMA_CHA_RECV ELSE conf.mode]

\* The io_u in flight is completed, the last one put in its place.
Found(r, id) ==
    IF \E i \in DOMAIN r.flight : r.flight[i] = id
    THEN LET i == CHOOSE i \in DOMAIN r.flight : r.flight[i] = id
         IN [r EXCEPT !.completed = Append(@, id),
                      !.flight = Front([@ EXCEPT ![i] = Last(r.flight)])]
    ELSE r

Handled(j, r, wc) ==
    LET told == IF wc.op = FIO_RDMA_CHA_RECV /\ wc.id = Control THEN Received(j, r) ELSE r
        done == IF wc.id = Control THEN told ELSE Found(told, wc.id)
    IN [done EXCEPT !.cq_event_num = @ + 1]

\* cq_event_handler: polls until the queue is empty or a completion failed.
\* n is what it returns.
cq_event_handler(j) ==
    LET cq == hca[j].cq
        bad == {i \in DOMAIN cq : ~cq[i].ok}
        good == IF bad = {} THEN Len(cq) ELSE (CHOOSE i \in bad : \A k \in bad : i <= k) - 1
        after[k \in 0 .. good] == IF k = 0 THEN rd[j] ELSE Handled(j, after[k - 1], cq[k])
    IN [rd |-> after[good],
        n |-> IF bad = {} THEN good ELSE -1,
        cq |-> SubSeq(cq, IF bad = {} THEN good + 1 ELSE good + 2, Len(cq))]

\* Where a job goes on when what it waits for has completed.
AfterWait(j) ==
    CASE pc[j] = "sent" -> "replied"
      [] pc[j] = "replied" -> "loop"
      [] pc[j] = "request" -> "answer"
      [] pc[j] = "answer" -> "loop"
      [] pc[j] = "finish" -> IF j = client THEN "disconnect" ELSE rd[j].back
      [] OTHER -> "none"

\* The rest of the function that called rdma_poll_wait.
WaitOver(j) ==
    /\ Goto(j, AfterWait(j))
    /\ IF pc[j] = "request" THEN Post(j, <<Send(Control)>>) ELSE UNCHANGED wire
    /\ td' = IF pc[j] = "finish" /\ j = server THEN [td EXCEPT ![j].done = TRUE] ELSE td

Drop(s, n) == IF n >= Len(s) THEN <<>> ELSE SubSeq(s, n + 1, Len(s))

\* fio_rdmaio_event, for each event that getevents has returned.
Reaped(j, r, n) ==
    /\ rd' = [rd EXCEPT ![j] = [r EXCEPT !.completed = Drop(@, n), !.r = 0,
                                         !.short = @ \/ n > Len(r.completed)]]
    /\ td' = [td EXCEPT ![j].free = @ \cup (ToSet(r.completed) \ ToSet(Drop(r.completed, n))),
                        ![j].complete = @ + n]
    /\ Goto(j, IF td[j].ending THEN "close" ELSE "loop")

Waiting(j) == AfterWait(j) # "none"

\* rdma_poll_wait and fio_rdmaio_getevents take one that was left before.
PreviousLeft(j) ==
    /\ Waiting(j) \/ pc[j] = "getevents"
    /\ rd[j].step = "call" /\ rd[j].cq_event_num > 0
    /\ LET r == [rd[j] EXCEPT !.cq_event_num = @ - 1]
       IN IF Waiting(j) THEN rd' = [rd EXCEPT ![j] = r] /\ WaitOver(j)
          ELSE Reaped(j, r, 0) /\ UNCHANGED wire
    /\ UNCHANGED <<conf, hca, link>>

\* Mutant: notification is asked for only after the queue was polled.
GetEventUnarmed(j) ==
    /\ Waiting(j) \/ pc[j] = "getevents"
    /\ rd[j].step = "event" \/ (rd[j].step = "call" /\ rd[j].cq_event_num = 0)
    /\ hca[j].events > 0
    /\ hca' = [hca EXCEPT ![j].events = @ - 1, ![j].armed = hca[j].cq = <<>>,
                          ![j].unacked = @ + 1]
    /\ rd' = [rd EXCEPT ![j].step = "handle"]
    /\ UNCHANGED <<conf, pc, td, wire, link>>

\* ibv_get_cq_event waits for an event, ibv_req_notify_cq asks for the next.
GetEvent(j) ==
    /\ Waiting(j) \/ pc[j] = "getevents"
    /\ rd[j].step = "event" \/ (rd[j].step = "call" /\ rd[j].cq_event_num = 0)
    /\ hca[j].events > 0
    /\ hca' = [hca EXCEPT ![j].events = @ - 1, ![j].armed = TRUE, ![j].unacked = @ + 1]
    /\ rd' = [rd EXCEPT ![j].step = "handle"]
    /\ UNCHANGED <<conf, pc, td, wire, link>>

\* rdma_poll_wait returns, the others polled are left for the next call.
rdma_poll_wait(j, h) ==
    /\ rd' = [rd EXCEPT ![j] = [h.rd EXCEPT !.cq_event_num = @ - 1, !.step = "call"]]
    /\ WaitOver(j)

\* Mutant: the events taken are not taken off the count.
GetEventsLeft(j, h) ==
    LET r == rd[j].r + h.n
    IN IF r < rd[j].min
       THEN rd' = [rd EXCEPT ![j] = [h.rd EXCEPT !.r = r, !.step = "event"]]
            /\ UNCHANGED <<pc, td>>
       ELSE Reaped(j, [h.rd EXCEPT !.cq_event_num = @ - h.n + 1, !.step = "call"], r)

\* fio_rdmaio_getevents goes on until there are min.
fio_rdmaio_getevents(j, h) ==
    LET r == rd[j].r + h.n
    IN IF r < rd[j].min
       THEN rd' = [rd EXCEPT ![j] = [h.rd EXCEPT !.r = r, !.step = "event"]]
            /\ UNCHANGED <<pc, td>>
       ELSE Reaped(j, [h.rd EXCEPT !.cq_event_num = @ - r, !.step = "call"], r)

\* ibv_ack_cq_events is given the number of completions that were polled for
\* the one event that was got, and is not called when there was none.
Acked(h) == IF h.n < 1 THEN 0 ELSE h.n

HandleEvent(j) ==
    LET h == cq_event_handler(j)
    IN /\ rd[j].step = "handle"
       /\ hca' = [hca EXCEPT ![j].cq = h.cq, ![j].unacked = @ - Acked(h)]
       /\ IF h.n < 1
          THEN rd' = [rd EXCEPT ![j] = [h.rd EXCEPT !.step = "event"]] /\ UNCHANGED <<pc, td, wire>>
          ELSE IF Waiting(j) THEN rdma_poll_wait(j, h)
          ELSE fio_rdmaio_getevents(j, h) /\ UNCHANGED wire
       /\ UNCHANGED <<conf, link>>

----------------------------------------------------------------------------
(* Setting up *)

\* fio_rdmaio_setup_listen, until it waits for the connect request.
Listen ==
    /\ pc[server] = "init" /\ Goto(server, "listen")
    /\ link' = [link EXCEPT !.listening = TRUE]
    /\ UNCHANGED <<conf, rd, td, hca, wire>>

\* The queue pair and the receive of the control message.
SetUp(j) == hca' = [hca EXCEPT ![j].armed = TRUE, ![j].rq = <<Control>>]

fio_rdmaio_setup_listen ==
    /\ pc[server] = "listen" /\ link.requested
    /\ SetUp(server) /\ Goto(server, "open")
    /\ UNCHANGED <<conf, rd, td, wire, link>>

fio_rdmaio_setup_connect ==
    /\ pc[client] = "init" /\ SetUp(client) /\ Goto(client, "open")
    /\ UNCHANGED <<conf, rd, td, wire, link>>

\* fio_rdmaio_connect: a connection nobody listens for is rejected.
Connect ==
    /\ pc[client] = "open"
    /\ IF link.listening THEN link' = [link EXCEPT !.requested = TRUE] /\ Goto(client, "connect")
       ELSE UNCHANGED link /\ Goto(client, "refused")
    /\ UNCHANGED <<conf, rd, td, hca, wire>>

fio_rdmaio_connect ==
    /\ pc[client] = "connect" /\ link.established
    /\ Post(client, <<Send(Control)>>) /\ Goto(client, "sent")
    /\ UNCHANGED <<conf, rd, td, hca, link>>

fio_rdmaio_accept ==
    /\ pc[server] = "open" /\ Goto(server, "request")
    /\ link' = [link EXCEPT !.established = TRUE]
    /\ UNCHANGED <<conf, rd, td, hca, wire>>

----------------------------------------------------------------------------
(* do_io *)

EndEvents(j) == CurDepth(j)

\* The next io_u, until all are issued or none is free any more.
Loop(j) ==
    /\ pc[j] = "loop"
    /\ IF td[j].issued = conf.size[j] \/ td[j].free = {}
       THEN /\ td' = [td EXCEPT ![j].ending = TRUE]
            /\ rd' = [rd EXCEPT ![j].min = EndEvents(j)]
            /\ Goto(j, IF CurDepth(j) = 0 THEN "close" ELSE "reap")
       ELSE LET io_u == CHOOSE u \in td[j].free : \A v \in td[j].free : u <= v
            IN /\ td' = [td EXCEPT ![j].free = @ \ {io_u}, ![j].issued = @ + 1]
               /\ rd' = [rd EXCEPT ![j].queued = Append(@, io_u), ![j].back = "full"]
               /\ Goto(j, IF Len(rd[j].queued) + 1 >= conf.batch[j] THEN "commit" ELSE "full")
    /\ UNCHANGED <<conf, hca, wire, link>>

Full(j) ==
    /\ pc[j] = "full"
    /\ Goto(j, IF td[j].free = {} THEN "reap" ELSE "loop")
    /\ rd' = [rd EXCEPT ![j].min = 1]
    /\ UNCHANGED <<conf, td, hca, wire, link>>

\* td_io_getevents: nothing to reap once the client has finished, else what is
\* queued is committed first.
td_io_getevents(j) ==
    /\ pc[j] = "reap"
    /\ IF td[j].done
       THEN Goto(j, IF td[j].ending THEN "close" ELSE "loop") /\ UNCHANGED rd
       ELSE Goto(j, "commit") /\ rd' = [rd EXCEPT ![j].back = "getevents"]
    /\ UNCHANGED <<conf, td, hca, wire, link>>

\* fio_rdmaio_queued: what is committed is in flight, unless no issue time is
\* wanted (fio_fill_issue_time).
fio_rdmaio_queued(r) ==
    [r EXCEPT !.flight = IF conf.fill_issue_time THEN @ \o r.queued ELSE @,
              !.queued = <<>>]

\* fio_rdmaio_send and fio_rdmaio_recv
fio_rdmaio_commit(j) ==
    /\ pc[j] = "commit"
    /\ \/ /\ j = client
          /\ Post(j, [i \in DOMAIN rd[j].queued |->
                         [op |-> conf.mode, id |-> rd[j].queued[i]]])
          /\ rd' = [rd EXCEPT ![j] = fio_rdmaio_queued(@)]
          /\ Goto(j, rd[j].back) /\ UNCHANGED hca
       \/ /\ j = server /\ rd[j].rdma_protocol = FIO_RDMA_CHA_RECV
          /\ hca' = [hca EXCEPT ![j].rq = @ \o rd[j].queued]
          /\ rd' = [rd EXCEPT ![j] = fio_rdmaio_queued(@)]
          /\ Goto(j, rd[j].back) /\ UNCHANGED wire
       \/ /\ j = server /\ rd[j].rdma_protocol \in MemorySemantics
          /\ hca' = [hca EXCEPT ![j].rq = Append(@, Control)]
          /\ Goto(j, "finish") /\ UNCHANGED <<rd, wire>>
    /\ UNCHANGED <<conf, td, link>>

\* fio_rdmaio_close_file: the client tells that it has finished.
fio_rdmaio_close_file(j) ==
    /\ pc[j] = "close"
    /\ IF j = client /\ conf.mode \in MemorySemantics
       THEN Post(j, <<Send(Control)>>) /\ Goto(j, "finish")
       ELSE Goto(j, "disconnect") /\ UNCHANGED wire
    /\ UNCHANGED <<conf, rd, td, hca, link>>

\* Its rest: ibv_destroy_cq waits for as many acknowledged events as were got.
DestroyCq(j) ==
    /\ pc[j] = "disconnect" /\ hca[j].unacked = 0 /\ Goto(j, "closed")
    /\ UNCHANGED <<conf, rd, td, hca, wire, link>>

----------------------------------------------------------------------------
(* The specification *)

Init ==
    /\ conf \in Confs
    /\ pc = [j \in Jobs |-> "init"]
    /\ rd = [j \in Jobs |->
               [rdma_protocol |-> IF j = client THEN conf.mode ELSE FIO_RDMA_MEM_WRITE,
                rmt_nr |-> 0, queued |-> <<>>, flight |-> <<>>, completed |-> <<>>,
                cq_event_num |-> 0, r |-> 0, min |-> 0, back |-> "loop", step |-> "call",
                short |-> FALSE]]
    /\ td = [j \in Jobs |-> [free |-> IoUs(j), issued |-> 0, complete |-> 0,
                             done |-> FALSE, ending |-> FALSE]]
    /\ hca = [j \in Jobs |-> [rq |-> <<>>, cq |-> <<>>, armed |-> FALSE, events |-> 0,
                              unacked |-> 0]]
    /\ wire = [j \in Jobs |-> [sq |-> <<>>, acked |-> <<>>]]
    /\ link = [listening |-> FALSE, requested |-> FALSE, established |-> FALSE,
               broken |-> {}]

Ended == \A j \in Jobs : pc[j] \in {"disconnect", "closed"}

JobStep(j) ==
    \/ PreviousLeft(j) \/ GetEvent(j) \/ HandleEvent(j)
    \/ Loop(j) \/ Full(j) \/ td_io_getevents(j) \/ fio_rdmaio_commit(j)
    \/ fio_rdmaio_close_file(j) \/ DestroyCq(j)
    \/ j = client /\ (fio_rdmaio_setup_connect \/ Connect \/ fio_rdmaio_connect)
    \/ j = server /\ (Listen \/ fio_rdmaio_setup_listen \/ fio_rdmaio_accept)

Fabric(j) == Deliver(j) \/ Acknowledge(j) \/ ReceiverNotReady(j)

Next == \E j \in Jobs : JobStep(j) \/ Fabric(j)

\* No step can be repeated for ever, so that one of them is taken is enough.
Spec == Init /\ [][Next]_vars /\ WF_vars(Next)

----------------------------------------------------------------------------
(* Properties *)

\* An io_u is at one place, and exactly those posted and not yet handled are
\* in flight, whichever order completions come in (cq_event_handler moves the
\* last one into the gap).
FlightExact ==
    \A j \in Jobs :
        LET placed == rd[j].queued \o rd[j].flight \o rd[j].completed
            posted == {w.id : w \in ToSet(wire[j].sq) \cup ToSet(wire[j].acked)
                                       \cup ToSet(hca[j].cq)} \cup ToSet(hca[j].rq)
        IN /\ IsInjective(placed)
           /\ ToSet(placed) = IoUs(j) \ td[j].free
           /\ link.broken = {} => ToSet(rd[j].flight) = posted \ {Control}

\* What fio_rdmaio_getevents returns is what fio_rdmaio_event finds: no event
\* without an io_u, and none is kept back.
EventsReal ==
    \A j \in Jobs : ~rd[j].short /\ (pc[j] = "loop" => rd[j].completed = <<>>)

\* The waits for control messages use up their completions, also those that
\* were polled together: none is left that fio_rdmaio_getevents would take for
\* one of its own and return nothing for, which ends the job.
NoneLeft == \A j \in Jobs : pc[j] \in {"loop", "commit"} => rd[j].cq_event_num = 0

\* The client addresses the server's memory (rand() % rmt_nr) only when the
\* server has told it, and the server reads in the mode the client has told it.
PeerKnown ==
    /\ \A w \in ToSet(wire[client].sq) : w.op \in MemorySemantics => rd[client].rmt_nr > 0
    /\ pc[server] = "commit" => (rd[server].rdma_protocol = FIO_RDMA_CHA_RECV
                                   <=> conf.mode = FIO_RDMA_CHA_SEND)

\* With the memory semantics the server gives its buffers up only when the
\* client has none of its transfers left, and has done all of them.
BuffersHeld ==
    conf.mode \in MemorySemantics /\ pc[server] \in {"disconnect", "closed"} =>
        /\ td[client].complete = conf.size[client]
        /\ \A w \in ToSet(wire[client].sq) : w.op \notin MemorySemantics

\* Unless a message came before its receive was posted or nobody listened, both
\* jobs have come to rdma_disconnect with all their IO: no completion is slept
\* through, neither one that comes between two polls of the queue nor one polled
\* early.  (ibv_destroy_cq may then wait for ever, as events are acknowledged by
\* the number of completions.)
BothDone ==
    \/ pc[client] = "refused" \/ link.broken # {}
    \/ Ended /\ td[client].complete = conf.size[client]
             /\ (conf.mode = FIO_RDMA_CHA_SEND => td[server].complete = conf.size[server])
=============================================================================
