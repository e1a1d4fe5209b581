----------------------------- MODULE MCWaiting -----------------------------
(* The components whose actors wait for each other or search for           *)
(* something, and must come to an end: file service, the shared memory     *)
(* allocator, flow control, and the network and RDMA links.  They share    *)
(* nothing here: one of them, chosen at the start, takes all the steps, and*)
(* its variables are the first of v1 .. v9, in the order of its VARIABLES. *)
EXTENDS Integers, FiniteSets

VARIABLES focus, v1, v2, v3, v4, v5, v6, v7, v8, v9

vars == <<focus, v1, v2, v3, v4, v5, v6, v7, v8, v9>>

-----------------------------------------------------------------------------
(* The instances.                                                          *)

FsFiles == {0, 1, 2}
FsJob(type, nr, iodepth, loops, ramp, faults) ==
    [service_type |-> type, service_nr |-> nr, iodepth |-> iodepth,
     loops |-> loops, ramp |-> ramp, faults |-> faults,
     done |-> FALSE, extra |-> FALSE, refused |-> {}]

\* One loop with two requests in flight, a ramp time and every fault, and several
\* loops as long as no file is found done in one of them; random, round robin,
\* sequential.
FsJobs == {FsJob(1, 1, 2, 0, TRUE, {"advise"}), FsJob(2, 2, 2, 0, FALSE, {"open", "advise", "refuse"}),
           FsJob(2, 2, 2, 0, TRUE, {}), FsJob(3, 1, 2, 0, TRUE, {"refuse"}), FsJob(2, 1, 1, 2, FALSE, {})}
Fs == INSTANCE FileService
    WITH Files <- FsFiles, IoUs <- {1, 2}, Size <- 2, Jobs <- FsJobs,
         td <- v1, file <- v2, count <- v3, service <- v4, left <- v5, iofile <- v6,
         pc <- v7, old_next_file <- v8, td_error <- v9

\* Two pools of few blocks, and requests of one block up to a whole pool.  Only
\* that smalloc returns is asked here; MCData asks the rest, with more allocations.
SmThreads == {1, 2}
Sm == INSTANCE Smalloc
    WITH Threads <- SmThreads, SMALLOC_BPI <- 3, INITIAL_SIZE <- 2, MAX_POOLS <- 2,
         Sizes <- {1, 2, 4}, MaxLive <- 2, mp <- v1, nr_pools <- v2, last_pool <- v3,
         lock <- v4, live <- v5, call <- v6

\* Two jobs against one, jobs of another flow, broken options, and a job alone.
FlJobs == {1, 2, 3}
FlConf(id, f, n, w, r, b) ==
    [id |-> id, flow |-> f, ios |-> n, watermark |-> w, runtime |-> r, broken |-> b]
FlConfs == {FlConf(<<1, 1, 1>>, <<2, 1, -1>>, <<1, 1, 2>>, 1, TRUE, {}),
            FlConf(<<1, 1, 1>>, <<-1, 1, -1>>, <<2, 2, 2>>, 0, TRUE, {1}),
            FlConf(<<1, 2, 1>>, <<2, 1, -2>>, <<3, 1, 3>>, 2, TRUE, {2}),
            FlConf(<<1, 1, 1>>, <<1, 0, 0>>, <<1, 1, 1>>, 1, FALSE, {2})}
Fl == INSTANCE Flow
    WITH Jobs <- FlJobs, Confs <- FlConfs, conf <- v1, pc <- v2, flow <- v3,
         recs <- v4, refs <- v5, counter <- v6, reg <- v7, done <- v8, expired <- v9

NlConf(proto, splice, write_size, read_size, together, lossy, terminate) ==
    [proto |-> proto, use_splice |-> splice, write_size |-> write_size,
     read_size |-> read_size, together |-> together, lossy |-> lossy,
     terminate |-> terminate, accept_fails |-> terminate]
NlConfs ==
    {NlConf("tcp", splice, 9, 9, TRUE, FALSE, FALSE) : splice \in BOOLEAN} \cup
    {NlConf("unix", TRUE, 9, 9, TRUE, FALSE, FALSE), NlConf("tcp", TRUE, 6, 9, TRUE, FALSE, FALSE),
     NlConf("tcp", FALSE, 9, 6, TRUE, FALSE, FALSE), NlConf("tcp", FALSE, 6, 6, FALSE, FALSE, FALSE),
     NlConf("udp", FALSE, 6, 9, TRUE, FALSE, FALSE), NlConf("udp", FALSE, 9, 9, TRUE, TRUE, FALSE),
     NlConf("udp", FALSE, 6, 6, FALSE, TRUE, FALSE), NlConf("tcp", FALSE, 6, 6, TRUE, FALSE, TRUE),
     NlConf("udp", FALSE, 6, 6, TRUE, TRUE, TRUE), NlConf("tcp", FALSE, 6, 9, TRUE, FALSE, FALSE),
     NlConf("tcp", TRUE, 9, 3, TRUE, FALSE, FALSE), NlConf("tcp", TRUE, 6, 6, TRUE, FALSE, TRUE),
     NlConf("udp", TRUE, 6, 6, TRUE, FALSE, FALSE)}
\* Blocks that fill neither the socket buffer nor leave room for two in it.
Nl == INSTANCE NetLink
    WITH BlockSize <- 3, SockBuf <- 4, PipeSize <- 3, MaxLost <- 3, Confs <- NlConfs,
         conf <- v1, pc <- v2, td <- v3, sock <- v4, pipe <- v5, got <- v6, link <- v7

RdConf(mode, cdepth, cbatch, csize, sdepth, ssize) ==
    [mode |-> mode, fill_issue_time |-> TRUE,
     iodepth |-> [client |-> cdepth, server |-> sdepth],
     batch |-> [client |-> cbatch, server |-> sdepth],
     size |-> [client |-> csize, server |-> ssize]]
RdConfs == {RdConf("RDMA_WRITE", 2, 2, 3, 2, 3), RdConf("RDMA_READ", 2, 1, 2, 1, 2),
            RdConf("SEND", 2, 1, 2, 2, 2)}
Rd == INSTANCE Rdma
    WITH Confs <- RdConfs, conf <- v1, pc <- v2, rd <- v3, td <- v4, hca <- v5,
         wire <- v6, link <- v7

-----------------------------------------------------------------------------
(* One of them runs.                                                       *)

From8 == v8 = "off" /\ v9 = "off"
From7 == v7 = "off" /\ From8

Init ==
    \/ focus = "file_service" /\ Fs!Init
    \/ focus = "smalloc" /\ Sm!sinit /\ From7
    \/ focus = "flow" /\ Fl!Init
    \/ focus = "net" /\ Nl!Init /\ From8
    \/ focus = "rdma" /\ Rd!Init /\ From8

Next ==
    /\ \/ focus = "file_service" /\ Fs!Next
       \/ focus = "smalloc" /\ Sm!Next /\ UNCHANGED <<v7, v8, v9>>
       \/ focus = "flow" /\ Fl!Next
       \/ focus = "net" /\ Nl!Next /\ UNCHANGED <<v8, v9>>
       \/ focus = "rdma" /\ Rd!Next /\ UNCHANGED <<v8, v9>>
    /\ UNCHANGED focus

\* The fairness of each component, the n-th actor of each taken together: the
\* job and its completions, the threads inside smalloc, the jobs of a flow and
\* the main thread with the clock, the two ends of a link.
Actor1 ==
    /\ \/ focus = "file_service" /\ Fs!JobStep
       \/ focus = "smalloc" /\ (Sm!NextPool(1) \/ Sm!Search(1)) /\ UNCHANGED <<v7, v8, v9>>
       \/ focus = "flow" /\ Fl!Turn(1)
       \/ focus = "net" /\ Nl!JobStep(Nl!writer) /\ UNCHANGED <<v8, v9>>
       \/ focus = "rdma" /\ Rd!Next /\ UNCHANGED <<v8, v9>>
    /\ UNCHANGED focus

Actor2 ==
    /\ \/ focus = "file_service" /\ Fs!Complete
       \/ focus = "smalloc" /\ (Sm!NextPool(2) \/ Sm!Search(2)) /\ UNCHANGED <<v7, v8, v9>>
       \/ focus = "flow" /\ Fl!Turn(2)
       \/ focus = "net" /\ Nl!JobStep(Nl!reader) /\ UNCHANGED <<v8, v9>>
    /\ UNCHANGED focus

Actor3 == focus = "flow" /\ Fl!Turn(3) /\ UNCHANGED focus
Actor4 == focus = "flow" /\ (Fl!Expire \/ \E j \in FlJobs : Fl!Parse(j)) /\ UNCHANGED focus
Tried(f) == focus = "file_service" /\ Fs!TryFile(f) /\ UNCHANGED focus

Spec ==
    /\ Init
    /\ [][Next]_vars
    /\ WF_vars(Actor1) /\ WF_vars(Actor2) /\ WF_vars(Actor3) /\ WF_vars(Actor4)
    /\ \A f \in FsFiles : SF_vars(Tried(f))

-----------------------------------------------------------------------------
(* Properties.                                                             *)

\* References and counts of open files (get_file, put_file, td_io_open_file) are
\* exact through failed opens and io_us in flight: no file is closed under an
\* io_u, and an io_u without a descriptor comes only after td->error is set.  A
\* job without an error issues all transfers of every file in its last loop and
\* leaves no file open, whatever get_next_file tried in between.
FilesServed ==
    focus = "file_service" => /\ Fs!RefsExact /\ Fs!OpenCounted
                              /\ Fs!DescriptorOrError /\ Fs!AllServed

\* A flow's record lives exactly as long as its jobs, its unsynchronised counter
\* stays within the watermark and a turn of two jobs, and while jobs of both
\* sides have IO left flow_threshold_exceeded lets one of them go on.
FlowSound == focus = "flow" => Fl!FlowCounted /\ Fl!FlowBounded /\ Fl!SomeoneRuns

\* Buffers, pipes and network together hold what the writer has sent, each byte
\* once and in order; both jobs count what they have done, and fail only for a
\* reason (fio_netio_queue with splice, poll and the closing datagram).
LinkTrue == focus = "net" => Nl!StreamIntact /\ Nl!BytesCounted /\ Nl!ErrorsReal

\* An io_u of the RDMA engine is at one place; fio_rdmaio_getevents returns what
\* fio_rdmaio_event finds and the waits for control messages leave it nothing;
\* the client uses memory only after it is told of it, and until then and to its
\* end the server keeps it.
RdmaExact ==
    focus = "rdma" => /\ Rd!FlightExact /\ Rd!EventsReal /\ Rd!NoneLeft
                      /\ Rd!PeerKnown /\ Rd!BuffersHeld

\* Nobody waits for ever: a job comes to the end of its files, smalloc returns,
\* jobs with a runtime end although a flow holds them back, of two jobs of a
\* link neither waits for what the other waits to do, and both RDMA jobs come to
\* rdma_disconnect with all their IO unless a message came before its receive.
EveryoneEnds ==
    /\ focus = "file_service" ~> focus = "file_service" /\ v7 = "ended"
    /\ \A i \in SmThreads :
          (focus = "smalloc" /\ v6[i].pc \in {"pools", "search"})
              ~> (focus = "smalloc" /\ v6[i].pc = "idle")
    /\ focus = "flow" ~> (focus = "flow" /\ Fl!AllEnded)
    /\ (focus = "net" /\ v1.together /\ ~v1.lossy /\ ~v1.terminate /\ ~Nl!RecvSpins) ~> (focus = "net" /\ Nl!Ended)
    /\ focus = "rdma" ~> (focus = "rdma" /\ Rd!BothDone)
=============================================================================
