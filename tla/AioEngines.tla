------------------------------ MODULE AioEngines ------------------------------
(* The engines over asynchronous IO of a C library or of an operating system. *)
EXTENDS IoEngine

CONSTANT MAXASYNCHIO   \* requests Solaris accepts from one process

-----------------------------------------------------------------------------
(* engines/posixaio.c: POSIX asynchronous IO.                              *)

\* struct posixaio_data: requests not seen finished, and the part of
\* aio_events the running getevents has already filled.
fio_posixaio_init == data = [queued |-> 0, got |-> <<>>]

fio_posixaio_prep(u) ==
    /\ io_u' = [io_u EXCEPT ![u].prepped = io_u[u].xfer, ![u].seen = FALSE]
    /\ rc' = Ok
    /\ UNCHANGED <<kernel, data, events, td_error, faults, owed>>

\* aio_read and aio_write refuse with EAGAIN when the system is short of
\* resources.  A sync is done by the engine (no FIO_HAVE_POSIXAIO_FSYNC).
fio_posixaio_queue(u) ==
    \/ /\ io_u[u].ddir # "rw" /\ data.queued > 0
       /\ Return(FIO_Q_BUSY)
    \/ /\ io_u[u].ddir # "rw" /\ data.queued = 0
       /\ DoneByEngine(u)
    \/ /\ io_u[u].ddir = "rw"
       /\ rc' = FIO_Q_BUSY
       /\ Fault("starved")
       /\ UNCHANGED <<io_u, kernel, data, events, td_error>>
    \/ /\ io_u[u].ddir = "rw"
       /\ rc' = FIO_Q_COMPLETED
       /\ Fault("submit")
       /\ io_u' = [io_u EXCEPT ![u].error = EIO]
       /\ td_verror(EIO)
       /\ UNCHANGED <<kernel, data, events>>
    \/ /\ io_u[u].ddir = "rw"
       /\ kernel' = Submitted({u})
       /\ data' = [data EXCEPT !.queued = @ + 1]
       /\ rc' = FIO_Q_QUEUED
       /\ UNCHANGED <<io_u, events, td_error, faults, owed>>

\* One scan of the busy list, from restart to aio_suspend: every io_u not
\* seen yet and no longer in progress becomes an event.
fio_posixaio_getevents(min, max) ==
    LET us == SelectSeq(busylist, LAMBDA u : /\ ~io_u[u].seen
                                             /\ kernel[u] # Busy)
        got == data.got \o us
    IN /\ us # <<>> \/ Len(got) >= min
       /\ io_u' = [u \in IoUs |->
                     IF u \notin ToSet(us) THEN io_u[u]
                     ELSE [Ended(u, IF kernel[u] = Idle THEN 0 ELSE kernel[u])
                              EXCEPT !.seen = TRUE]]
       /\ kernel' = Taken(ToSet(us))
       /\ data' = [queued |-> data.queued - Len(us),
                   got |-> IF Len(got) < min THEN got ELSE <<>>]
       /\ rc' = IF Len(got) < min THEN Again ELSE Ok
       /\ events' = IF Len(got) < min THEN events ELSE got
       /\ UNCHANGED <<td_error, faults, owed>>

\* Mutant: AIO_NOTCANCELED taken for success.
CancelAnyway(u) ==
    \/ /\ kernel' = Taken({u})
       /\ rc' = Ok
       /\ UNCHANGED <<io_u, data, events, td_error, faults, owed>>
    \/ /\ kernel[u] = Busy
       /\ Return(Ok)

\* aio_cancel: AIO_ALLDONE and AIO_CANCELED are success.
fio_posixaio_cancel(u) ==
    \/ /\ kernel' = Taken({u})
       /\ rc' = Ok
       /\ UNCHANGED <<io_u, data, events, td_error, faults, owed>>
    \/ /\ kernel[u] = Busy
       /\ Return(Error)

-----------------------------------------------------------------------------
(* engines/solarisaio.c: Solaris native asynchronous IO, polled.           *)

\* struct solarisaio_data; aio_events up to aio_pending.
fio_solarisaio_init ==
    data = [nr |-> 0, aio_events |-> <<>>,
            max_depth |-> IF td.iodepth > MAXASYNCHIO THEN MAXASYNCHIO
                                                      ELSE td.iodepth]

\* fio_solarisaio_prep arms resultp; the request is built by queue.
fio_solarisaio_prep(u) == Return(Ok)

\* fsync and fdatasync are done by the engine; a trim is written.
fio_solarisaio_queue(u) ==
    \/ /\ \/ io_u[u].ddir = "sync" /\ data.nr > 0
          \/ io_u[u].ddir # "sync" /\ data.nr = data.max_depth
       /\ Return(FIO_Q_BUSY)
    \/ /\ io_u[u].ddir = "sync" /\ data.nr = 0
       /\ DoneByEngine(u)
    \/ /\ io_u[u].ddir # "sync" /\ data.nr < data.max_depth
       /\ \/ /\ rc' = FIO_Q_COMPLETED
             /\ Fault("submit")
             /\ io_u' = [io_u EXCEPT ![u].error = EIO]
             /\ td_verror(EIO)
             /\ UNCHANGED <<kernel, data, events>>
          \/ /\ rc' = FIO_Q_QUEUED
             /\ io_u' = [io_u EXCEPT ![u].prepped = io_u[u].xfer]
             /\ kernel' = Submitted({u})
             /\ data' = [data EXCEPT !.nr = @ + 1]
             /\ UNCHANGED <<events, td_error, faults, owed>>

\* wait_for_event takes one result, if there is one.
wait_for_event(u) ==
    /\ u \in Reapable
    /\ io_u' = AllEnded({u})
    /\ kernel' = Taken({u})
    /\ data' = [data EXCEPT !.aio_events = Append(@, u), !.nr = @ - 1]

\* The device is asked only while there are fewer events than min.
fio_solarisaio_getevents(min, max) ==
    \/ /\ Len(data.aio_events) >= min
       /\ rc' = Ok
       /\ events' = data.aio_events
       /\ data' = [data EXCEPT !.aio_events = <<>>]
       /\ UNCHANGED <<io_u, kernel, td_error, faults, owed>>
    \/ /\ Len(data.aio_events) < min
       /\ \E u \in IoUs : wait_for_event(u)
       /\ rc' = Again
       /\ UNCHANGED <<events, td_error, faults, owed>>

\* aiocancel fails for a request that is being executed or has finished.
fio_solarisaio_cancel(u) ==
    \/ /\ kernel[u] = Busy
       /\ kernel' = Taken({u})
       /\ rc' = Ok
       /\ UNCHANGED <<io_u, data, events, td_error, faults, owed>>
    \/ Return(Error)

-----------------------------------------------------------------------------
(* engines/libaio.c: Linux native asynchronous IO.                         *)

\* struct libaio_data: iocbs/io_us up to iocbs_nr, and the part of
\* aio_events the running getevents has already filled.
fio_libaio_init == data = [iocbs |-> <<>>, got |-> <<>>]

fio_libaio_prep(u) == Prepared(u)

fio_libaio_queue(u) ==
    \/ /\ \/ Len(data.iocbs) = td.iodepth
          \/ io_u[u].ddir # "rw" /\ data.iocbs # <<>>
       /\ Return(FIO_Q_BUSY)
    \/ /\ io_u[u].ddir # "rw" /\ data.iocbs = <<>>
       /\ DoneByEngine(u)
    \/ /\ io_u[u].ddir = "rw" /\ Len(data.iocbs) < td.iodepth
       /\ data' = [data EXCEPT !.iocbs = Append(@, u)]
       /\ rc' = FIO_Q_QUEUED
       /\ UNCHANGED <<io_u, kernel, events, td_error, faults, owed>>

\* io_submit takes a prefix of the array and is called again for the rest.
\* When it then fails the loop is left with iocbs_nr counting the rest, but
\* the array is not moved: the first iocbs_nr entries are kept.
fio_libaio_commit ==
    \/ /\ data.iocbs = <<>>
       /\ Return(Ok)
    \/ /\ data.iocbs # <<>>
       /\ kernel' = Submitted(ToSet(data.iocbs))
       /\ data' = [data EXCEPT !.iocbs = <<>>]
       /\ rc' = Ok
       /\ UNCHANGED <<io_u, events, td_error, faults, owed>>
    \/ /\ \E n \in 0 .. Len(data.iocbs) - 1 :
            /\ kernel' = Submitted(ToSet(SubSeq(data.iocbs, 1, n)))
            /\ data' = [data EXCEPT !.iocbs =
                            SubSeq(@, 1, Len(data.iocbs) - n)]
            /\ Fault(IF n = 0 THEN "submit" ELSE "partial")
       /\ rc' = Error
       /\ UNCHANGED <<io_u, events, td_error>>

\* One turn of the loop in fio_libaio_getevents: io_getevents (or, polling
\* the ring from user space, user_io_getevents) adds to aio_events.  A signal
\* makes io_getevents return early.
user_io_getevents(max, us) == us \in UpTo(max, Reapable)

io_getevents(min, max, us) ==
    \/ /\ us \in UpTo(max, Reapable)
       /\ Cardinality(us) >= min
       /\ UNCHANGED outside
    \/ /\ us \in UpTo(max, Reapable)
       /\ Cardinality(us) < min
       /\ Fault("signal")

\* Mutant: every turn counts its events from zero.
GatheredLast(us) == Reaped(us)

\* The events so far: those of this turn go behind the earlier ones.
Gathered(us) == data.got \o Reaped(us)

fio_libaio_getevents(min, max) ==
    LET actual_min == IF td.iodepth_batch_complete = 0 THEN 0 ELSE min IN
    \E us \in SUBSET Reapable :
        /\ \/ /\ td.userspace_reap /\ actual_min = 0
              /\ user_io_getevents(max, us)
              /\ UNCHANGED outside
           \/ /\ ~(td.userspace_reap /\ actual_min = 0)
              /\ io_getevents(actual_min, max, us)
        /\ LET got == Gathered(us) IN
           IF Len(got) < min
           THEN /\ rc' = Again
                /\ data' = [data EXCEPT !.got = got]
                /\ UNCHANGED events
           ELSE /\ rc' = Ok /\ events' = got
                /\ data' = [data EXCEPT !.got = <<>>]
        /\ kernel' = Taken(us)
        /\ io_u' = AllEnded(us)
        /\ UNCHANGED td_error

\* io_cancel: the kernels of this engine's time refuse it.
fio_libaio_cancel(u) == Return(Error)

-----------------------------------------------------------------------------
(* engines/windowsaio.c: overlapped IO and a completion port.  A thread of *)
(* the engine, IoCompletionRoutine, waits on the port and fills in the     *)
(* io_us while the job scans its busy list.                                *)

\* struct windowsaio_data: the overlapped structures, each with its io_u;
\* engine_data of an io_u is the index of its structure, 0 for NULL; the
\* auto-reset event; the part of aio_events filled by the running getevents.
fio_windowsaio_init ==
    data = [ovls |-> [i \in 1 .. td.iodepth |->
                        [io_free |-> TRUE, io_complete |-> FALSE,
                         io_u |-> NoIoU]],
            engine_data |-> [u \in IoUs |-> 0],
            iocomplete_event |-> FALSE,
            aio_events |-> <<>>]

\* The first free structure is taken; there must be one.  Flushes, trims
\* and requests that fail at once keep it.
fio_windowsaio_queue(u) ==
    LET free == {i \in DOMAIN data.ovls : data.ovls[i].io_free}
        index == CHOOSE i \in free : \A j \in free : i <= j
        Take == data' = [data EXCEPT !.ovls[index].io_free = FALSE,
                                     !.ovls[index].io_u = u,
                                     !.engine_data[u] = index]
    IN \/ /\ free = {}
          /\ Return(AssertFails)
       \/ /\ free # {} /\ io_u[u].ddir = "sync"
          /\ Take
          /\ do_io_u_sync(u)
          /\ rc' = FIO_Q_COMPLETED
          /\ UNCHANGED <<kernel, events, td_error>>
       \/ /\ free # {} /\ io_u[u].ddir = "trim"
          /\ Take
          /\ io_u' = [io_u EXCEPT ![u].error = EIO, ![u].resid = io_u[u].xfer]
          /\ rc' = FIO_Q_COMPLETED
          /\ UNCHANGED <<kernel, events, td_error, faults, owed>>
       \/ /\ free # {} /\ io_u[u].ddir = "rw"
          /\ Take
          /\ \/ /\ kernel' = Submitted({u})
                /\ io_u' = [io_u EXCEPT ![u].prepped = io_u[u].xfer]
                /\ rc' = FIO_Q_QUEUED
                /\ UNCHANGED outside
             \/ /\ Fault("submit")
                /\ io_u' = [io_u EXCEPT ![u].error = EIO,
                                        ![u].resid = io_u[u].xfer]
                /\ rc' = FIO_Q_COMPLETED
                /\ UNCHANGED kernel
          /\ UNCHANGED <<events, td_error>>

\* The thread takes one packet from the port.  For a request that failed
\* GetQueuedCompletionStatus returns FALSE, and the packet is skipped.
IoCompletionRoutine(u) ==
    /\ kernel[u] \in Results
    /\ kernel' = Taken({u})
    /\ IF kernel[u] < 0
       THEN UNCHANGED <<io_u, data>>
       ELSE /\ io_u' = [AllEnded({u}) EXCEPT ![u].error = 0]
            /\ data' = [data EXCEPT
                          !.ovls[data.engine_data[u]].io_complete = TRUE,
                          !.iocomplete_event = TRUE]
    /\ UNCHANGED <<td, busylist, rc, events, td_error, faults, owed>>

\* One scan of the busy list, which stops once min are found; with min 0
\* that is after its first io_u, finished or not.  It follows engine_data of
\* every io_u it comes to, also of one never queued.
fio_windowsaio_scan(min) ==
    LET Visit(s, u) ==
            LET i == data.engine_data[u]
                found == s.ovls[i].io_complete
                got == IF found THEN Append(s.got, u) ELSE s.got
            IN IF s.stop THEN s
               ELSE IF i = 0 THEN [s EXCEPT !.null = TRUE, !.stop = TRUE]
               ELSE [s EXCEPT
                       !.ovls[i] = [@ EXCEPT !.io_complete = FALSE,
                                             !.io_free = @ \/ found],
                       !.got = got, !.stop = Len(got) >= min]
    IN FoldLeft(Visit, [ovls |-> data.ovls, got |-> data.aio_events,
                        null |-> FALSE, stop |-> FALSE], busylist)

\* After a scan that found too few the job waits for the event, 250 ms at
\* most: when that time runs out and something was found, it is returned.
fio_windowsaio_getevents(min, max) ==
    LET scan == fio_windowsaio_scan(min)
        found == Len(scan.got)
        Give == /\ rc' = Ok /\ events' = scan.got
                /\ data' = [data EXCEPT !.ovls = scan.ovls, !.aio_events = <<>>]
    IN /\ \/ /\ scan.null
             /\ rc' = NullDeref
             /\ UNCHANGED <<data, events, faults, owed>>
          \/ /\ ~scan.null /\ found >= min
             /\ Give
             /\ UNCHANGED outside
          \/ /\ ~scan.null /\ found < min /\ data.iocomplete_event
             /\ rc' = Again
             /\ data' = [data EXCEPT !.ovls = scan.ovls, !.aio_events = scan.got,
                                     !.iocomplete_event = FALSE]
             /\ UNCHANGED <<events, faults, owed>>
          \/ /\ ~scan.null /\ found \in 1 .. min - 1 /\ ~data.iocomplete_event
             /\ Give
             /\ Fault("slow")
       /\ UNCHANGED <<io_u, kernel, td_error>>

\* CancelIoEx only asks; on older systems there is nothing to ask with.
fio_windowsaio_cancel(u) ==
    \/ /\ kernel[u] = Busy
       /\ Return(Ok)
    \/ Return(Error)
=============================================================================
