---------------------------- MODULE SyscallEngines ----------------------------
(* The engines that have ordinary system calls done in the background.      *)
EXTENDS IoEngine

-----------------------------------------------------------------------------
(* engines/guasi.c: the generic user space asynchronous IO library, which  *)
(* runs ordinary system calls in a pool of threads.                        *)

\* struct guasi_data: io_us up to queued_nr.
fio_guasi_init == data = [io_us |-> <<>>]

fio_guasi_prep(u) == Return(Ok)

fio_guasi_queue(u) ==
    \/ /\ Len(data.io_us) = td.iodepth
       /\ Return(FIO_Q_BUSY)
    \/ /\ Len(data.io_us) < td.iodepth
       /\ data' = [data EXCEPT !.io_us = Append(@, u)]
       /\ rc' = FIO_Q_QUEUED
       /\ UNCHANGED <<io_u, kernel, events, td_error, faults, owed>>

\* The requests are built and submitted one by one.  One that fails, and
\* every trim does, ends the call with queued_nr as it was.
fio_guasi_commit ==
    LET us == data.io_us
        Stops(n) == n < Len(us) /\ io_u[us[n + 1]].ddir = "trim"
        Trims == {n \in 0 .. Len(us) : Stops(n)}
        Sent(n) == ToSet(SubSeq(us, 1, n))
        Build(n) == /\ kernel' = Submitted(Sent(n))
                    /\ io_u' = [u \in IoUs |-> IF u \in Sent(n)
                                  THEN [io_u[u] EXCEPT !.prepped = io_u[u].xfer]
                                  ELSE io_u[u]]
    IN \/ /\ Trims = {}
          /\ Build(Len(us))
          /\ data' = [data EXCEPT !.io_us = <<>>]
          /\ rc' = Ok
          /\ UNCHANGED <<events, td_error, faults, owed>>
       \/ /\ \/ \E n \in 0 .. Len(us) - 1 :
                  /\ \A m \in Trims : n <= m
                  /\ Build(n) /\ Fault(IF n = 0 THEN "submit" ELSE "partial")
             \/ \E n \in Trims :
                  /\ \A m \in Trims : n <= m
                  /\ Build(n) /\ UNCHANGED outside
          /\ rc' = Error
          /\ UNCHANGED <<data, events, td_error>>

\* guasi_fetch waits for min requests, or fails; then what was fetched so
\* far is returned.
fio_guasi_getevents(min, max) ==
    \E us \in SUBSET Reapable :
        /\ \/ /\ us \in UpTo(max, Reapable) /\ Cardinality(us) >= min
              /\ UNCHANGED outside
           \/ us = {} /\ Fault("reap")
        /\ rc' = Ok
        /\ events' = Reaped(us)
        /\ kernel' = Taken(us)
        /\ io_u' = AllEnded(us)
        /\ UNCHANGED <<data, td_error>>

\* guasi_req_cancel stops a request no thread has begun; the engine reports
\* success whether it did or not.
fio_guasi_cancel(u) ==
    \/ /\ kernel' = Taken({u})
       /\ rc' = Ok
       /\ UNCHANGED <<io_u, data, events, td_error, faults, owed>>
    \/ /\ kernel[u] = Busy
       /\ Return(Ok)

-----------------------------------------------------------------------------
(* engines/syslet-rw.c: system calls that go on in the background when     *)
(* they would block, and report through a ring.                            *)

\* struct syslet_data: events up to nr_events.
fio_syslet_init == data = [events |-> <<>>]

\* The registers are filled in by queue.
fio_syslet_prep(u) == io_u' = [io_u EXCEPT ![u].prepped = io_u[u].xfer]

\* A call that finishes at once is good only when it returned xfer_buflen;
\* any other result takes the error from errno, which only a failed call
\* sets: otherwise it holds whatever an earlier call left there.
fio_syslet_queue(u) ==
    \/ /\ fio_syslet_prep(u)
       /\ kernel' = Submitted({u})
       /\ rc' = FIO_Q_QUEUED
       /\ UNCHANGED <<data, events, td_error, faults, owed>>
    \/ /\ \E r \in Results, errno \in {0, EIO} :
            /\ Outcome(u, r)
            /\ r < 0 => errno = EIO
            /\ r = io_u[u].xfer => errno = 0
            /\ io_u' = [io_u EXCEPT ![u].error = errno]
            /\ td_verror(errno)
       /\ rc' = FIO_Q_COMPLETED
       /\ UNCHANGED <<kernel, data, events>>

\* fio_syslet_add_events: a result that is not positive leaves everything
\* still to do, and is an error unless it is 0.
fio_syslet_add_events(us) ==
    /\ io_u' = [u \in IoUs |->
                  IF u \notin us THEN io_u[u]
                  ELSE [io_u[u] EXCEPT
                          !.error = ErrorOf(kernel[u]),
                          !.resid = IF kernel[u] <= 0 THEN io_u[u].xfer
                                    ELSE io_u[u].xfer - kernel[u]]]
    /\ kernel' = Taken(us)
    /\ data' = [events |-> data.events \o Reaped(us)]

\* fio_syslet_wait_for_events empties the ring, or waits for it to fill.
fio_syslet_getevents(min, max) ==
    \/ /\ Len(data.events) >= min
       /\ rc' = Ok
       /\ events' = data.events
       /\ data' = [events |-> <<>>]
       /\ UNCHANGED <<io_u, kernel, td_error, faults, owed>>
    \/ /\ Len(data.events) < min
       /\ Reapable # {}
       /\ fio_syslet_add_events(Reapable)
       /\ rc' = Again
       /\ UNCHANGED <<events, td_error, faults, owed>>
=============================================================================
