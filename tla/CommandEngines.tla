---------------------------- MODULE CommandEngines ----------------------------
(* The engines that write commands to a character device and read the       *)
(* results back.                                                            *)
EXTENDS IoEngine

-----------------------------------------------------------------------------
(* engines/sg.c: SCSI commands, through SG_IO on a block device (which     *)
(* takes the getevents hook out, fio_sgio_type_check) or through write and *)
(* read of command headers on a character device.                          *)

\* struct sgio_data: the array events, and what the running getevents has
\* read so far.
fio_sgio_init ==
    data = [events |-> [i \in 1 .. td.iodepth |-> NoIoU], r |-> 0]

\* A length that is no multiple of the sector size is refused; what is left
\* of a short transfer can be one.
fio_sgio_prep(u) ==
    \/ /\ io_u[u].xfer % td.bs # 0
       /\ Return(Error)
    \/ /\ io_u[u].xfer % td.bs = 0
       /\ Prepared(u)

\* fio_sgio_doio when the command is executed before the call returns: the
\* ioctl, or write and read.  A failure is seen in errno or in hdr->status.
fio_sgio_doio(u) ==
    \E r \in {EIO, IF io_u[u].ddir = "sync" THEN 0 ELSE io_u[u].xfer} :
        /\ Outcome(u, r)
        /\ io_u' = [io_u EXCEPT ![u].error = ErrorOf(r)]
        /\ td_verror(ErrorOf(r))
        /\ data' = IF td.blockdev THEN [data EXCEPT !.events[1] = u] ELSE data
        /\ rc' = FIO_Q_COMPLETED
        /\ UNCHANGED <<kernel, events>>

fio_sgio_queue(u) ==
    \/ /\ td.blockdev \/ td.sync_io \/ io_u[u].ddir = "sync"
       /\ fio_sgio_doio(u)
    \/ /\ ~(td.blockdev \/ td.sync_io \/ io_u[u].ddir = "sync")
       /\ \/ /\ kernel' = Submitted({u})
             /\ rc' = FIO_Q_QUEUED
             /\ UNCHANGED <<io_u, data, events, td_error, faults, owed>>
          \/ /\ Fault("submit")
             /\ io_u' = [io_u EXCEPT ![u].error = EIO]
             /\ td_verror(EIO)
             /\ rc' = FIO_Q_COMPLETED
             /\ UNCHANGED <<kernel, data, events>>

\* One turn of the loop: read takes some of the finished commands and puts
\* them at the front of the array.  The loop ends when max were read.  What
\* became of a command is not looked at: one that failed counts as done.
fio_sgio_getevents(min, max) ==
    \E us \in SUBSET Reapable \ {{}} :
        /\ Cardinality(us) <= max - data.r
        /\ LET r == data.r + Cardinality(us)
               array == Reaped(us)
                        \o SubSeq(data.events, Cardinality(us) + 1, td.iodepth)
           IN /\ data' = [events |-> array, r |-> IF r < max THEN r ELSE 0]
              /\ rc' = IF r < max THEN Again ELSE Ok
              /\ events' = IF r < max THEN events ELSE SubSeq(array, 1, r)
        /\ kernel' = Taken(us)
        /\ UNCHANGED <<io_u, td_error, faults, owed>>

-----------------------------------------------------------------------------
(* engines/binject.c: bios injected into a block device by a driver, one   *)
(* command per write, results by read.                                     *)

\* struct binject_data: the part of events the running getevents has filled.
fio_binject_init == data = [events |-> <<>>]

\* Alignment is checked; a sync has no command, and the assertion fails.
fio_binject_prep(u) ==
    \/ /\ io_u[u].xfer % td.bs # 0
       /\ Return(Error)
    \/ /\ io_u[u].xfer % td.bs = 0
       /\ io_u[u].ddir = "sync"
       /\ Return(AssertFails)
    \/ /\ io_u[u].xfer % td.bs = 0
       /\ io_u[u].ddir # "sync"
       /\ Prepared(u)

fio_binject_queue(u) ==
    \/ /\ kernel' = Submitted({u})
       /\ rc' = FIO_Q_QUEUED
       /\ UNCHANGED <<io_u, data, events, td_error, faults, owed>>
    \/ /\ Fault("submit")
       /\ io_u' = [io_u EXCEPT ![u].error = EIO]
       /\ td_verror(EIO)
       /\ rc' = FIO_Q_COMPLETED
       /\ UNCHANGED <<kernel, data, events>>

\* binject_read_commands waits until there is something to read.  The loop
\* ends when max were read; what became of a command is not looked at: one
\* that failed counts as done.
fio_binject_getevents(min, max) ==
    \E us \in SUBSET Reapable \ {{}} :
        /\ Cardinality(us) <= max - Len(data.events)
        /\ LET array == data.events \o Reaped(us) IN
           IF Len(array) < max
           THEN /\ data' = [events |-> array]
                /\ rc' = Again
                /\ UNCHANGED events
           ELSE /\ data' = [events |-> <<>>]
                /\ rc' = Ok
                /\ events' = array
        /\ kernel' = Taken(us)
        /\ UNCHANGED <<io_u, td_error, faults, owed>>
=============================================================================
