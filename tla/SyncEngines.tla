---------------------------- MODULE SyncEngines -----------------------------
(* The engines that transfer before queue returns: sync, psync and vsync   *)
(* (engines/sync.c), mmap (engines/mmap.c), splice (engines/splice.c) and  *)
(* cpuio (engines/cpu.c), and null, which transfers nothing.  vsync        *)
(* collects contiguous io_us and transfers them with one readv or writev   *)
(* in commit.                                                              *)
EXTENDS IoEngine

----------------------------------------------------------------------------
(* sync and psync *)

\* lseek, unless the file is already at the offset; it can fail.
fio_syncio_prep(u) ==
    \/ Prepared(u)
    \/ /\ io_u[u].ddir = "rw"
       /\ Fault("seek")
       /\ rc' = Error
       /\ td_verror(EIO)
       /\ UNCHANGED <<io_u, kernel, data, events>>

\* fio_io_end: anything but a full transfer leaves a residual and no error,
\* or the error of the call.
fio_io_end(u, ret) ==
    /\ io_u' = [io_u EXCEPT
                  ![u].prepped = io_u[u].xfer,
                  ![u].error = ErrorOf(ret),
                  ![u].resid = IF ret < 0 THEN @ ELSE io_u[u].xfer - ret]
    /\ td_verror(ErrorOf(ret))
    /\ rc' = FIO_Q_COMPLETED

\* A trim that fails returns 0 and is told from its residual.
fio_syncio_queue(u) ==
    /\ \E r \in Results :
         /\ Outcome(u, r)
         /\ fio_io_end(u, IF io_u[u].ddir = "trim" /\ r < 0 THEN 0 ELSE r)
    /\ UNCHANGED <<kernel, data, events>>

----------------------------------------------------------------------------
(* vsync *)

\* struct syncio_data: the array io_us, its first queued entries waiting for
\* commit or its first events entries transferred; whether last_offset,
\* last_file and last_ddir are set.
fio_vsyncio_init ==
    data = [io_us |-> [i \in 1 .. td.iodepth |-> NoIoU],
            queued |-> 0, events |-> 0, last |-> FALSE]

\* Whether u follows the last io_u is up to the workload.
fio_vsyncio_append(u) == {FALSE} \cup {io_u[u].ddir # "sync" /\ data.last}

fio_vsyncio_set_iov(u, idx, n) ==
    /\ data' = [data EXCEPT !.io_us[idx + 1] = u, !.queued = n + 1,
                            !.last = TRUE]
    /\ io_u' = [io_u EXCEPT ![u].prepped = io_u[u].xfer]
    /\ rc' = FIO_Q_QUEUED
    /\ UNCHANGED <<kernel, events, td_error, faults, owed>>

fio_vsyncio_queue(u) ==
    \E append \in fio_vsyncio_append(u) :
        \/ /\ IF append THEN data.queued = td.iodepth ELSE data.queued > 0
           /\ Return(FIO_Q_BUSY)
        \/ /\ ~append /\ data.queued = 0 /\ io_u[u].ddir = "sync"
           /\ \E r \in Results : Outcome(u, r) /\ fio_io_end(u, r)
           /\ UNCHANGED <<kernel, data, events>>
        \/ /\ ~append /\ data.queued = 0 /\ io_u[u].ddir # "sync"
           /\ fio_vsyncio_set_iov(u, 0, 0)
        \/ /\ append /\ data.queued < td.iodepth
           /\ fio_vsyncio_set_iov(u, data.queued, data.queued)

\* fio_vsyncio_end spreads what was transferred, or the error, over the
\* first n io_us; every transfer in the vector is BufLen long.
fio_vsyncio_end(n, bytes) ==
    LET this_io(i) == LET left == bytes - (i - 1) * BufLen IN
                      IF left < 0 THEN 0 ELSE IF left > BufLen THEN BufLen ELSE left
        at(u) == {i \in 1 .. n : data.io_us[i] = u}
    IN io_u' = [u \in IoUs |->
                  IF at(u) = {} THEN io_u[u]
                  ELSE IF bytes < 0 THEN [io_u[u] EXCEPT !.error = EIO]
                  ELSE [io_u[u] EXCEPT !.error = 0,
                          !.resid = BufLen - this_io(CHOOSE i \in at(u) : TRUE)]]

\* The vector is transferred: all of it, part of it, or not at all.  queued
\* is cleared before fio_vsyncio_end looks at it.
readv_writev(bytes) ==
    \/ bytes = data.queued * BufLen /\ owed' = owed + bytes /\ UNCHANGED faults
    \/ /\ bytes \in 0 .. data.queued * BufLen - 1
       /\ Hit("short") /\ owed' = owed + bytes
    \/ bytes = -1 /\ Fault("error")

fio_vsyncio_commit ==
    \/ /\ data.queued = 0
       /\ Return(Ok)
    \/ /\ data.queued > 0
       /\ Fault("seek")
       /\ rc' = Error /\ td_verror(EIO)
       /\ UNCHANGED <<io_u, kernel, data, events>>
    \/ /\ data.queued > 0
       /\ \E bytes \in -1 .. data.queued * BufLen :
            /\ readv_writev(bytes)
            /\ data' = [data EXCEPT !.events = data.queued, !.queued = 0]
            /\ fio_vsyncio_end(data'.queued, bytes)
            /\ rc' = IF bytes < 0 THEN Error ELSE Ok
            /\ td_verror(IF bytes < 0 THEN EIO ELSE 0)
       /\ UNCHANGED <<kernel, events>>

fio_vsyncio_getevents(min, max) ==
    \/ /\ min = 0
       /\ NoEvents
    \/ /\ min > 0
       /\ rc' = Ok
       /\ events' = SubSeq(data.io_us, 1, data.events)
       /\ data' = [data EXCEPT !.events = 0]
       /\ UNCHANGED <<io_u, kernel, td_error, faults, owed>>

----------------------------------------------------------------------------
(* mmap *)

\* Of the file: mmap_ptr is not NULL, mmap_sz is not 0, partial_mmap.
fio_mmapio_init == data = [ptr |-> FALSE, sized |-> FALSE, partial |-> FALSE]

\* fio_mmapio_prep_limited: a part of the file from the io_u's offset on.
\* A block larger than mmap_map_size is refused, without td->error.
fio_mmapio_prep_limited(u) ==
    \/ /\ BufLen > td.mmap_map_size
       /\ data' = [ptr |-> FALSE, sized |-> data.sized \/ ~data.partial,
                   partial |-> TRUE]
       /\ rc' = Error /\ td_error' = 0 /\ UNCHANGED io_u
    \/ /\ BufLen <= td.mmap_map_size
       /\ data' = [ptr |-> TRUE, sized |-> TRUE, partial |-> TRUE]
       /\ rc' = Ok /\ td_error' = 0
       /\ io_u' = [io_u EXCEPT ![u].prepped = io_u[u].xfer]
    \/ /\ BufLen <= td.mmap_map_size /\ "nomap" \in td.faults
       /\ data' = [ptr |-> FALSE, sized |-> TRUE, partial |-> TRUE]
       /\ rc' = Error /\ td_error' = EIO /\ UNCHANGED io_u

\* Whether an io_u lies inside the mapping is up to the workload: one at the
\* end of the file never does (the comparison is <).  Else the old mapping
\* goes, the whole file is mapped unless that has failed before, and when it
\* fails its error is cleared and a part is mapped.
fio_mmapio_prep(u) ==
    \/ /\ data.sized
       /\ Prepared(u)
    \/ /\ data.ptr /\ Fault("unmap")
       /\ rc' = Error
       /\ UNCHANGED <<io_u, kernel, data, events, td_error>>
    \/ /\ ~data.partial
       /\ data' = [data EXCEPT !.ptr = TRUE, !.sized = TRUE]
       /\ rc' = Ok
       /\ io_u' = [io_u EXCEPT ![u].prepped = io_u[u].xfer]
       /\ UNCHANGED <<kernel, events, td_error, faults, owed>>
    \/ /\ IF data.partial THEN UNCHANGED outside ELSE Fault("map")
       /\ fio_mmapio_prep_limited(u)
       /\ UNCHANGED <<kernel, events>>

\* The copy to or from the mapping is always whole, and with odirect msync
\* may fail after it; without a mapping it is to or from nowhere, and msync
\* of the file fails.  posix_madvise returns no negative value.
fio_mmapio_queue(u) ==
    LET Told(e) == /\ io_u' = [io_u EXCEPT ![u].error = e]
                   /\ td_verror(e)
                   /\ rc' = FIO_Q_COMPLETED
                   /\ UNCHANGED <<kernel, data, events>>
    IN \/ /\ io_u[u].ddir = "rw" /\ ~data.ptr
          /\ Return(NullDeref)
       \/ /\ io_u[u].ddir = "rw" /\ data.ptr
          /\ owed' = owed + io_u[u].xfer
          /\ \/ Told(0) /\ UNCHANGED faults
             \/ Told(EIO) /\ Hit("error")
       \/ /\ io_u[u].ddir = "sync" /\ ~data.ptr
          /\ Told(EIO) /\ UNCHANGED outside
       \/ /\ io_u[u].ddir = "trim" \/ (data.ptr /\ io_u[u].ddir = "sync")
          /\ \E r \in Results : Outcome(u, r) /\ Told(ErrorOf(r))

----------------------------------------------------------------------------
(* splice *)

\* struct spliceio_data: what the kernel is still thought to support.
fio_spliceio_init == data = [vmsplice_to_user |-> TRUE,
                             vmsplice_to_user_map |-> TRUE]

\* The loop goes on until all is moved, or a call fails.
fio_splice_read_old(u, r) == r \in {io_u[u].xfer, EIO} /\ Outcome(u, r)

\* vmsplice may refuse the mapping (EFAULT), which is then given up, or to
\* move to user space at all (EBADF), and then the old way is taken.
fio_splice_read(u, r) ==
    \/ r \in {io_u[u].xfer, EIO} /\ Outcome(u, r) /\ UNCHANGED data
    \/ /\ data.vmsplice_to_user_map /\ r = io_u[u].xfer
       /\ Hit("efault") /\ owed' = owed + r
       /\ data' = [data EXCEPT !.vmsplice_to_user_map = FALSE]
    \/ /\ r = io_u[u].xfer
       /\ Hit("ebadf") /\ owed' = owed + r
       /\ data' = [data EXCEPT !.vmsplice_to_user = FALSE]

\* A poll that fails returns errno as it is, which is taken for a length.
fio_splice_write(u, r) ==
    \/ r \in {io_u[u].xfer, EIO, ENOSPC} /\ Outcome(u, r)
    \/ r \in 1 .. io_u[u].xfer - 1 /\ Fault("poll")

fio_spliceio_queue(u) ==
    /\ \E r \in Results :
         /\ \/ /\ io_u[u].ddir = "rw" /\ data.vmsplice_to_user
               /\ fio_splice_read(u, r)
            \/ /\ io_u[u].ddir = "rw" /\ ~data.vmsplice_to_user
               /\ fio_splice_read_old(u, r) /\ UNCHANGED data
            \/ /\ io_u[u].ddir = "rw"
               /\ fio_splice_write(u, r) /\ UNCHANGED data
            \/ /\ io_u[u].ddir # "rw"
               /\ Outcome(u, r) /\ UNCHANGED data
         /\ fio_io_end(u, IF io_u[u].ddir = "trim" /\ r < 0 THEN 0 ELSE r)
    /\ UNCHANGED <<kernel, events>>

----------------------------------------------------------------------------
(* cpuio *)

fio_cpuio_queue(u) ==
    /\ rc' = FIO_Q_COMPLETED
    /\ Moved(u)
    /\ UNCHANGED <<io_u, kernel, data, events, td_error>>

----------------------------------------------------------------------------
(* null: transfers nothing, but keeps the accounting of an asynchronous     *)
(* engine (engines/null.c)                                                  *)

\* struct null_data: io_us, of which the first events are finished or, when
\* events is 0, the first queued are waiting for commit.
fio_null_init == data = [io_us |-> <<>>, events |-> 0, queued |-> 0]

FIO_SYNCIO == td.iodepth = 1

fio_null_queue(u) ==
    \/ /\ FIO_SYNCIO
       /\ rc' = FIO_Q_COMPLETED
       /\ Moved(u)
       /\ UNCHANGED <<io_u, kernel, data, events, td_error>>
    \/ /\ ~FIO_SYNCIO /\ data.events > 0
       /\ Return(FIO_Q_BUSY)
    \/ /\ ~FIO_SYNCIO /\ data.events = 0
       /\ data' = [data EXCEPT !.io_us = Append(SubSeq(@, 1, data.queued), u),
                               !.queued = @ + 1]
       /\ rc' = FIO_Q_QUEUED
       /\ Moved(u)
       /\ UNCHANGED <<io_u, kernel, events, td_error>>

fio_null_commit ==
    \/ /\ data.events > 0
       /\ Return(Ok)
    \/ /\ data.events = 0
       /\ data' = [data EXCEPT !.events = data.queued, !.queued = 0]
       /\ rc' = Ok
       /\ UNCHANGED <<io_u, kernel, events, td_error, faults, owed>>

fio_null_getevents(min, max) ==
    \/ /\ min = 0
       /\ NoEvents
    \/ /\ min > 0
       /\ rc' = Ok
       /\ events' = SubSeq(data.io_us, 1, data.events)
       /\ data' = [data EXCEPT !.events = 0]
       /\ UNCHANGED <<io_u, kernel, td_error, faults, owed>>
=============================================================================
