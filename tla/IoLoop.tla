------------------------------- MODULE IoLoop -------------------------------
(***************************************************************************)
(* One job doing IO: do_io, the end fsync and do_verify of backend.c, the  *)
(* calls into the engine of ioengines.c, and the io_u lists and            *)
(* completions of io_u.c, over any of the engines.                         *)
(*                                                                         *)
(* The job is one thread; the device (and the completion thread of         *)
(* windowsaio) runs beside it.  A step of the job is the code from one     *)
(* call of an engine hook to the next.                                     *)
(***************************************************************************)
EXTENDS AioEngines, SyscallEngines, CommandEngines, SyncEngines

CONSTANTS Configs,   \* the jobs: engine, options, faults it meets
          NumIOs,    \* bound: transfers a phase starts
          NumSyncs   \* bound: syncs or trims a phase starts

VARIABLES pc,              \* where the job is
          phase,           \* "io", "fsync", "vsync" (before verify), "verify"
          cur,             \* io_u of do_io, do_verify or fio_io_sync
          freelist,        \* td->io_u_freelist
          requeues,        \* td->io_u_requeues
          flight,          \* io_us with IO_U_F_FLIGHT
          cur_depth,       \* td->cur_depth
          io_u_queued,     \* td->io_u_queued
          io_u_in_flight,  \* td->io_u_in_flight
          ret,             \* ret of the running function: a code or an errno
          min_evts,        \* argument of io_u_queued_complete
          full,            \* full of do_io and do_verify
          back,            \* where io_u_queued_complete returns to
          cback,           \* where td_io_commit returns to
          todo,            \* io_us cleanup_pending_aio has still to look at
          left,            \* transfers, syncs not started yet
          terminate        \* td->terminate

listVars == <<busylist, freelist, requeues, flight, cur_depth>>
countVars == <<io_u_queued, io_u_in_flight>>
callVars == <<ret, min_evts, full, back, cback, todo>>
jobVars == <<td, phase, left, terminate>>
vars == <<engineVars, listVars, countVars, callVars, jobVars, pc, cur>>

----------------------------------------------------------------------------
(* The engine of the job (struct ioengine_ops) *)

HasCommit == td.engine \in {"libaio", "guasi", "null", "vsync"}
HasCancel == td.engine \in {"libaio", "posixaio", "solarisaio", "guasi",
                            "windowsaio"}
HasGetevents == \/ td.engine \in {"libaio", "posixaio", "solarisaio", "guasi",
                                  "syslet", "null", "binject", "vsync",
                                  "windowsaio"}
                \/ td.engine = "sg" /\ ~td.blockdev

EngineInit ==
    \/ td.engine = "libaio" /\ fio_libaio_init
    \/ td.engine = "posixaio" /\ fio_posixaio_init
    \/ td.engine = "solarisaio" /\ fio_solarisaio_init
    \/ td.engine = "guasi" /\ fio_guasi_init
    \/ td.engine = "syslet" /\ fio_syslet_init
    \/ td.engine = "null" /\ fio_null_init
    \/ td.engine = "sg" /\ fio_sgio_init
    \/ td.engine = "binject" /\ fio_binject_init
    \/ td.engine = "vsync" /\ fio_vsyncio_init
    \/ td.engine = "windowsaio" /\ fio_windowsaio_init
    \/ td.engine = "mmap" /\ fio_mmapio_init
    \/ td.engine = "splice" /\ fio_spliceio_init
    \/ td.engine \in {"sync", "cpuio"} /\ data = <<>>

ops_prep(u) ==
    \/ td.engine = "libaio" /\ fio_libaio_prep(u)
    \/ td.engine = "posixaio" /\ fio_posixaio_prep(u)
    \/ td.engine = "solarisaio" /\ fio_solarisaio_prep(u)
    \/ td.engine = "guasi" /\ fio_guasi_prep(u)
    \/ td.engine = "sg" /\ fio_sgio_prep(u)
    \/ td.engine = "binject" /\ fio_binject_prep(u)
    \/ td.engine = "sync" /\ fio_syncio_prep(u)
    \/ td.engine = "mmap" /\ fio_mmapio_prep(u)
    \/ /\ td.engine \in {"syslet", "null", "vsync", "splice", "cpuio",
                         "windowsaio"}
       /\ Return(Ok)

ops_queue(u) ==
    \/ td.engine = "libaio" /\ fio_libaio_queue(u)
    \/ td.engine = "posixaio" /\ fio_posixaio_queue(u)
    \/ td.engine = "solarisaio" /\ fio_solarisaio_queue(u)
    \/ td.engine = "guasi" /\ fio_guasi_queue(u)
    \/ td.engine = "syslet" /\ fio_syslet_queue(u)
    \/ td.engine = "null" /\ fio_null_queue(u)
    \/ td.engine = "sg" /\ fio_sgio_queue(u)
    \/ td.engine = "binject" /\ fio_binject_queue(u)
    \/ td.engine = "sync" /\ fio_syncio_queue(u)
    \/ td.engine = "vsync" /\ fio_vsyncio_queue(u)
    \/ td.engine = "mmap" /\ fio_mmapio_queue(u)
    \/ td.engine = "splice" /\ fio_spliceio_queue(u)
    \/ td.engine = "cpuio" /\ fio_cpuio_queue(u)
    \/ td.engine = "windowsaio" /\ fio_windowsaio_queue(u)

ops_commit ==
    \/ td.engine = "libaio" /\ fio_libaio_commit
    \/ td.engine = "guasi" /\ fio_guasi_commit
    \/ td.engine = "null" /\ fio_null_commit
    \/ td.engine = "vsync" /\ fio_vsyncio_commit
    \/ ~HasCommit /\ Return(Ok)

ops_getevents(min, max) ==
    \/ td.engine = "libaio" /\ fio_libaio_getevents(min, max)
    \/ td.engine = "posixaio" /\ fio_posixaio_getevents(min, max)
    \/ td.engine = "solarisaio" /\ fio_solarisaio_getevents(min, max)
    \/ td.engine = "guasi" /\ fio_guasi_getevents(min, max)
    \/ td.engine = "syslet" /\ fio_syslet_getevents(min, max)
    \/ td.engine = "null" /\ fio_null_getevents(min, max)
    \/ td.engine = "sg" /\ fio_sgio_getevents(min, max)
    \/ td.engine = "binject" /\ fio_binject_getevents(min, max)
    \/ td.engine = "vsync" /\ fio_vsyncio_getevents(min, max)
    \/ td.engine = "windowsaio" /\ fio_windowsaio_getevents(min, max)

ops_cancel(u) ==
    \/ td.engine = "libaio" /\ fio_libaio_cancel(u)
    \/ td.engine = "posixaio" /\ fio_posixaio_cancel(u)
    \/ td.engine = "solarisaio" /\ fio_solarisaio_cancel(u)
    \/ td.engine = "guasi" /\ fio_guasi_cancel(u)
    \/ td.engine = "windowsaio" /\ fio_windowsaio_cancel(u)

----------------------------------------------------------------------------
(* io_u.c: the lists *)

Without(list, u) == SelectSeq(list, LAMBDA v : v # u)

\* An io_u goes back to the free list; IO_U_F_FLIGHT is left as it is.
put_io_u(u) ==
    /\ busylist' = Without(busylist, u)
    /\ freelist' = <<u>> \o freelist
    /\ cur_depth' = cur_depth - 1
    /\ UNCHANGED requeues

clear_io_u(u) ==
    /\ flight' = flight \ {u}
    /\ put_io_u(u)

requeue_io_u(u) ==
    /\ flight' = flight \ {u}
    /\ busylist' = Without(busylist, u)
    /\ requeues' = Append(requeues, u)
    /\ cur_depth' = cur_depth - 1
    /\ UNCHANGED freelist

\* __get_io_u: a requeued io_u first, as it was; else a free one.
__get_io_u(u) ==
    /\ IF requeues # <<>>
       THEN u = Head(requeues) /\ requeues' = Tail(requeues) /\ UNCHANGED freelist
       ELSE u = Head(freelist) /\ freelist' = Tail(freelist) /\ UNCHANGED requeues
    /\ busylist' = <<u>> \o busylist
    /\ cur_depth' = cur_depth + 1
    /\ UNCHANGED flight

\* Mutant: the residual of a short transfer is counted too.
CompletedWhole(acc, u) ==
    LET e == io_u[u].error
        a1 == [acc EXCEPT !.flight = @ \ {u}]
    IN IF e # 0 THEN [a1 EXCEPT !.error = e,
                                !.td_error = IF @ = 0 THEN e ELSE @]
       ELSE IF io_u[u].ddir = "rw" THEN [a1 EXCEPT !.owed = @ - BufLen]
       ELSE a1

\* What io_completed does to the accounts for one io_u: the assertion on
\* IO_U_F_FLIGHT, the early return for a sync, the bytes, the error of the
\* batch (icd->error) and of the job, and what continue_on_error forgives.
io_completed(acc, u) ==
    LET e == io_u[u].error
        a1 == [acc EXCEPT !.flight = @ \ {u}]
        a2 == IF e # 0
              THEN [a1 EXCEPT !.error = e,
                              !.td_error = IF @ = 0 THEN e ELSE @]
              ELSE IF io_u[u].ddir = "rw"
              THEN [a1 EXCEPT !.owed = @ - (BufLen - io_u[u].resid)]
              ELSE a1
    IN IF acc.failed \/ u \notin acc.flight THEN [acc EXCEPT !.failed = TRUE]
       ELSE IF io_u[u].ddir = "sync" THEN a1
       ELSE IF a2.error = EIO /\ td.continue_on_error
            THEN [a2 EXCEPT !.error = 0, !.td_error = 0]
            ELSE a2

\* ios_completed and the end of its two callers, io_u_sync_complete and
\* io_u_queued_complete: every event completed and put, in order.
ios_completed(evs, good, bad) ==
    LET acc == FoldLeft(io_completed,
                        [flight |-> flight, owed |-> owed, error |-> 0,
                         td_error |-> td_error, failed |-> FALSE], evs)
    IN /\ flight' = acc.flight
       /\ owed' = acc.owed
       /\ td_error' = IF acc.td_error = 0 THEN acc.error ELSE acc.td_error
       /\ ret' = acc.error
       /\ busylist' = SelectSeq(busylist, LAMBDA u : u \notin ToSet(evs))
       /\ freelist' = Reverse(evs) \o freelist
       /\ cur_depth' = cur_depth - Len(evs)
       /\ pc' = IF acc.failed THEN "aborted"
                ELSE IF acc.error = 0 THEN good ELSE bad
       /\ UNCHANGED <<io_u, kernel, data, rc, events, faults, requeues>>

----------------------------------------------------------------------------
(* Getting, preparing and queueing an io_u *)

\* do_io is done when the workload is, or when the job is told to stop.
\* flow_threshold_exceeded only delays.
Exhausted == requeues = <<>> /\ left.rw = 0 /\ left.other = 0

\* set_rw_ddir may find that it has to sleep to keep the rate; rate_ddir
\* then first waits for all that is in flight.
rate_ddir ==
    \/ /\ pc' = "prep"
       /\ UNCHANGED <<min_evts, back>>
    \/ /\ td.rate /\ io_u_in_flight # 0
       /\ min_evts' = IF io_u_in_flight < 0 THEN 2147483647 ELSE io_u_in_flight
       /\ back' = "prep" /\ pc' = "reap"

\* get_io_u of do_io, or __get_io_u and get_next_verify of do_verify.
get_io_u(ddir) ==
    /\ pc = "get" /\ phase \in {"io", "verify"} /\ ~terminate
    /\ requeues # <<>> \/ freelist # <<>>
    /\ \E u \in IoUs :
         /\ __get_io_u(u)
         /\ cur' = u
         /\ IF requeues # <<>>
            THEN /\ ddir = io_u[u].ddir
                 /\ io_u' = [io_u EXCEPT ![u].error = 0]
                 /\ pc' = "prep"
                 /\ UNCHANGED <<left, min_evts, back>>
            ELSE /\ io_u' = [io_u EXCEPT
                               ![u] = [@ EXCEPT
                                 !.ddir = ddir, !.error = 0, !.resid = 0,
                                 !.xfer = IF ddir = "sync" THEN 0 ELSE BufLen]]
                 /\ IF ddir = "rw"
                    THEN /\ left.rw > 0
                         /\ left' = [left EXCEPT !.rw = @ - 1]
                         /\ rate_ddir
                    ELSE /\ left.other > 0 /\ phase = "io" /\ ddir \in td.ddirs
                         /\ left' = [left EXCEPT !.other = @ - 1]
                         /\ pc' = "prep"
                         /\ UNCHANGED <<min_evts, back>>
    /\ UNCHANGED <<kernel, data, rc, events, td_error, faults, owed, countVars,
                   ret, full, cback, todo, td, phase, terminate>>

\* The loop ends: nothing more to do, no io_u to be had, or told to stop.
LeaveLoop ==
    /\ pc = "get" /\ phase \in {"io", "verify"}
    /\ Exhausted \/ terminate \/ requeues \o freelist = <<>>
    /\ pc' = "loopend"
    /\ UNCHANGED <<engineVars, listVars, countVars, callVars, jobVars, cur>>

\* td_io_prep; an io_u that cannot be prepared is put, and ends the loop.
td_io_prep ==
    /\ pc = "prep"
    /\ ops_prep(cur)
    /\ \/ /\ rc' = Ok /\ pc' = "queue"
          /\ UNCHANGED listVars
       \/ /\ rc' = Error
          /\ put_io_u(cur) /\ UNCHANGED flight
          /\ pc' = IF phase \in {"io", "verify"} THEN "loopend" ELSE "phaseend"
       \/ /\ rc' = AssertFails /\ pc' = "aborted"
          /\ UNCHANGED listVars
    /\ UNCHANGED <<countVars, callVars, jobVars, cur>>

\* td_io_queue up to and including the check for a batch to commit.
td_io_queue ==
    /\ pc = "queue"
    /\ IF cur \in flight
       THEN /\ pc' = "aborted"
            /\ UNCHANGED <<engineVars, flight, io_u_queued, ret, cback>>
       ELSE /\ flight' = flight \cup {cur}
            /\ ops_queue(cur)
            /\ ret' = rc'
            /\ io_u_queued' = IF rc' = FIO_Q_QUEUED /\ io_u[cur].ddir = "rw"
                              THEN io_u_queued + 1 ELSE io_u_queued
            /\ cback' = "switch"
            /\ pc' = IF rc' = AssertFails THEN "aborted"
                     ELSE IF rc' = NullDeref THEN "crashed"
                     ELSE IF rc' = FIO_Q_QUEUED /\ io_u_queued' >= td.iodepth_batch
                     THEN "commit" ELSE "switch"
    /\ UNCHANGED <<busylist, freelist, requeues, cur_depth, io_u_in_flight,
                   min_evts, full, back, todo, jobVars, cur>>

\* td_io_commit calls the hook when something is queued ...
td_io_commit ==
    /\ pc = "commit"
    /\ IF cur_depth = 0 \/ io_u_queued = 0
       THEN pc' = cback /\ UNCHANGED engineVars
       ELSE pc' = "committed" /\ ops_commit
    /\ UNCHANGED <<listVars, countVars, callVars, jobVars, cur>>

\* ... and counts it as in flight, whatever the hook returned.
td_io_committed ==
    /\ pc = "committed"
    /\ td_verror(IF rc = Error THEN EIO ELSE 0)
    /\ io_u_in_flight' = io_u_in_flight + io_u_queued
    /\ io_u_queued' = 0
    /\ pc' = cback
    /\ UNCHANGED <<io_u, kernel, data, rc, events, faults, owed, listVars,
                   callVars, jobVars, cur>>

----------------------------------------------------------------------------
(* do_io and do_verify: what came back from td_io_queue *)

Looping == phase \in {"io", "verify"}

\* COMPLETED with an error: the io_u is freed, ret is the error.  do_verify
\* goes straight on to the next io_u.
CompletedError ==
    /\ pc = "switch" /\ Looping /\ ret = FIO_Q_COMPLETED /\ io_u[cur].error # 0
    /\ ret' = io_u[cur].error
    /\ clear_io_u(cur)
    /\ pc' = IF phase = "verify" THEN "get" ELSE "check"
    /\ UNCHANGED <<engineVars, countVars, min_evts, full, back, cback, todo,
                   jobVars, cur>>

Resid == pc = "switch" /\ Looping /\ ret = FIO_Q_COMPLETED
         /\ io_u[cur].error = 0 /\ io_u[cur].resid > 0

\* Nothing at all was transferred.
CompletedNothing ==
    /\ Resid /\ io_u[cur].resid = io_u[cur].xfer
    /\ td_verror(EIO)
    /\ put_io_u(cur) /\ UNCHANGED flight
    /\ ret' = 0 /\ pc' = "check"
    /\ UNCHANGED <<io_u, kernel, data, rc, events, faults, owed, countVars,
                   min_evts, full, back, cback, todo, jobVars, cur>>

\* Part of it was: the rest is requeued.
CompletedPart ==
    /\ Resid /\ io_u[cur].resid < io_u[cur].xfer
    /\ io_u' = [io_u EXCEPT ![cur].xfer = io_u[cur].resid]
    /\ requeue_io_u(cur)
    /\ ret' = 0 /\ pc' = IF phase = "verify" THEN "get" ELSE "check"
    /\ cur' = NoIoU
    /\ UNCHANGED <<kernel, data, rc, events, td_error, faults, owed, countVars,
                   min_evts, full, back, cback, todo, jobVars>>

\* All of it was, or the file ends here: io_u_sync_complete.
io_u_sync_complete ==
    /\ pc = "switch" /\ Looping /\ ret = FIO_Q_COMPLETED /\ io_u[cur].error = 0
    /\ \/ io_u[cur].resid = 0
       \/ /\ io_u[cur].resid < io_u[cur].xfer
          /\ "short" \in td.faults
    /\ ios_completed(<<cur>>, IF phase = "verify" THEN "get" ELSE "check",
                     "check")
    /\ UNCHANGED <<countVars, min_evts, full, back, cback, todo, jobVars, cur>>

Queued ==
    /\ pc = "switch" /\ Looping /\ ret = FIO_Q_QUEUED
    /\ pc' = "check"
    /\ UNCHANGED <<engineVars, listVars, countVars, callVars, jobVars, cur>>

\* BUSY: the io_u is requeued, and what is queued is committed.
Busied ==
    /\ pc = "switch" /\ Looping /\ ret = FIO_Q_BUSY
    /\ requeue_io_u(cur)
    /\ cur' = NoIoU
    /\ cback' = "check" /\ pc' = "commit"
    /\ UNCHANGED <<engineVars, countVars, ret, min_evts, full, back, todo,
                   jobVars>>

\* ret is an errno: an integer below 0.
Failed(r) == r \in Failures

\* break_on_this_error.  do_verify reads the direction from io_u, which a
\* requeue has set to NULL.
break_on_this_error ==
    LET err == IF Failed(ret) THEN ret ELSE td_error IN
    /\ pc = "check"
    /\ IF phase = "verify" /\ cur = NoIoU
       THEN pc' = "crashed" /\ UNCHANGED <<td_error, terminate, ret>>
       ELSE IF err = 0
       THEN pc' = "full" /\ UNCHANGED <<td_error, terminate, ret>>
       ELSE IF ~td.continue_on_error
       THEN pc' = "loopend" /\ UNCHANGED <<td_error, terminate, ret>>
       ELSE IF err = EIO
       THEN pc' = "full" /\ td_error' = 0 /\ ret' = 0 /\ UNCHANGED terminate
       ELSE /\ pc' = "loopend" /\ UNCHANGED ret
            /\ IF td.fill_device /\ err = ENOSPC
               THEN td_error' = 0 /\ terminate' = TRUE
               ELSE UNCHANGED <<td_error, terminate>>
    /\ UNCHANGED <<io_u, kernel, data, rc, events, faults, owed, listVars,
                   countVars, min_evts, full, back, cback, todo, td, phase,
                   left, cur>>

\* See if some commands have to be completed before the next is started.
CheckFull ==
    LET isFull == freelist = <<>> \/ (ret = FIO_Q_BUSY /\ cur_depth > 0)
        wanted == IF td.iodepth_batch_complete < cur_depth
                  THEN td.iodepth_batch_complete ELSE cur_depth
    IN /\ pc = "full"
       /\ full' = isFull
       /\ min_evts' = IF isFull /\ wanted = 0 THEN 1 ELSE wanted
       /\ back' = "reaped"
       /\ pc' = IF isFull \/ td.iodepth_batch_complete = 0 THEN "reap"
                ELSE IF Failed(ret) THEN "loopend" ELSE "get"
       /\ UNCHANGED <<engineVars, listVars, countVars, ret, cback, todo, jobVars,
                      cur>>

\* The loop that lets a full queue drain to iodepth_low, always asking for
\* the number of events computed before it.
Reaped_ ==
    /\ pc = "reaped"
    /\ pc' = IF Failed(ret) THEN "loopend"
             ELSE IF full /\ cur_depth > td.iodepth_low THEN "reap" ELSE "get"
    /\ UNCHANGED <<engineVars, listVars, countVars, callVars, jobVars, cur>>

----------------------------------------------------------------------------
(* io_u_queued_complete and td_io_getevents *)

\* min > 0 first has the engine commit; this does not touch the counters.
td_io_getevents ==
    /\ pc = "reap"
    /\ IF min_evts > 0 /\ HasCommit THEN ops_commit ELSE Return(Ok)
    /\ pc' = "reap_committed"
    /\ UNCHANGED <<listVars, countVars, callVars, jobVars, cur>>

MaxEvents ==
    LET m == IF td.iodepth_batch_complete > cur_depth THEN cur_depth
             ELSE td.iodepth_batch_complete
    IN IF min_evts > m THEN min_evts ELSE m

ReapCommitFailed ==
    /\ pc = "reap_committed" /\ rc = Error
    /\ td_verror(EIO)
    /\ ret' = EIO /\ pc' = back
    /\ UNCHANGED <<io_u, kernel, data, rc, events, faults, owed, listVars,
                   countVars, min_evts, full, back, cback, todo, jobVars, cur>>

\* No events are asked for, or there is no hook to ask.
NothingToReap ==
    /\ pc = "reap_committed" /\ rc # Error
    /\ MaxEvents = 0 \/ ~HasGetevents
    /\ ret' = 0 /\ pc' = back
    /\ UNCHANGED <<engineVars, listVars, countVars, min_evts, full, back, cback,
                   todo, jobVars, cur>>

GetEvents ==
    /\ pc = "reap_committed" /\ rc # Error
    /\ MaxEvents > 0 /\ HasGetevents
    /\ ops_getevents(min_evts, MaxEvents)
    /\ IF rc' = Again THEN UNCHANGED <<pc, io_u_in_flight>>
       ELSE IF rc' = NullDeref THEN pc' = "crashed" /\ UNCHANGED io_u_in_flight
       ELSE /\ io_u_in_flight' = io_u_in_flight - Len(events')
            /\ pc' = "complete"
    /\ UNCHANGED <<listVars, io_u_queued, callVars, jobVars, cur>>

io_u_queued_complete ==
    /\ pc = "complete"
    /\ ios_completed(events, back, back)
    /\ UNCHANGED <<countVars, min_evts, full, back, cback, todo, jobVars, cur>>

----------------------------------------------------------------------------
(* The end of the loops *)

\* Mutant: only what has already finished is reaped at the end.
LoopEndUnwaited ==
    /\ pc = "loopend"
    /\ min_evts' = 0
    /\ back' = IF td_error = 0 THEN "drained" ELSE "pending"
    /\ pc' = IF td_error = 0 /\ cur_depth = 0 THEN "drained" ELSE "reap"
    /\ UNCHANGED <<engineVars, listVars, countVars, ret, full, cback, todo,
                   jobVars, cur>>

\* do_io forgives ENOSPC to a job that fills the device.  Without an error
\* what is pending is reaped, once; with one, cleanup_pending_aio.
LoopEnd ==
    LET forgiven == phase = "io" /\ td.fill_device /\ td_error = ENOSPC
        err == IF forgiven THEN 0 ELSE td_error
    IN /\ pc = "loopend"
       /\ td_error' = err
       /\ terminate' = (terminate \/ forgiven)
       /\ min_evts' = IF err = 0 THEN cur_depth ELSE 0
       /\ back' = IF err = 0 THEN "drained" ELSE "pending"
       /\ pc' = IF err = 0 /\ cur_depth = 0 THEN "drained" ELSE "reap"
       /\ UNCHANGED <<io_u, kernel, data, rc, events, faults, owed, listVars,
                      countVars, ret, full, cback, todo, td, phase, left, cur>>

Drained_ ==
    /\ pc = "drained"
    /\ td_error' = IF phase = "io" /\ td.fill_device /\ td_error = ENOSPC
                   THEN 0 ELSE td_error
    /\ IF phase = "io" /\ td.end_fsync
       THEN pc' = "get" /\ phase' = "fsync"
       ELSE pc' = "phaseend" /\ UNCHANGED phase
    /\ UNCHANGED <<io_u, kernel, data, rc, events, faults, owed, listVars,
                   countVars, callVars, td, left, terminate, cur>>

\* cleanup_pending_aio: an error while reaping what is there ends it;
\* otherwise the engine is asked to cancel every io_u on the busy list.
cleanup_pending_aio ==
    /\ pc = "pending"
    /\ todo' = IF HasCancel THEN busylist ELSE <<>>
    /\ pc' = IF Failed(ret) THEN "phaseend" ELSE "cancel"
    /\ UNCHANGED <<engineVars, listVars, countVars, ret, min_evts, full, back,
                   cback, jobVars, cur>>

CancelOne ==
    /\ pc = "cancel" /\ todo # <<>>
    /\ LET u == Head(todo) IN
       IF u \notin flight
       THEN put_io_u(u) /\ UNCHANGED engineVars
       ELSE /\ ops_cancel(u)
            /\ IF rc' = Ok THEN put_io_u(u)
               ELSE UNCHANGED <<busylist, freelist, requeues, cur_depth>>
    /\ todo' = Tail(todo)
    /\ UNCHANGED <<flight, countVars, ret, min_evts, full, back, cback, jobVars,
                   pc, cur>>

CancelledAll ==
    /\ pc = "cancel" /\ todo = <<>>
    /\ min_evts' = cur_depth /\ back' = "phaseend"
    /\ pc' = IF cur_depth > 0 THEN "reap" ELSE "phaseend"
    /\ UNCHANGED <<engineVars, listVars, countVars, ret, full, cback, todo,
                   jobVars, cur>>

\* thread_main goes on to do_verify when there is no error and the job was
\* not told to stop.  do_verify first syncs the file, and returns at once
\* when that leaves an error.
PhaseEnd ==
    /\ pc = "phaseend"
    /\ IF phase \in {"io", "fsync"} /\ td.verify /\ td_error = 0 /\ ~terminate
       THEN phase' = "vsync" /\ pc' = "get" /\ UNCHANGED left
       ELSE IF phase = "vsync" /\ td_error = 0
       THEN /\ phase' = "verify" /\ pc' = "get"
            /\ left' = [rw |-> NumIOs, other |-> 0]
       ELSE pc' = "ended" /\ UNCHANGED <<phase, left>>
    /\ UNCHANGED <<engineVars, listVars, countVars, callVars, td, terminate, cur>>

\* The job is told to stop: it is seen at the head of the loop.
Terminate ==
    /\ ~terminate /\ td.interrupted /\ pc = "get" /\ Looping
    /\ terminate' = TRUE
    /\ UNCHANGED <<engineVars, listVars, countVars, callVars, td, phase, left, pc,
                   cur>>

----------------------------------------------------------------------------
(* fio_io_sync *)

Syncing == phase \in {"fsync", "vsync"}

SyncGet ==
    /\ pc = "get" /\ Syncing
    /\ IF requeues \o freelist = <<>>
       THEN pc' = "phaseend" /\ UNCHANGED <<listVars, io_u, cur>>
       ELSE \E u \in IoUs :
              /\ __get_io_u(u)
              /\ cur' = u
              /\ io_u' = [io_u EXCEPT ![u] = [@ EXCEPT
                             !.ddir = "sync", !.error = 0, !.resid = 0]]
              /\ pc' = "prep"
    /\ UNCHANGED <<kernel, data, rc, events, td_error, faults, owed, countVars,
                   callVars, jobVars>>

SyncSwitch ==
    /\ pc = "switch" /\ Syncing
    /\ \/ /\ ret = FIO_Q_QUEUED
          /\ min_evts' = 1 /\ back' = "phaseend" /\ pc' = "reap"
          /\ UNCHANGED <<engineVars, listVars, ret, cback>>
       \/ /\ ret = FIO_Q_COMPLETED /\ io_u[cur].error # 0
          /\ td_verror(io_u[cur].error)
          /\ pc' = "phaseend"
          /\ UNCHANGED <<io_u, kernel, data, rc, events, faults, owed, listVars,
                         ret, min_evts, back, cback>>
       \/ /\ ret = FIO_Q_COMPLETED /\ io_u[cur].error = 0
          /\ ios_completed(<<cur>>, "phaseend", "phaseend")
          /\ UNCHANGED <<min_evts, back, cback>>
       \/ /\ ret = FIO_Q_BUSY
          /\ cback' = "queue" /\ pc' = "commit"
          /\ UNCHANGED <<engineVars, listVars, ret, min_evts, back>>
    /\ UNCHANGED <<countVars, full, todo, jobVars, cur>>

----------------------------------------------------------------------------
Over == pc \in {"ended", "aborted", "crashed"}

Stopped == Over /\ UNCHANGED vars

\* init_io_u: iodepth io_us, all free.
Init ==
    /\ td \in Configs
    /\ io_u = [u \in IoUs |-> [ddir |-> "rw", xfer |-> 0, error |-> 0,
                              resid |-> 0, prepped |-> -1, seen |-> FALSE]]
    /\ kernel = [u \in IoUs |-> Idle]
    /\ EngineInit
    /\ rc = Ok /\ events = <<>> /\ td_error = 0 /\ faults = 0 /\ owed = 0
    /\ busylist = <<>> /\ requeues = <<>>
    /\ freelist = SubSeq(SetToSeq(IoUs), 1, td.iodepth)
    /\ flight = {} /\ cur_depth = 0
    /\ io_u_queued = 0 /\ io_u_in_flight = 0
    /\ ret = 0 /\ min_evts = 0 /\ full = FALSE
    /\ back = "get" /\ cback = "get" /\ todo = <<>>
    /\ phase = "io" /\ terminate = FALSE /\ pc = "get" /\ cur = NoIoU
    /\ left = [rw |-> NumIOs, other |-> IF td.ddirs = {} THEN 0 ELSE NumSyncs]

DeviceStep == \E u \in IoUs : DeviceCompletes(u) /\ UNCHANGED
                 <<freelist, requeues, flight, cur_depth, countVars, callVars,
                   phase, left, terminate, pc, cur>>

CompletionThread ==
    /\ td.engine = "windowsaio"
    /\ \E u \in IoUs : IoCompletionRoutine(u)
    /\ UNCHANGED <<freelist, requeues, flight, cur_depth, countVars, callVars,
                   phase, left, terminate, pc, cur>>

JobStep ==
    \/ \E ddir \in {"rw", "sync", "trim"} : get_io_u(ddir)
    \/ LeaveLoop \/ td_io_prep \/ td_io_queue \/ td_io_commit \/ td_io_committed
    \/ CompletedError \/ CompletedNothing \/ CompletedPart
    \/ io_u_sync_complete \/ Queued \/ Busied
    \/ break_on_this_error \/ CheckFull \/ Reaped_
    \/ td_io_getevents \/ ReapCommitFailed \/ NothingToReap \/ GetEvents
    \/ io_u_queued_complete
    \/ LoopEnd \/ Drained_ \/ cleanup_pending_aio \/ CancelOne \/ CancelledAll
    \/ PhaseEnd \/ SyncGet \/ SyncSwitch

Next == JobStep \/ DeviceStep \/ CompletionThread \/ Terminate \/ Stopped

\* The job runs until it blocks, the device finishes what it was given, and
\* so does the completion thread.
Spec == Init /\ [][Next]_vars
        /\ WF_vars(JobStep) /\ WF_vars(DeviceStep) /\ WF_vars(CompletionThread)

----------------------------------------------------------------------------
(* Properties *)

TypeOK ==
    /\ td \in Configs /\ io_u \in [IoUs -> IoUFields]
    /\ kernel \in [IoUs -> Results \cup {Idle, Busy, Twice}]
    /\ ToSet(busylist \o freelist \o requeues) \subseteq IoUs
    /\ flight \subseteq IoUs /\ cur \in IoUs \cup {NoIoU}
    /\ td_error \in Failures \cup {0}

\* Every io_u of the job is on exactly one of the three lists, and cur_depth
\* counts the busy ones (put_io_u, requeue_io_u, __get_io_u).
ListsExact ==
    /\ Len(busylist) + Len(freelist) + Len(requeues) = td.iodepth
    /\ Cardinality(ToSet(busylist \o freelist \o requeues)) = td.iodepth
    /\ cur_depth = Len(busylist)

\* The assertions of td_io_queue and io_completed on IO_U_F_FLIGHT, those of
\* the engines, and the dereferences of io_u never fail.
NeverAborts == pc \notin {"aborted", "crashed"}

\* A request in the hands of the device describes the transfer still to do:
\* a requeued io_u is prepared again before it is queued again.
RequestCurrent ==
    \A u \in IoUs : kernel[u] = Busy /\ io_u[u].ddir # "sync" =>
                      io_u[u].prepped = io_u[u].xfer

\* A job that ends without an error has nothing busy, nothing the device
\* still works on, and nothing finished it has not picked up.
Drained ==
    pc = "ended" /\ td_error = 0 =>
        busylist = <<>> /\ \A u \in IoUs : kernel[u] = Idle

\* io_completed never counts a byte the device has not moved; and a job
\* that ends without an error has counted all of them.
BytesTrue ==
    /\ owed >= 0
    /\ pc = "ended" /\ td_error = 0 /\ ~td.continue_on_error
       /\ requeues = <<>> => owed = 0

\* Between two io_us, io_u_queued and io_u_in_flight together count what
\* was queued and not reaped: what rate_ddir waits for.
FlightCounted ==
    pc = "get" /\ Looping /\ td_error = 0 =>
        io_u_in_flight + io_u_queued = Len(busylist)

\* The queue of the job: lists, depth and flights agree at every step, no
\* assertion fails, the device has requests as they are now, and a job that ends
\* well leaves nothing behind, with every engine and after every error.
QueueExact ==
    /\ TypeOK /\ ListsExact /\ FlightCounted
    /\ NeverAborts /\ RequestCurrent /\ Drained

\* What an io_u is to the abstract service; "lost" is none of its states: a
\* request the device has that fio thinks it may use again, or has twice.
ServiceState ==
    [u \in IoUs |->
        IF kernel[u] = Twice THEN "lost"
        ELSE IF u \in ToSet(busylist)
        THEN IF kernel[u] = Busy THEN "issued"
             ELSE IF kernel[u] \in Results THEN "done" ELSE "held"
        ELSE IF kernel[u] = Idle THEN "free" ELSE "lost"]

Service == INSTANCE IoService WITH st <- ServiceState

\* do_io, do_verify and every engine implement the abstract service: no io_u
\* is handed out while the device has it, submitted twice, collected before
\* it is done or returned without having been collected.
Implements == Service!Spec

\* The job always ends: it never waits for an event that cannot come.
Ends == <>(pc = "ended")

=============================================================================
