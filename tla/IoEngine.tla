------------------------------ MODULE IoEngine ------------------------------
(***************************************************************************)
(* What every IO engine works on (struct ioengine_ops, ioengine.h): the    *)
(* io_us it is handed, the device or kernel that executes them, and its    *)
(* own private data (td->io_ops->data).                                    *)
(*                                                                         *)
(* An engine is a set of operators named after its hooks.  Each hook is a  *)
(* relation between the engine variables before and after one call: it     *)
(* says what rc (the value returned) and, for getevents, events (what      *)
(* event() answers for 0, 1, ...) become.  A hook that is not enabled is   *)
(* one that blocks; rc Again is one turn of a loop inside the hook.      *)
(* The caller, module IoLoop, decides when a hook runs.                    *)
(*                                                                         *)
(* Sizes, results and residuals are counted in units; a transfer is BufLen *)
(* units long.                                                             *)
(***************************************************************************)
EXTENDS Integers, Sequences, FiniteSets, SequencesExt

CONSTANTS IoUs,        \* the io_us of the job
          NoIoU,       \* the pointer NULL
          BufLen,      \* length of a transfer, in units
          MaxFaults    \* bound: how often something outside fio goes wrong

VARIABLES td,        \* the options of the job and the engine it uses
          io_u,      \* the fields of every io_u
          busylist,  \* td->io_u_busylist
          kernel,    \* what the device knows of an io_u
          data,      \* td->io_ops->data
          rc,        \* what the last hook returned
          events,    \* what event(0), event(1), ... return
          td_error,  \* td->error
          faults,    \* number of faults so far
          owed       \* units the device moved that fio has not counted yet

outside == <<faults, owed>>
engineVars == <<io_u, kernel, data, rc, events, td_error, faults, owed>>

\* What hooks return: the codes of queue, success or failure of the others,
\* one more turn of a loop in getevents, or the end of the process.
FIO_Q_COMPLETED == 0
FIO_Q_QUEUED == 1
FIO_Q_BUSY == 2
Ok == 10
Error == 11
Again == 12
AssertFails == 13
NullDeref == 14

\* kernel[u] is Idle, Busy, the result of the request, or Twice when a
\* request was submitted that the device still had.
Idle == -9
Busy == -8
Twice == -7
EIO == -1
ENOSPC == -4
EINVAL == -5
Failures == {EIO, ENOSPC, EINVAL}
Results == Failures \cup 0 .. BufLen
Reapable == {u \in IoUs : kernel[u] \in Results}

\* An error field: 0, or the negated errno.
ErrorOf(r) == IF r < 0 THEN r ELSE 0

IoUFields == [ddir : {"rw", "sync", "trim"}, xfer : 0 .. BufLen,
              error : Failures \cup {0}, resid : 0 .. BufLen,
              prepped : {-1} \cup 0 .. BufLen, seen : BOOLEAN]

\* Something outside fio goes wrong, within the bound; td.faults are the
\* kinds of fault the configuration meets.
Hit(kind) ==
    /\ kind \in td.faults
    /\ faults < MaxFaults
    /\ faults' = faults + 1

Fault(kind) == Hit(kind) /\ UNCHANGED owed

\* What a system call, or a request handed to the device, can give for u.
Outcome(u, r) ==
    /\ \/ /\ r = IF io_u[u].ddir = "sync" THEN 0 ELSE io_u[u].xfer
          /\ UNCHANGED faults
       \/ io_u[u].ddir = "rw" /\ r \in 1 .. io_u[u].xfer - 1 /\ Hit("short")
       \/ io_u[u].ddir = "rw" /\ r = 0 /\ Hit("zero")
       \/ r = EIO /\ Hit("error")
       \/ io_u[u].ddir = "rw" /\ r = ENOSPC /\ Hit("nospace")
    /\ owed' = IF io_u[u].ddir = "rw" /\ r > 0 THEN owed + r ELSE owed

\* The whole transfer happens, and nothing can go wrong.
Moved(u) ==
    /\ owed' = IF io_u[u].ddir = "rw" THEN owed + io_u[u].xfer ELSE owed
    /\ UNCHANGED faults

\* The device finishes a request.
DeviceCompletes(u) ==
    /\ kernel[u] = Busy
    /\ \E r \in Results :
         /\ Outcome(u, r)
         /\ kernel' = [kernel EXCEPT ![u] = r]
    /\ UNCHANGED <<td, io_u, busylist, data, rc, events, td_error>>

\* The requests in us are handed to the device, or taken back from it.
Submitted(us) ==
    [u \in IoUs |-> IF u \notin us THEN kernel[u]
                    ELSE IF kernel[u] = Idle THEN Busy ELSE Twice]
Taken(us) == [u \in IoUs |-> IF u \in us THEN Idle ELSE kernel[u]]

\* td_verror: the first error stays.
td_verror(e) == td_error' = IF td_error = 0 THEN e ELSE td_error

\* The fields of an io_u after a transfer that gave r.
Ended(u, r) ==
    IF r < 0 THEN [io_u[u] EXCEPT !.error = r]
             ELSE [io_u[u] EXCEPT !.resid = io_u[u].xfer - r]

\* The same for all the io_us in us, from the results the device holds.
AllEnded(us) ==
    [u \in IoUs |-> IF u \in us THEN Ended(u, kernel[u]) ELSE io_u[u]]

\* do_io_u_sync, do_sync_file_range: only the error tells that it failed.
do_io_u_sync(u) ==
    \E r \in Results :
        /\ Outcome(u, r)
        /\ io_u' = [io_u EXCEPT ![u].error = ErrorOf(r)]

\* do_io_u_trim: a discard; only the error tells that it failed.
do_io_u_trim(u) ==
    \E r \in Results :
        /\ Outcome(u, r)
        /\ io_u' = [io_u EXCEPT ![u].error = ErrorOf(r)]

\* A sync or trim done by the engine itself, before queue returns.
DoneByEngine(u) ==
    /\ \/ io_u[u].ddir = "sync" /\ do_io_u_sync(u)
       \/ io_u[u].ddir = "trim" /\ do_io_u_trim(u)
    /\ rc' = FIO_Q_COMPLETED
    /\ UNCHANGED <<kernel, data, events, td_error>>

\* The hook returns without touching an io_u or the device; this is also
\* what the core sees of an engine that lacks the hook.
Return(code) ==
    /\ rc' = code
    /\ UNCHANGED <<io_u, kernel, data, events, td_error, faults, owed>>

\* getevents with an empty result.
NoEvents ==
    /\ rc' = Ok /\ events' = <<>>
    /\ UNCHANGED <<io_u, kernel, data, td_error, faults, owed>>

\* prep: the request in the io_u now describes the transfer still to do.
Prepared(u) ==
    /\ io_u' = [io_u EXCEPT ![u].prepped = io_u[u].xfer]
    /\ rc' = Ok
    /\ UNCHANGED <<kernel, data, events, td_error, faults, owed>>

\* Some n of the finished requests, as one array of events.
Reaped(us) == SetToSeq(us)

\* As many of the set us as fit in max.
UpTo(max, us) ==
    {s \in SUBSET us : Cardinality(s) = IF Cardinality(us) < max
                                        THEN Cardinality(us) ELSE max}
=============================================================================
