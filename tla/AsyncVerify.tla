---------------------------- MODULE AsyncVerify ----------------------------
(***************************************************************************)
(* The io_us of a job that reads to verify, with verify_async threads:     *)
(* do_io of backend.c, the lists and flags of io_u.c, the calls of         *)
(* ioengines.c into the engine, and verify_async_thread and                *)
(* verify_async_exit of verify.c.                                          *)
(*                                                                         *)
(* The job takes an io_u off the free list, has the engine read into it    *)
(* and, when it completes, hands it to the verify threads on verify_list.  *)
(* They give it back to the free list.  Lists and flags are under          *)
(* td->io_u_lock; the job tests IO_U_F_FREE_DEF and the threads test       *)
(* verify_thread_exit without it.                                          *)
(*                                                                         *)
(* A step is a stretch of code under the lock, or between two such.  The   *)
(* lock is held across steps only by a verify thread that has decided to   *)
(* sleep and does not sleep yet.                                           *)
(***************************************************************************)
EXTENDS Integers, FiniteSets

CONSTANTS IoUs,          \* td->o.iodepth io_us
          VerifyThreads, \* td->o.verify_async threads
          NReads,        \* the blocks to read
          iodepth_low,   \* td->o.iodepth_low
          Engines,       \* the kinds of engine considered
          NoOne,         \* no io_u, no thread
          MayBusy,       \* may the engine be busy?
          MayFail,       \* may a read fail?
          MayMiscompare, \* may a block be bad?
          continue_on_error, \* has td->o.continue_on_error ERROR_TYPE_VERIFY?
          verify_fatal   \* td->o.verify_fatal

ASSUME AsyncVerifyAssumption ==
    /\ IsFiniteSet(IoUs) /\ IoUs # {}
    /\ IsFiniteSet(VerifyThreads)
    /\ NReads \in Nat /\ iodepth_low \in Nat
    /\ Engines \subseteq {"sync", "async"}
    /\ NoOne \notin IoUs \cup VerifyThreads
    /\ VerifyThreads \cap {"free", "busy", "requeue", "verify"} = {}
    /\ {MayBusy, MayFail, MayMiscompare, continue_on_error, verify_fatal}
          \subseteq BOOLEAN

VARIABLES
    list,      \* the list each io_u is on; a thread stands for its own list
    flags,     \* io_u->flags
    file,      \* is io_u->file set?
    cur_depth, \* td->cur_depth
    refs,      \* f->references taken for io_us
    issued,    \* the blocks handed out by set_io_u_file
    io_bytes,  \* td->this_io_bytes, in blocks
    lock,      \* the thread that keeps td->io_u_lock between two steps
    engine,    \* the kind of engine
    error,     \* td->error
    terminate, \* td->terminate
    jpc,       \* where the job is
    io_u,      \* the io_u it is dealing with
    busy,      \* did td_io_queue say FIO_Q_BUSY?
    events,    \* the completions it still has to look at
    back,      \* where it goes after those
    vpc,       \* where each verify thread is
    ret,       \* ret of each verify_async_thread: did the last block fail?
    verify_thread_exit,
    nr_verify_threads

iouVars == <<list, flags, file, cur_depth, refs>>
jobVars == <<issued, io_bytes, engine, jpc, io_u, busy, events, back>>
verifyVars == <<vpc, ret, nr_verify_threads>>
vars == <<iouVars, jobVars, verifyVars, lock, error, terminate, verify_thread_exit>>

On(l) == {u \in IoUs : list[u] = l}
InFlight == {u \in On("busy") : "FLIGHT" \in flags[u]}

Init ==
    /\ list = [u \in IoUs |-> "free"]
    /\ flags = [u \in IoUs |-> {"FREE"}]
    /\ file = [u \in IoUs |-> FALSE]
    /\ cur_depth = 0 /\ refs = 0 /\ issued = 0 /\ io_bytes = 0
    /\ lock = NoOne
    /\ engine \in Engines
    /\ error = FALSE /\ terminate = FALSE
    /\ jpc = "loop" /\ io_u = NoOne /\ busy = FALSE /\ events = {} /\ back = "loop"
    /\ vpc = [t \in VerifyThreads |-> "top"]
    /\ ret = [t \in VerifyThreads |-> FALSE]
    /\ verify_thread_exit = FALSE
    /\ nr_verify_threads = Cardinality(VerifyThreads)

-----------------------------------------------------------------------------
\* Mutant: the reference that verify_io_u_async gave up is given up again.
HoldsFileAlways(U) == {u \in U : file[u]}

\* Of the io_us in U, those that hold a file reference and those that count
\* for cur_depth, as put_io_u sees them.
HoldsFile(U) == {u \in U : file[u] /\ "FREE_DEF" \notin flags[u]}
Counts(U) == {u \in U : "IN_CUR_DEPTH" \in flags[u]}

PutIoU(U, cleared) ==
    /\ lock = NoOne
    /\ refs' = refs - Cardinality(HoldsFile(U))
    /\ file' = [u \in IoUs |-> file[u] /\ u \notin U]
    /\ flags' = [u \in IoUs |-> IF u \in U
                                THEN (flags[u] \ ({"FREE_DEF"} \cup cleared)) \cup {"FREE"}
                                ELSE flags[u]]
    /\ cur_depth' = cur_depth - Cardinality(Counts(U))
    /\ list' = [u \in IoUs |-> IF u \in U THEN "free" ELSE list[u]]

put_io_u(U) == PutIoU(U, {})

clear_io_u(u) == PutIoU({u}, {"FLIGHT"})

requeue_io_u(u) ==
    /\ lock = NoOne
    /\ flags' = [flags EXCEPT ![u] = (@ \ {"FLIGHT"}) \cup {"FREE"}]
    /\ cur_depth' = cur_depth - Cardinality(Counts({u}))
    /\ list' = [list EXCEPT ![u] = "requeue"]
    /\ UNCHANGED <<file, refs>>

-----------------------------------------------------------------------------
\* The job: do_io.

JobGoesTo(from, to) == jpc = from /\ jpc' = to

\* The loop ends with the last block or when the job is told to terminate.
JobLoop ==
    /\ JobGoesTo("loop", IF io_bytes >= NReads \/ terminate THEN "drain" ELSE "get")
    /\ UNCHANGED <<iouVars, issued, io_bytes, engine, io_u, busy, events, back,
                   verifyVars, lock, error, terminate, verify_thread_exit>>

\* What __get_io_u takes from: requeued io_us first, then the free list.
Available == IF On("requeue") # {} THEN On("requeue") ELSE On("free")

__get_io_u(u) ==
    /\ jpc = "get" /\ lock = NoOne
    /\ u \in Available
    /\ flags' = [flags EXCEPT ![u] = (@ \ {"FREE", "FREE_DEF"}) \cup {"IN_CUR_DEPTH"}]
    /\ list' = [list EXCEPT ![u] = "busy"]
    /\ file' = [file EXCEPT ![u] = @ /\ list[u] = "requeue"]
    /\ cur_depth' = cur_depth + 1
    /\ io_u' = u
    /\ jpc' = "fill"
    /\ UNCHANGED <<refs, issued, io_bytes, engine, busy, events, back, verifyVars,
                   lock, error, terminate, verify_thread_exit>>

\* "We ran out, wait for async verify threads to finish and return one"
WaitFree ==
    /\ JobGoesTo("get", "asleep") /\ lock = NoOne
    /\ Available = {}
    /\ UNCHANGED <<iouVars, issued, io_bytes, engine, io_u, busy, events, back,
                   verifyVars, lock, error, terminate, verify_thread_exit>>

\* get_io_u: a requeued io_u is set up already; another one gets the next block
\* and a reference to the file; it is put back when there is none.
FillIoU ==
    /\ jpc = "fill"
    /\ \/ /\ file[io_u]
          /\ jpc' = "queue"
          /\ UNCHANGED <<iouVars, issued>>
       \/ /\ ~file[io_u] /\ issued < NReads
          /\ file' = [file EXCEPT ![io_u] = TRUE]
          /\ refs' = refs + 1
          /\ issued' = issued + 1
          /\ jpc' = "queue"
          /\ UNCHANGED <<list, flags, cur_depth>>
       \/ /\ ~file[io_u] /\ issued = NReads
          /\ put_io_u({io_u})
          /\ jpc' = "drain"
          /\ UNCHANGED issued
    /\ UNCHANGED <<io_bytes, engine, io_u, busy, events, back, verifyVars, lock, error,
                   terminate, verify_thread_exit>>

\* The engine takes the io_u, or is busy or has read only a part of the block, or
\* returns an error.
td_io_queue ==
    /\ jpc = "queue"
    /\ flags' = [flags EXCEPT ![io_u] = @ \cup {"FLIGHT"}]
    /\ \/ jpc' = IF engine = "sync" THEN "complete" ELSE "after"
       \/ MayBusy /\ jpc' = "again"
       \/ MayFail /\ jpc' = "io_error"
    /\ events' = IF jpc' = "complete" THEN {io_u} ELSE {}
    /\ back' = "after" /\ busy' = FALSE
    /\ UNCHANGED <<list, file, cur_depth, refs, issued, io_bytes, engine, io_u,
                   verifyVars, lock, error, terminate, verify_thread_exit>>

\* What is left to read is requeued.
QueueAgain ==
    /\ JobGoesTo("again", "after")
    /\ requeue_io_u(io_u)
    /\ busy' = (engine = "async")
    /\ UNCHANGED <<issued, io_bytes, engine, io_u, events, back, verifyVars, lock,
                   error, terminate, verify_thread_exit>>

QueueFails ==
    /\ JobGoesTo("io_error", "drain")
    /\ clear_io_u(io_u)
    /\ error' = TRUE
    /\ UNCHANGED <<issued, io_bytes, engine, io_u, busy, events, back, verifyVars,
                   lock, terminate, verify_thread_exit>>

\* break_on_this_error; if the queue is full the job must reap an event.
AfterQueue ==
    /\ JobGoesTo("after", IF error THEN "drain"
                          ELSE IF On("free") = {} \/ (busy /\ cur_depth > 0)
                          THEN "reap" ELSE "loop")
    /\ UNCHANGED <<iouVars, issued, io_bytes, engine, io_u, busy, events, back,
                   verifyVars, lock, error, terminate, verify_thread_exit>>

\* td_io_getevents waits for an event, unless the engine has no such call.
Reap ==
    /\ jpc = "reap"
    /\ IF engine = "sync"
       THEN jpc' = "reaped" /\ UNCHANGED <<events, back>>
       ELSE /\ \E u \in InFlight : events' = {u}
            /\ jpc' = "complete" /\ back' = "reaped"
    /\ UNCHANGED <<iouVars, issued, io_bytes, engine, io_u, busy, verifyVars, lock,
                   error, terminate, verify_thread_exit>>

Reaped ==
    /\ JobGoesTo("reaped", IF cur_depth > iodepth_low THEN "reap" ELSE "loop")
    /\ UNCHANGED <<iouVars, issued, io_bytes, engine, io_u, busy, events, back,
                   verifyVars, lock, error, terminate, verify_thread_exit>>

-----------------------------------------------------------------------------
\* Completions: ios_completed and io_u_sync_complete.

\* The next event, or back to where they were asked for.
AfterEvent(u, to) ==
    /\ events' = events \ {u}
    /\ jpc' = IF events = {u} THEN to ELSE "complete"

\* io_completed up to where verify_io_u_async, the end_io, unlocks.
CompleteRead(u) ==
    /\ jpc = "complete" /\ lock = NoOne
    /\ u \in events
    /\ refs' = IF file[u] THEN refs - 1 ELSE refs
    /\ cur_depth' = cur_depth - Cardinality(Counts({u}))
    /\ flags' = [flags EXCEPT ![u] = (@ \ {"FLIGHT", "IN_CUR_DEPTH"}) \cup {"FREE_DEF"}]
    /\ list' = [list EXCEPT ![u] = "verify"]
    /\ io_bytes' = io_bytes + 1
    /\ io_u' = u
    /\ jpc' = "signal"
    /\ UNCHANGED <<file, issued, engine, busy, events, back, verifyVars, lock, error,
                   terminate, verify_thread_exit>>

\* pthread_cond_signal(&td->verify_cond) wakes one of the threads that sleep.
SignalVerify ==
    /\ JobGoesTo("signal", "put")
    /\ \/ \E t \in VerifyThreads : vpc[t] = "asleep" /\ vpc' = [vpc EXCEPT ![t] = "lock"]
       \/ (\A t \in VerifyThreads : vpc[t] # "asleep") /\ UNCHANGED vpc
    /\ UNCHANGED <<iouVars, issued, io_bytes, engine, io_u, busy, events, back, ret,
                   nr_verify_threads, lock, error, terminate, verify_thread_exit>>

\* The io_u is the verify threads' to put, unless they have put it already: the
\* flag is gone then and the job puts it once more.
PutCompleted ==
    /\ jpc = "put"
    /\ IF "FREE_DEF" \in flags[io_u] THEN UNCHANGED iouVars ELSE put_io_u({io_u})
    /\ AfterEvent(io_u, back)
    /\ UNCHANGED <<issued, io_bytes, engine, io_u, busy, back, verifyVars, lock, error,
                   terminate, verify_thread_exit>>

\* A read that failed has no end_io called and is put by the job.
CompleteFailed(u) ==
    /\ MayFail
    /\ jpc = "complete"
    /\ u \in events
    /\ clear_io_u(u)
    /\ error' = TRUE
    /\ back' = IF back \in {"cancel", "exit"} THEN "exit" ELSE "drain"
    /\ AfterEvent(u, back')
    /\ UNCHANGED <<issued, io_bytes, engine, io_u, busy, verifyVars, lock, terminate,
                   verify_thread_exit>>

\* The job waits for all of U, if there is any, and goes on to its exit.
WaitFor(U) ==
    \/ /\ cur_depth' = 0
       /\ jpc' = "exit" /\ UNCHANGED <<events, back>>
    \/ /\ cur_depth' > 0 /\ Cardinality(U) >= cur_depth'
       /\ events' = U
       /\ jpc' = "complete" /\ back' = "exit"

\* The end of do_io: everything in flight is waited for.
Drain ==
    /\ jpc = "drain"
    /\ IF error THEN jpc' = "cleanup" /\ UNCHANGED <<cur_depth, events, back>>
                ELSE UNCHANGED cur_depth /\ WaitFor(InFlight)
    /\ UNCHANGED <<list, flags, file, refs, issued, io_bytes, engine, io_u, busy,
                   verifyVars, lock, error, terminate, verify_thread_exit>>

\* cleanup_pending_aio, after an error: an event that is there is taken, ...
CleanupEvent ==
    /\ jpc = "cleanup"
    /\ \/ \E u \in InFlight : events' = {u} /\ jpc' = "complete" /\ back' = "cancel"
       \/ jpc' = "cancel" /\ UNCHANGED <<events, back>>
    /\ UNCHANGED <<iouVars, issued, io_bytes, engine, io_u, busy, verifyVars, lock,
                   error, terminate, verify_thread_exit>>

\* ... the engine is asked to cancel the rest, and what it does not cancel is
\* waited for.
Cancel ==
    /\ jpc = "cancel"
    /\ \E K \in SUBSET InFlight : put_io_u(K) /\ WaitFor(InFlight \ K)
    /\ UNCHANGED <<issued, io_bytes, engine, io_u, busy, verifyVars, lock, error,
                   terminate, verify_thread_exit>>

\* verify_async_exit raises the flag, wakes all verify threads, both without the
\* lock, and waits for the last to leave.
RaiseExit ==
    /\ JobGoesTo("exit", "broadcast")
    /\ verify_thread_exit' = TRUE
    /\ UNCHANGED <<iouVars, issued, io_bytes, engine, io_u, busy, events, back,
                   verifyVars, lock, error, terminate>>

Broadcast ==
    /\ JobGoesTo("broadcast", "join")
    /\ vpc' = [t \in VerifyThreads |-> IF vpc[t] = "asleep" THEN "lock" ELSE vpc[t]]
    /\ UNCHANGED <<iouVars, issued, io_bytes, engine, io_u, busy, events, back, ret,
                   nr_verify_threads, lock, error, terminate, verify_thread_exit>>

Join ==
    /\ lock = NoOne
    /\ JobGoesTo("join", IF nr_verify_threads = 0 THEN "done" ELSE "join_asleep")
    /\ UNCHANGED <<iouVars, issued, io_bytes, engine, io_u, busy, events, back,
                   verifyVars, lock, error, terminate, verify_thread_exit>>

\* What a signal of free_cond does to the job, its only waiter.
SignalFree == CASE jpc = "asleep" -> "get"
                [] jpc = "join_asleep" -> "join"
                [] OTHER -> jpc

\* The job is told to stop: by a signal, another job, or its runtime.
Terminate ==
    /\ ~terminate /\ terminate' = TRUE
    /\ UNCHANGED <<iouVars, jobVars, verifyVars, lock, error, verify_thread_exit>>

-----------------------------------------------------------------------------
\* A verify thread: verify_async_thread.

VerifyGoesTo(t, from, to) == vpc[t] = from /\ vpc' = [vpc EXCEPT ![t] = to]

\* The test of the flag at the top of the loop, without the lock.
TestExit(t) ==
    /\ VerifyGoesTo(t, "top", IF verify_thread_exit THEN "leave" ELSE "lock")
    /\ UNCHANGED <<iouVars, jobVars, ret, nr_verify_threads, lock, error, terminate,
                   verify_thread_exit>>

\* Mutant: the lock is not kept until the thread sleeps.
DecideUnlocked(t) ==
    /\ lock = NoOne
    /\ On("verify") = {} /\ ~verify_thread_exit
    /\ VerifyGoesTo(t, "lock", "to_sleep")
    /\ UNCHANGED <<iouVars, jobVars, ret, nr_verify_threads, lock, error, terminate,
                   verify_thread_exit>>

\* Nothing to do and no exit: the thread will sleep, and has the lock until then.
DecideToSleep(t) ==
    /\ lock = NoOne
    /\ On("verify") = {} /\ ~verify_thread_exit
    /\ VerifyGoesTo(t, "lock", "to_sleep")
    /\ lock' = t
    /\ UNCHANGED <<iouVars, jobVars, ret, nr_verify_threads, error, terminate,
                   verify_thread_exit>>

Sleep(t) ==
    /\ VerifyGoesTo(t, "to_sleep", "asleep")
    /\ lock' = NoOne
    /\ UNCHANGED <<iouVars, jobVars, ret, nr_verify_threads, error, terminate,
                   verify_thread_exit>>

\* flist_splice_init: all of verify_list becomes the thread's.
TakeList(t) ==
    /\ lock = NoOne
    /\ On("verify") # {} \/ verify_thread_exit
    /\ VerifyGoesTo(t, "lock", IF On("verify") = {} THEN "top" ELSE "verify")
    /\ list' = [u \in IoUs |-> IF list[u] = "verify" THEN t ELSE list[u]]
    /\ UNCHANGED <<flags, file, cur_depth, refs, jobVars, ret, nr_verify_threads, lock,
                   error, terminate, verify_thread_exit>>

\* verify_io_u and put_io_u.  The result of the io_u replaces that of the one
\* before it.
VerifyOne(t, u, bad) ==
    /\ bad => MayMiscompare
    /\ VerifyGoesTo(t, "verify", "notify")
    /\ list[u] = t
    /\ put_io_u({u})
    /\ ret' = [ret EXCEPT ![t] = bad /\ ~continue_on_error]
    /\ error' = (error /\ ~(bad /\ continue_on_error))
    /\ terminate' = (terminate \/ (bad /\ verify_fatal))
    /\ UNCHANGED <<jobVars, nr_verify_threads, lock, verify_thread_exit>>

\* Mutant: free_cond is not signalled.
NotifyNone(t) ==
    /\ VerifyGoesTo(t, "notify", IF On(t) # {} THEN "verify"
                                 ELSE IF ret[t] THEN "failed" ELSE "top")
    /\ UNCHANGED <<iouVars, jobVars, ret, nr_verify_threads, lock, error, terminate,
                   verify_thread_exit>>

\* td_io_u_free_notify; then the next io_u, or the next list, or the end.
Notify(t) ==
    /\ VerifyGoesTo(t, "notify", IF On(t) # {} THEN "verify"
                                 ELSE IF ret[t] THEN "failed" ELSE "top")
    /\ jpc' = SignalFree
    /\ UNCHANGED <<iouVars, issued, io_bytes, engine, io_u, busy, events, back, ret,
                   nr_verify_threads, lock, error, terminate, verify_thread_exit>>

VerifyError(t) ==
    /\ VerifyGoesTo(t, "failed", "leave")
    /\ error' = TRUE
    /\ terminate' = (terminate \/ verify_fatal)
    /\ UNCHANGED <<iouVars, jobVars, ret, nr_verify_threads, lock, verify_thread_exit>>

Leave(t) ==
    /\ lock = NoOne
    /\ VerifyGoesTo(t, "leave", "left")
    /\ nr_verify_threads' = nr_verify_threads - 1
    /\ UNCHANGED <<iouVars, jobVars, ret, lock, error, terminate, verify_thread_exit>>

NotifyLeft(t) ==
    /\ VerifyGoesTo(t, "left", "gone")
    /\ jpc' = SignalFree
    /\ UNCHANGED <<iouVars, issued, io_bytes, engine, io_u, busy, events, back, ret,
                   nr_verify_threads, lock, error, terminate, verify_thread_exit>>

\* pthread_cond_wait may return for no reason.
SpuriousWakeup ==
    /\ \/ SignalFree # jpc /\ jpc' = SignalFree /\ UNCHANGED vpc
       \/ \E t \in VerifyThreads : VerifyGoesTo(t, "asleep", "lock") /\ UNCHANGED jpc
    /\ UNCHANGED <<iouVars, issued, io_bytes, engine, io_u, busy, events, back, ret,
                   nr_verify_threads, lock, error, terminate, verify_thread_exit>>

-----------------------------------------------------------------------------
do_io ==
    \/ JobLoop \/ WaitFree \/ FillIoU \/ td_io_queue \/ QueueAgain \/ QueueFails
    \/ AfterQueue \/ Reap \/ Reaped \/ SignalVerify \/ PutCompleted
    \/ Drain \/ CleanupEvent \/ Cancel
    \/ \E u \in IoUs : __get_io_u(u) \/ CompleteRead(u) \/ CompleteFailed(u)

verify_async_exit == RaiseExit \/ Broadcast \/ Join

verify_async_thread(t) ==
    \/ TestExit(t) \/ DecideToSleep(t) \/ Sleep(t) \/ TakeList(t) \/ Notify(t)
    \/ VerifyError(t) \/ Leave(t) \/ NotifyLeft(t)
    \/ \E u \in IoUs, bad \in BOOLEAN : VerifyOne(t, u, bad)

Next ==
    \/ do_io \/ verify_async_exit \/ Terminate \/ SpuriousWakeup
    \/ \E t \in VerifyThreads : verify_async_thread(t)

Spec == Init /\ [][Next]_vars

\* A thread that can get the lock time and again gets it.
Fairness ==
    /\ SF_vars(do_io \/ verify_async_exit)
    /\ \A t \in VerifyThreads : SF_vars(verify_async_thread(t))

FairSpec == Spec /\ Fairness

-----------------------------------------------------------------------------
TypeOK ==
    /\ list \in [IoUs -> {"free", "busy", "requeue", "verify"} \cup VerifyThreads]
    /\ flags \in [IoUs -> SUBSET {"FREE", "FREE_DEF", "FLIGHT", "IN_CUR_DEPTH"}]
    /\ file \in [IoUs -> BOOLEAN]
    /\ cur_depth \in Nat /\ refs \in Nat /\ issued \in Nat /\ io_bytes \in Nat
    /\ lock \in VerifyThreads \cup {NoOne}
    /\ engine \in Engines
    /\ {error, terminate, busy, verify_thread_exit} \subseteq BOOLEAN
    /\ jpc \in {"loop", "get", "asleep", "fill", "queue", "again", "io_error",
                "after", "reap", "reaped",
                "complete", "signal", "put", "drain", "cleanup", "cancel", "exit",
                "broadcast", "join", "join_asleep", "done"}
    /\ io_u \in IoUs \cup {NoOne}
    /\ events \subseteq IoUs
    /\ back \in {"loop", "after", "reaped", "drain", "cancel", "exit"}
    /\ vpc \in [VerifyThreads -> {"top", "lock", "to_sleep", "asleep", "verify",
                                  "notify", "failed", "leave", "left", "gone"}]
    /\ ret \in [VerifyThreads -> BOOLEAN]
    /\ nr_verify_threads \in Nat

\* cur_depth is the number of io_us that are out, though two threads may put
\* the same io_u: what do_io waits for with it does come.
DepthExact == cur_depth = Cardinality(On("busy"))

\* Every reference that get_file took for an io_u is given up exactly once, by
\* whichever thread.
RefsExact == refs = Cardinality({u \in On("busy") \cup On("requeue") : file[u]})

\* The assertions on the flags in __get_io_u, td_io_queue and io_completed.
FlagsAsserted ==
    /\ jpc = "get" => \A u \in Available : "FREE" \in flags[u]
    /\ jpc = "queue" => "FLIGHT" \notin flags[io_u]
    /\ jpc = "complete" => \A u \in events : list[u] = "busy" /\ "FLIGHT" \in flags[u]

\* An io_u is in one place and in one state, whichever of the threads put, queued
\* or completed it: depth, file references and flags agree with the lists.
IoUsExact == TypeOK /\ DepthExact /\ RefsExact /\ FlagsAsserted

VerifyAlive == \E t \in VerifyThreads : vpc[t] \notin {"failed", "leave", "left", "gone"}

\* As long as there is a verify thread, what is handed over is taken: one signal
\* for each io_u and the splice of the whole list lose none.
HandedIsTaken ==
    \A u \in IoUs : list[u] = "verify" ~> (list[u] # "verify" \/ ~VerifyAlive)

\* io_u.c: "We ran out, wait for async verify threads to finish and return one".
\* As long as there is a verify thread the wait ends.
FreeArrives == jpc = "asleep" ~> (jpc # "asleep" \/ ~VerifyAlive)

\* HOWTO, verify_async: "... to offload the duty of verifying IO contents to one
\* or more separate threads."  When a job that was not stopped and met no error
\* is done, what it read is verified.
EntireContents == jpc = "done" /\ ~error /\ ~terminate => On("verify") = {}
=============================================================================
