------------------------------ MODULE Backend ------------------------------
(***************************************************************************)
(* The life of the jobs (backend.c, libfio.c): the main thread creates,    *)
(* starts and reaps them (run_threads, reap_threads), each job sets itself *)
(* up, works and exits (thread_main), and anyone may terminate them        *)
(* (fio_terminate_threads, sig_int).                                       *)
(*                                                                         *)
(* Jobs are the td's of the job file, numbered in its order.  What a job   *)
(* does while it works (do_io, do_verify) is left to other modules: here   *)
(* it ends, fails or is told to stop.  startup_mutex and td->mutex are     *)
(* counts; FioMutex shows what fio_mutex makes of them, and the lock that  *)
(* fio_mutex_down_timeout keeps when it times out is startup_locked.       *)
(***************************************************************************)
EXTENDS Integers, FiniteSets

CONSTANTS NJobs,      \* thread_number
          Options,    \* the job files considered: functions from jobs to td->o
          exitall,    \* exitall_on_terminate
          BusyStates, \* the runstates a working job is seen in
          UINT_MAX,   \* the largest unsigned int
          MayFail,    \* may a job's setup or its work fail?
          MayNotStart,\* may creating a job fail, or its startup hang?
          MayCrash,   \* may a job's process be killed?
          MayInterrupt \* may the user interrupt fio?

Jobs == 1 .. NJobs
Main == 0

TD_NOT_CREATED == 0
TD_CREATED     == 1
TD_INITIALIZED == 2
TD_RAMP        == 3
TD_RUNNING     == 4
TD_PRE_READING == 5
TD_VERIFYING   == 6
TD_FSYNCING    == 7
TD_EXITED      == 8
TD_REAPED      == 9

\* The fields of td->o that decide over the life of a job.
JobOptions == [stonewall : BOOLEAN, new_group : BOOLEAN, use_thread : BOOLEAN,
               start_delay : BOOLEAN, create_serialize : BOOLEAN,
               engine : {"rw", "cpuio", "net"}]

ASSUME BackendAssumption ==
    /\ NJobs \in Nat \ {0}
    /\ Options \subseteq [Jobs -> JobOptions]
    /\ BusyStates \subseteq TD_RAMP .. TD_FSYNCING /\ TD_RUNNING \in BusyStates
    /\ UINT_MAX \in Nat /\ UINT_MAX > NJobs
    /\ exitall \in BOOLEAN /\ MayFail \in BOOLEAN /\ MayNotStart \in BOOLEAN
    /\ MayCrash \in BOOLEAN /\ MayInterrupt \in BOOLEAN

VARIABLES
    \* struct thread_data, per job
    o,              \* td->o
    runstate, terminate, error,
    pid,            \* is td->pid set?
    start_delay,    \* is td->o.start_delay still to elapse?
    io_ops,         \* is td->io_ops loaded?
    mutex,          \* td->mutex
    \* the job's thread or process
    jpc,            \* where it is in thread_main
    proc,           \* what waitpid tells of its process
    \* shared
    startup_mutex, startup_locked,
    sigterm,        \* processes with SIGTERM pending
    exit_value,
    \* run_threads
    pc, i, todo, nr_started, nr_running,
    map,            \* the jobs of this round that are not known to have started
    fio_abort,
    start_failed,   \* has run_threads left its loop because "left" was not 0?
    \* reap_threads
    count           \* its cputhreads, realthreads and pending

tdVars == <<o, runstate, terminate, error, pid, start_delay, io_ops, mutex>>
jobVars == <<jpc, proc>>
sharedVars == <<startup_mutex, startup_locked, sigterm, exit_value>>
mainVars == <<pc, i, todo, nr_started, nr_running, map, fio_abort,
              start_failed, count>>
vars == <<tdVars, jobVars, sharedVars, mainVars>>

-----------------------------------------------------------------------------
\* unsigned int
Inc(n) == IF n = UINT_MAX THEN 0 ELSE n + 1
Dec(n) == IF n = 0 THEN UINT_MAX ELSE n - 1

\* add_job: a stone wall or new_group starts a new group, unless no job came
\* before.
td_groupid(j) ==
    Cardinality({k \in 2 .. j : o[k].stonewall \/ o[k].new_group})

\* The global groupid, once all jobs are added.
groupid == td_groupid(NJobs)

-----------------------------------------------------------------------------
\* fio_terminate_threads.  The group a caller asks for is compared with
\* nothing: the test is on the global groupid.
Matched(group_id) ==
    {j \in Jobs : group_id = -1 \/ groupid = td_groupid(j)}

\* Where kill(td->pid, SIGTERM) goes: the thread id of a thread leads to the
\* process it is in.
SignalTarget(j) == IF o[j].use_thread THEN Main ELSE j

\* The jobs of S that get a SIGTERM: those not running yet, and those whose
\* engine has FIO_SIGTERM.
Killed(S) ==
    {SignalTarget(j) : j \in {k \in S :
        /\ pid[k]
        /\ runstate[k] < TD_RAMP \/ (io_ops[k] /\ o[k].engine = "net")}}

TERMINATE_ALL == -1

\* pending is the set of processes that have a SIGTERM pending already.
fio_terminate_threads(group_id, pending) ==
    LET S == Matched(group_id)
    IN /\ terminate' = [j \in Jobs |-> terminate[j] \/ j \in S]
       /\ start_delay' = [j \in Jobs |-> start_delay[j] /\ j \notin S]
       /\ sigterm' = pending \cup Killed(S)

Alive(p) == IF p = Main THEN pc # "done" ELSE proc[p] = "alive"

\* sig_int.  A job's process runs it too, on its own copy of exit_value.
sig_int(p) ==
    /\ p \in sigterm
    /\ Alive(p)
    /\ fio_terminate_threads(TERMINATE_ALL, sigterm \ {p})
    /\ exit_value' = IF p = Main THEN 128 ELSE exit_value
    /\ UNCHANGED <<o, runstate, error, pid, io_ops, mutex, startup_mutex,
                   startup_locked, jobVars, mainVars>>

-----------------------------------------------------------------------------
\* Mutant: a job whose files cannot be set up is still to do.
SetupFilesTodo ==
    /\ pc = "setup" /\ i \in Jobs
    /\ \/ UNCHANGED <<exit_value, runstate>>
       \/ /\ MayFail /\ o[i].create_serialize
          /\ exit_value' = exit_value + 1
          /\ runstate' = [runstate EXCEPT ![i] = TD_REAPED]
    /\ i' = i + 1
    /\ UNCHANGED <<o, terminate, error, pid, start_delay, io_ops, mutex, jobVars,
                   startup_mutex, startup_locked, sigterm, pc, todo, nr_started,
                   nr_running, map, fio_abort, start_failed, count>>

\* run_threads, before the loop: set up the files of the jobs that ask for it
\* to be done one job at a time.
SetupFiles ==
    /\ pc = "setup" /\ i \in Jobs
    /\ \/ UNCHANGED <<exit_value, runstate, todo>>
       \/ /\ MayFail /\ o[i].create_serialize
          /\ exit_value' = exit_value + 1
          /\ runstate' = [runstate EXCEPT ![i] = TD_REAPED]
          /\ todo' = Dec(todo)
    /\ i' = i + 1
    /\ UNCHANGED <<o, terminate, error, pid, start_delay, io_ops, mutex, jobVars,
                   startup_mutex, startup_locked, sigterm, pc, nr_started,
                   nr_running, map, fio_abort, start_failed, count>>

EndSetup ==
    /\ pc = "setup" /\ i \notin Jobs
    /\ pc' = IF todo # 0 THEN "create" ELSE "done"
    /\ i' = 1
    /\ UNCHANGED <<tdVars, jobVars, sharedVars, todo, nr_started, nr_running, map,
                   fio_abort, start_failed, count>>

-----------------------------------------------------------------------------
\* The creating scan passes over job i, which exists already or is to wait for
\* its start_delay.
PassOver ==
    /\ pc = "create" /\ i \in Jobs
    /\ \/ runstate[i] # TD_NOT_CREATED
       \/ ~terminate[i] /\ start_delay[i]
    /\ i' = i + 1
    /\ UNCHANGED <<tdVars, jobVars, sharedVars, pc, todo, nr_started, nr_running,
                   map, fio_abort, start_failed, count>>

\* Mutant: the job is skipped, but still to do.
NeverStartedTodo ==
    /\ pc = "create" /\ i \in Jobs
    /\ runstate[i] = TD_NOT_CREATED
    /\ terminate[i]
    /\ i' = i + 1
    /\ UNCHANGED <<tdVars, jobVars, sharedVars, pc, todo, nr_started, nr_running,
                   map, fio_abort, start_failed, count>>

\* "never got a chance to start, killed by other thread for some reason"
NeverStarted ==
    /\ pc = "create" /\ i \in Jobs
    /\ runstate[i] = TD_NOT_CREATED
    /\ terminate[i]
    /\ todo' = Dec(todo)
    /\ i' = i + 1
    /\ UNCHANGED <<tdVars, jobVars, sharedVars, pc, nr_started, nr_running, map,
                   fio_abort, start_failed, count>>

MayCreate(j) ==
    /\ runstate[j] = TD_NOT_CREATED
    /\ ~terminate[j]
    /\ ~start_delay[j]

\* Mutant: jobs that are still starting do not hold up a stone wall.
RunningStonewall(j) == o[j].stonewall /\ nr_running # 0

AtStonewall(j) == o[j].stonewall /\ (nr_started # 0 \/ nr_running # 0)

\* The scan ends, at a stone wall or behind the last job.
EndCreate ==
    /\ pc = "create"
    /\ \/ i \notin Jobs
       \/ i \in Jobs /\ MayCreate(i) /\ AtStonewall(i)
    /\ pc' = "wait"
    /\ UNCHANGED <<tdVars, jobVars, sharedVars, i, todo, nr_started, nr_running,
                   map, fio_abort, start_failed, count>>

\* The scan creates job i.  pthread_create may fail, which ends the scan, and so
\* may fork, which nobody notices.
CreateJob ==
    /\ pc = "create" /\ i \in Jobs
    /\ MayCreate(i) /\ ~AtStonewall(i)
    /\ runstate' = [runstate EXCEPT ![i] = TD_CREATED]
    /\ map' = map \cup {i}
    /\ \/ /\ jpc' = [jpc EXCEPT ![i] = "start"]
          /\ proc' = [proc EXCEPT ![i] = "alive"]
          /\ nr_started' = Inc(nr_started)
          /\ pc' = "startup"
       \/ /\ MayNotStart
          /\ IF o[i].use_thread
             THEN pc' = "wait" /\ UNCHANGED nr_started
             ELSE pc' = "startup" /\ nr_started' = Inc(nr_started)
          /\ UNCHANGED jobVars
    /\ UNCHANGED <<o, terminate, error, pid, start_delay, io_ops, mutex, sharedVars,
                   i, todo, nr_running, fio_abort, start_failed, count>>

\* fio_mutex_down_timeout(startup_mutex, 10) returns 0 ...
StartupDone ==
    /\ pc = "startup"
    /\ startup_mutex # 0
    /\ startup_mutex' = startup_mutex - 1
    /\ pc' = "create"
    /\ i' = i + 1
    /\ UNCHANGED <<tdVars, jobVars, startup_locked, sigterm, exit_value, todo,
                   nr_started, nr_running, map, fio_abort, start_failed, count>>

\* ... or it times out, because the job hangs, has died or was never there.
StartupTimeout ==
    /\ pc = "startup"
    /\ MayNotStart \/ proc[i] # "alive"
    /\ startup_locked' = TRUE
    /\ fio_terminate_threads(TERMINATE_ALL, sigterm)
    /\ fio_abort' = TRUE
    /\ nr_started' = Dec(nr_started)
    /\ pc' = "wait"
    /\ UNCHANGED <<o, runstate, error, pid, io_ops, mutex, jobVars, startup_mutex,
                   exit_value, i, todo, nr_running, map, start_failed, count>>

-----------------------------------------------------------------------------
\* One look of the waiting loop at job j of this round.  The code also allows
\* for a job that has exited by now; a job cannot, it waits for td->mutex.
PollJob(j) ==
    /\ pc = "wait" /\ ~fio_abort
    /\ j \in map
    /\ runstate[j] \in {TD_INITIALIZED, TD_EXITED, TD_REAPED}
    /\ todo' = IF runstate[j] >= TD_EXITED THEN Dec(todo) ELSE todo
    /\ nr_running' = IF runstate[j] >= TD_EXITED THEN Inc(nr_running) ELSE nr_running
    /\ map' = map \ {j}
    /\ UNCHANGED <<tdVars, jobVars, sharedVars, pc, i, nr_started, fio_abort,
                   start_failed, count>>

AllStarted ==
    /\ pc = "wait"
    /\ map = {}
    /\ pc' = "start"
    /\ i' = 1
    /\ UNCHANGED <<tdVars, jobVars, sharedVars, todo, nr_started, nr_running, map,
                   fio_abort, start_failed, count>>

NoCount == [cputhreads |-> 0, realthreads |-> 0, pending |-> 0]

\* Some job of this round is not up after JOB_START_TIMEOUT, or startup was
\* aborted: those still in the map get a SIGTERM and the loop is left.  kill
\* with the pid of a job that never ran, 0, signals fio itself.
StartFailed ==
    /\ pc = "wait"
    /\ map # {}
    /\ fio_abort \/ \A j \in map : runstate[j] = TD_CREATED
    /\ sigterm' = sigterm \cup
                  {IF pid[j] THEN SignalTarget(j) ELSE Main : j \in map}
    /\ start_failed' = TRUE
    /\ pc' = IF nr_running # 0 THEN "reap" ELSE "done"
    /\ i' = 1
    /\ count' = NoCount
    /\ UNCHANGED <<tdVars, jobVars, startup_mutex, startup_locked, exit_value, todo,
                   nr_started, nr_running, map, fio_abort>>

-----------------------------------------------------------------------------
PassStart ==
    /\ pc = "start" /\ i \in Jobs
    /\ runstate[i] # TD_INITIALIZED
    /\ i' = i + 1
    /\ UNCHANGED <<tdVars, jobVars, sharedVars, pc, todo, nr_started, nr_running,
                   map, fio_abort, start_failed, count>>

\* start created threads (TD_INITIALIZED -> TD_RUNNING).
StartJob ==
    /\ pc = "start" /\ i \in Jobs
    /\ runstate[i] = TD_INITIALIZED
    /\ \E s \in BusyStates \cap {TD_RAMP, TD_RUNNING} :
          runstate' = [runstate EXCEPT ![i] = s]
    /\ nr_running' = Inc(nr_running)
    /\ nr_started' = Dec(nr_started)
    /\ todo' = Dec(todo)
    /\ mutex' = [mutex EXCEPT ![i] = @ + 1]
    /\ i' = i + 1
    /\ UNCHANGED <<o, terminate, error, pid, start_delay, io_ops, jobVars,
                   sharedVars, pc, map, fio_abort, start_failed, count>>

EndStart ==
    /\ pc = "start" /\ i \notin Jobs
    /\ pc' = "reap"
    /\ i' = 1
    /\ count' = NoCount
    /\ UNCHANGED <<tdVars, jobVars, sharedVars, todo, nr_started, nr_running, map,
                   fio_abort, start_failed>>

-----------------------------------------------------------------------------
\* Mutant: a job that was reaped is reaped again.
ReapableAgain(j) ==
    /\ pid[j]
    /\ IF o[j].use_thread THEN runstate[j] \in {TD_EXITED, TD_REAPED}
       ELSE proc[j] \in {"signalled", "exit_ok", "exit_error"}

\* What reap_threads finds of job j: waitpid is asked about a process, and it
\* waits for one that is TD_EXITED.
Reapable(j) ==
    /\ pid[j]
    /\ runstate[j] # TD_REAPED
    /\ IF o[j].use_thread THEN runstate[j] = TD_EXITED
       ELSE proc[j] \in {"signalled", "exit_ok", "exit_error"}

StillPending(j) ==
    \/ ~pid[j]
    \/ ~o[j].use_thread /\ proc[j] = "alive" /\ runstate[j] < TD_EXITED

Counted(j) ==
    LET cpuio == io_ops[j] /\ o[j].engine = "cpuio"
    IN [cputhreads  |-> count.cputhreads + IF cpuio THEN 1 ELSE 0,
        realthreads |-> count.realthreads + IF cpuio THEN 0 ELSE 1,
        pending     |-> count.pending + IF StillPending(j) THEN 1 ELSE 0]

JobError(j) == error[j] \/ proc[j] = "exit_error"

\* Mutant: only an error that waitpid is the first to tell of counts.
ExitValueStatus(j) ==
    IF proc[j] = "exit_error" /\ ~error[j] THEN exit_value + 1 ELSE exit_value

ExitValue(j) == IF JobError(j) THEN exit_value + 1 ELSE exit_value

ReapJob ==
    /\ pc = "reap" /\ i \in Jobs
    /\ Reapable(i)
    /\ runstate' = [runstate EXCEPT ![i] = TD_REAPED]
    /\ error' = [error EXCEPT ![i] = JobError(i)]
    /\ proc' = [proc EXCEPT ![i] = "none"]
    /\ nr_running' = Dec(nr_running)
    /\ exit_value' = ExitValue(i)
    /\ count' = Counted(i)
    /\ i' = i + 1
    /\ UNCHANGED <<o, terminate, pid, start_delay, io_ops, mutex, jpc,
                   startup_mutex, startup_locked, sigterm, pc, todo, nr_started,
                   map, fio_abort, start_failed>>

LeaveJob ==
    /\ pc = "reap" /\ i \in Jobs
    /\ \/ StillPending(i)
       \/ runstate[i] = TD_REAPED
       \/ o[i].use_thread /\ runstate[i] # TD_EXITED
    /\ count' = Counted(i)
    /\ i' = i + 1
    /\ UNCHANGED <<tdVars, jobVars, sharedVars, pc, todo, nr_started, nr_running,
                   map, fio_abort, start_failed>>

OnlyCpuioLeft ==
    nr_running = count.cputhreads /\ count.pending = 0 /\ count.realthreads # 0

\* The creating loop goes on while there is something to do, then a loop waits
\* for nr_running to become 0.
AfterReap ==
    IF todo # 0 /\ ~start_failed THEN "create"
    ELSE IF nr_running # 0 THEN "reap" ELSE "done"

\* The end of reap_threads, and of the loop it was called from.
EndReap ==
    /\ pc = "reap" /\ i \notin Jobs
    /\ IF OnlyCpuioLeft
       THEN fio_terminate_threads(TERMINATE_ALL, sigterm)
       ELSE UNCHANGED <<terminate, start_delay, sigterm>>
    /\ pc' = AfterReap
    /\ i' = 1
    /\ count' = NoCount
    /\ UNCHANGED <<o, runstate, error, pid, io_ops, mutex, jobVars, startup_mutex,
                   startup_locked, exit_value, todo, nr_started, nr_running, map,
                   fio_abort, start_failed>>

-----------------------------------------------------------------------------
\* thread_main, the part of one job.
JobGoesTo(j, from, to) == jpc[j] = from /\ jpc' = [jpc EXCEPT ![j] = to]

JobStart(j) ==
    /\ JobGoesTo(j, "start", "init")
    /\ pid' = [pid EXCEPT ![j] = TRUE]
    /\ UNCHANGED <<o, runstate, terminate, error, start_delay, io_ops, mutex, proc,
                   sharedVars, mainVars>>

JobInit(j) ==
    /\ JobGoesTo(j, "init", "post")
    /\ runstate' = [runstate EXCEPT ![j] = TD_INITIALIZED]
    /\ UNCHANGED <<o, terminate, error, pid, start_delay, io_ops, mutex, proc,
                   sharedVars, mainVars>>

\* fio_mutex_up(startup_mutex)
JobPost(j) ==
    /\ JobGoesTo(j, "post", "sem")
    /\ ~startup_locked
    /\ startup_mutex' = startup_mutex + 1
    /\ UNCHANGED <<tdVars, proc, startup_locked, sigterm, exit_value, mainVars>>

\* fio_mutex_down(td->mutex)
JobGo(j) ==
    /\ JobGoesTo(j, "sem", "setup")
    /\ mutex[j] # 0
    /\ mutex' = [mutex EXCEPT ![j] = @ - 1]
    /\ UNCHANGED <<o, runstate, terminate, error, pid, start_delay, io_ops, proc,
                   sharedVars, mainVars>>

\* Everything between the two waits and the work; a failure goes to err, with
\* or without td->error.
JobSetup(j) ==
    /\ \/ JobGoesTo(j, "setup", "run") /\ UNCHANGED error
       \/ /\ MayFail
          /\ JobGoesTo(j, "setup", "exit")
          /\ \E e \in BOOLEAN : error' = [error EXCEPT ![j] = e]
    /\ UNCHANGED <<o, runstate, terminate, pid, start_delay, io_ops, mutex, proc,
                   sharedVars, mainVars>>

\* Mutant: the runstate is also set after the job has exited.
JobWorkLate(j) ==
    /\ jpc[j] \in {"setup", "run", "done"}
    /\ \E s \in BusyStates \ {runstate[j]} :
          runstate' = [runstate EXCEPT ![j] = s]
    /\ UNCHANGED <<o, terminate, error, pid, start_delay, io_ops, mutex, jobVars,
                   sharedVars, mainVars>>

\* pre_read_files, do_io and do_verify move between the working runstates.
JobWork(j) ==
    /\ jpc[j] \in {"setup", "run"}
    /\ \E s \in BusyStates \ {runstate[j]} :
          runstate' = [runstate EXCEPT ![j] = s]
    /\ UNCHANGED <<o, terminate, error, pid, start_delay, io_ops, mutex, jobVars,
                   sharedVars, mainVars>>

\* The work ends: it is done (cpuio never is) or the job was told to terminate.
JobDone(j) ==
    /\ JobGoesTo(j, "run", "exitall")
    /\ o[j].engine # "cpuio" \/ terminate[j]
    /\ UNCHANGED <<tdVars, proc, sharedVars, mainVars>>

\* The work ends with an error.
JobFails(j) ==
    /\ MayFail
    /\ JobGoesTo(j, "run", "exitall")
    /\ error' = [error EXCEPT ![j] = TRUE]
    /\ UNCHANGED <<o, runstate, terminate, pid, start_delay, io_ops, mutex, proc,
                   sharedVars, mainVars>>

JobExitall(j) ==
    /\ JobGoesTo(j, "exitall", "exit")
    /\ IF exitall THEN fio_terminate_threads(td_groupid(j), sigterm)
       ELSE UNCHANGED <<terminate, start_delay, sigterm>>
    /\ UNCHANGED <<o, runstate, error, pid, io_ops, mutex, proc, startup_mutex,
                   startup_locked, exit_value, mainVars>>

\* close_ioengine, and the rest of the cleanup
JobClose(j) ==
    /\ JobGoesTo(j, "exit", "closed")
    /\ io_ops' = [io_ops EXCEPT ![j] = FALSE]
    /\ UNCHANGED <<o, runstate, terminate, error, pid, start_delay, mutex, proc,
                   sharedVars, mainVars>>

JobExited(j) ==
    /\ JobGoesTo(j, "closed", "done")
    /\ runstate' = [runstate EXCEPT ![j] = TD_EXITED]
    /\ UNCHANGED <<o, terminate, error, pid, start_delay, io_ops, mutex, proc,
                   sharedVars, mainVars>>

\* fork_main returns td->error, which becomes the exit status.
ProcessExits(j) ==
    /\ ~o[j].use_thread
    /\ jpc[j] = "done" /\ proc[j] = "alive"
    /\ proc' = [proc EXCEPT ![j] = IF error[j] THEN "exit_error" ELSE "exit_ok"]
    /\ UNCHANGED <<tdVars, jpc, sharedVars, mainVars>>

\* Someone kills a job's process, or it crashes.
Crash(j) ==
    /\ MayCrash
    /\ ~o[j].use_thread
    /\ proc[j] = "alive"
    /\ proc' = [proc EXCEPT ![j] = "signalled"]
    /\ jpc' = [jpc EXCEPT ![j] = "dead"]
    /\ UNCHANGED <<tdVars, sharedVars, mainVars>>

\* The time of start_delay passes.
DelayElapses(j) ==
    /\ start_delay[j]
    /\ start_delay' = [start_delay EXCEPT ![j] = FALSE]
    /\ UNCHANGED <<o, runstate, terminate, error, pid, io_ops, mutex, jobVars,
                   sharedVars, mainVars>>

\* The user hits ctrl-c, once.
Interrupt ==
    /\ MayInterrupt /\ pc # "done"
    /\ Main \notin sigterm /\ exit_value < 128
    /\ sigterm' = sigterm \cup {Main}
    /\ UNCHANGED <<tdVars, jobVars, startup_mutex, startup_locked, exit_value,
                   mainVars>>

-----------------------------------------------------------------------------
Init ==
    /\ o \in Options
    /\ runstate = [j \in Jobs |-> TD_NOT_CREATED]
    /\ terminate = [j \in Jobs |-> FALSE]
    /\ error = [j \in Jobs |-> FALSE]
    /\ pid = [j \in Jobs |-> FALSE]
    /\ start_delay = [j \in Jobs |-> o[j].start_delay]
    /\ io_ops = [j \in Jobs |-> TRUE]
    /\ mutex = [j \in Jobs |-> 0]
    /\ jpc = [j \in Jobs |-> "none"]
    /\ proc = [j \in Jobs |-> "none"]
    /\ startup_mutex = 0 /\ startup_locked = FALSE
    /\ sigterm = {} /\ exit_value = 0
    /\ pc = "setup" /\ i = 1
    /\ todo = NJobs /\ nr_started = 0 /\ nr_running = 0
    /\ map = {} /\ fio_abort = FALSE /\ start_failed = FALSE
    /\ count = NoCount

run_threads ==
    \/ SetupFiles \/ EndSetup
    \/ PassOver \/ NeverStarted \/ EndCreate \/ CreateJob
    \/ StartupDone \/ StartupTimeout
    \/ \E j \in Jobs : PollJob(j)
    \/ AllStarted \/ StartFailed
    \/ PassStart \/ StartJob \/ EndStart
    \/ ReapJob \/ LeaveJob \/ EndReap

thread_main(j) ==
    \/ JobStart(j) \/ JobInit(j) \/ JobPost(j) \/ JobGo(j) \/ JobSetup(j)
    \/ JobDone(j) \/ JobExitall(j) \/ JobClose(j) \/ JobExited(j)
    \/ ProcessExits(j)

Next ==
    \/ run_threads
    \/ \E j \in Jobs : \/ thread_main(j) \/ JobWork(j) \/ JobFails(j)
                       \/ Crash(j) \/ DelayElapses(j)
    \/ \E p \in Jobs \cup {Main} : sig_int(p)
    \/ Interrupt

Spec == Init /\ [][Next]_vars

\* The main thread and the jobs keep running, signals are delivered and time
\* passes; nothing makes the user interrupt or a process crash.
Fairness ==
    /\ WF_vars(run_threads)
    /\ \A j \in Jobs : WF_vars(thread_main(j)) /\ WF_vars(DelayElapses(j))
    /\ \A p \in Jobs \cup {Main} : WF_vars(sig_int(p))

FairSpec == Spec /\ Fairness

-----------------------------------------------------------------------------
TypeOK ==
    /\ o \in Options
    /\ runstate \in [Jobs -> TD_NOT_CREATED .. TD_REAPED]
    /\ terminate \in [Jobs -> BOOLEAN] /\ error \in [Jobs -> BOOLEAN]
    /\ pid \in [Jobs -> BOOLEAN] /\ start_delay \in [Jobs -> BOOLEAN]
    /\ io_ops \in [Jobs -> BOOLEAN]
    /\ mutex \in [Jobs -> Nat]
    /\ jpc \in [Jobs -> {"none", "start", "init", "post", "sem", "setup", "run",
                         "exitall", "exit", "closed", "done", "dead"}]
    /\ proc \in [Jobs -> {"none", "alive", "signalled", "exit_ok", "exit_error"}]
    /\ startup_mutex \in Nat /\ exit_value \in Nat
    /\ startup_locked \in BOOLEAN /\ fio_abort \in BOOLEAN
    /\ start_failed \in BOOLEAN
    /\ sigterm \subseteq Jobs \cup {Main}
    /\ pc \in {"setup", "create", "startup", "wait", "start", "reap", "done"}
    /\ i \in 1 .. NJobs + 1
    /\ todo \in 0 .. UINT_MAX /\ nr_started \in 0 .. UINT_MAX
    /\ nr_running \in 0 .. UINT_MAX
    /\ map \subseteq Jobs
    /\ count \in [cputhreads : Nat, realthreads : Nat, pending : Nat]

Working == {j \in Jobs : runstate[j] \in TD_RAMP .. TD_EXITED}
Starting == {j \in Jobs : runstate[j] \in {TD_CREATED, TD_INITIALIZED}}
Unstarted == {j \in Jobs : runstate[j] \in {TD_NOT_CREATED, TD_CREATED,
                                            TD_INITIALIZED}}

\* nr_running, which decides when run_threads stops waiting, is the number of
\* jobs started and not reaped: no job is counted out twice, or without having
\* been counted in, whoever terminates or kills it.
NrRunningExact == ~start_failed => nr_running = Cardinality(Working)

\* todo, which decides when run_threads stops creating jobs, is the number of
\* jobs still to start, as long as no job is terminated.
TodoExact ==
    ~start_failed /\ (\A j \in Jobs : ~terminate[j]) =>
        todo = Cardinality(Unstarted)

\* When run_threads is done, every job has been reaped, or was terminated before
\* it was created.
FinishedMeansReaped ==
    pc = "done" /\ ~start_failed =>
        \A j \in Jobs : \/ runstate[j] = TD_REAPED
                        \/ runstate[j] = TD_NOT_CREATED /\ terminate[j]

\* fio's exit status is not 0 when a job it reaped had an error, with signals
\* setting exit_value and reap_threads counting errors in any order.
ErrorsTold ==
    pc = "done" /\ (\E j \in Jobs : error[j] /\ runstate[j] = TD_REAPED) =>
        exit_value # 0

\* When fio ends it has seen the end of every job, and tells of every error.
EndIsTold == FinishedMeansReaped /\ ErrorsTold

\* fio.h, "Thread life cycle": beyond TD_INITIALIZED a runstate never goes back,
\* and a job that is TD_EXITED is only reaped.
LifeCycleStep ==
    \A j \in Jobs :
        /\ runstate[j] > TD_INITIALIZED => runstate'[j] > TD_INITIALIZED
        /\ runstate[j] >= TD_EXITED => runstate'[j] \in {runstate[j], TD_REAPED}

LifeCycle == [][LifeCycleStep]_vars

\* HOWTO, stonewall: "Wait for preceeding jobs in the job file to exit, before
\* starting this one."
StonewallWaits ==
    [][\A j \in Jobs :
          o[j].stonewall /\ runstate[j] = TD_NOT_CREATED
                         /\ runstate'[j] = TD_CREATED =>
              \A k \in 1 .. j - 1 :
                 \/ runstate[k] = TD_REAPED
                 \/ runstate[k] = TD_NOT_CREATED /\ terminate[k]]_vars

\* HOWTO, exitall: "When one job finishes, terminate the rest."
ExitallEndsTheRest ==
    [][\A j \in Jobs :
          exitall /\ jpc[j] = "exitall" /\ jpc'[j] = "exit" =>
              \A k \in Jobs : terminate'[k]]_vars

\* fio comes to its end: when the jobs are done, and "when fio is done (or
\* interrupted by ctrl-c)" (HOWTO).
Finishes == <>(pc = "done")

-----------------------------------------------------------------------------
\* What the counts rest on: where a job is in thread_main tells its runstate ...
JobState(j) ==
    /\ jpc[j] = "none" =>
          /\ runstate[j] \in {TD_NOT_CREATED, TD_CREATED, TD_REAPED}
          /\ proc[j] = "none" /\ ~pid[j]
    /\ jpc[j] \in {"start", "init"} => runstate[j] = TD_CREATED
    /\ jpc[j] \in {"post", "sem"} => runstate[j] \in TD_INITIALIZED .. TD_FSYNCING
    /\ jpc[j] \in {"setup", "run", "exitall", "exit", "closed"} =>
          runstate[j] \in TD_RAMP .. TD_FSYNCING
    /\ jpc[j] = "done" => runstate[j] \in {TD_EXITED, TD_REAPED}
    /\ jpc[j] = "dead" => runstate[j] # TD_NOT_CREATED
    /\ jpc[j] \notin {"none", "done", "dead"} => proc[j] = "alive"
    /\ mutex[j] # 0 => runstate[j] >= TD_RAMP

JobStates == \A j \in Jobs : JobState(j)

\* ... and where run_threads is tells which runstates there are: the jobs that
\* are starting are in the map, and all are started before any is reaped.
MainStates ==
    /\ start_failed => pc \in {"reap", "done"}
    /\ pc = "setup" =>
          /\ map = {}
          /\ \A j \in Jobs : /\ runstate[j] \in {TD_NOT_CREATED, TD_REAPED}
                             /\ j >= i => runstate[j] = TD_NOT_CREATED
    /\ pc = "startup" => i \in Jobs
    /\ pc \in {"create", "startup", "wait"} =>
          \A j \in Jobs : runstate[j] = TD_CREATED => j \in map
    /\ pc \in {"create", "startup", "wait"} =>
          \A j \in map : runstate[j] \in {TD_CREATED, TD_INITIALIZED}
    /\ pc = "start" =>
          /\ map = {}
          /\ \A j \in Jobs : /\ runstate[j] # TD_CREATED
                             /\ j < i => runstate[j] # TD_INITIALIZED
    /\ pc \in {"reap", "done"} /\ ~start_failed => map = {} /\ Starting = {}

IInv == TypeOK /\ JobStates /\ MainStates /\ NrRunningExact /\ TodoExact
=============================================================================
