---------------------------- MODULE MCFioMutex ----------------------------
(* Three fio_mutexes: one used as a lock, one that jobs post and           *)
(* run_threads waits for, and a read-write lock.  They share nothing; one  *)
(* of them, chosen at the start, is used.                                  *)
EXTENDS FioMutex

CONSTANTS l1, l2, l3, p1, p2, p3, w     \* threads

VARIABLES used,                                         \* the one in use
          post_value, post_waiters, post_lock, post_asleep, post_pc,
          rw_value, rw_waiters, rw_asleep, rw_pc

post_vars == <<post_value, post_waiters, post_lock, post_asleep, post_pc>>
rw_vars == <<rw_value, rw_waiters, rw_asleep, rw_pc>>

Post == INSTANCE FioMutex
    WITH Lockers <- {}, Posters <- {p1, p2, p3}, Waiters <- {w}, InitValue <- 0,
         EarlyTimeouts <- TRUE, value <- post_value, waiters <- post_waiters,
         lock <- post_lock, asleep <- post_asleep, pc <- post_pc

Rw == INSTANCE FioRwLock
    WITH Threads <- {l1, l2, l3}, value <- rw_value, waiters <- rw_waiters,
         asleep <- rw_asleep, pc <- rw_pc

AllInit ==
    /\ used \in {"lock", "post", "rw"}
    /\ fio_mutex_init
    /\ Post!fio_mutex_init
    /\ Rw!fio_mutex_rw_init

AllNext ==
    \/ used = "lock" /\ Next /\ UNCHANGED <<used, post_vars, rw_vars>>
    \/ used = "post" /\ Post!Next /\ UNCHANGED <<used, vars, rw_vars>>
    \/ used = "rw" /\ Rw!Next /\ UNCHANGED <<used, vars, post_vars>>

\* The fairness of FioMutex for the threads of the mutex that is posted.
PostFairness ==
    /\ \A t \in {p1, p2, p3, w} :
         /\ WF_post_vars(used = "post" /\ Post!WaitReturns(t))
         /\ WF_post_vars(used = "post" /\ Post!TimedOut(t))
         /\ WF_post_vars(used = "post" /\ Post!fio_mutex_up(t))
    /\ WF_post_vars(used = "post" /\ (Post!NextWait(w) \/ Post!fio_mutex_down(w)))

\* A thread that was woken goes on, and one that has the read-write lock unlocks.
RwFairness ==
    \A t \in {l1, l2, l3} :
        /\ WF_rw_vars(used = "rw" /\ Rw!WaitReturns(t))
        /\ WF_rw_vars(used = "rw" /\ (Rw!fio_mutex_up_read(t) \/ Rw!fio_mutex_up_write(t)))

AllSpec == /\ AllInit /\ [][AllNext]_<<used, vars, post_vars, rw_vars>>
           /\ PostFairness /\ RwFairness

-----------------------------------------------------------------------------
\* A job that posted startup_mutex is noticed: as long as the waiting thread
\* has not given up, every post is eventually taken.
PostsAreTaken == Post!PostsTaken

\* Readers keep writers out, and a writer everyone; value and waiters tell who has
\* the lock and who waits; and a thread sleeps only while another one holds the
\* lock or is awake to take it (fio_mutex_down_read, fio_mutex_down_write and
\* their ups).
RwSound == Rw!RwExclusion /\ Rw!Counted /\ Rw!RwNoLostWakeup

RwCall == \E t \in {l1, l2, l3} : Rw!fio_mutex_down_read(t) \/ Rw!fio_mutex_down_write(t)

\* One signal per unlock forgets no waiter: unless threads call down_read and
\* down_write for ever, all who wait get the read-write lock, also readers that
\* fio_mutex_up_write left asleep beside the one it woke.
RwServed == []<><<RwCall>>_rw_vars \/ <>[](Rw!Waiting = {})
=============================================================================
