------------------------------ MODULE FioMutex ------------------------------
(***************************************************************************)
(* struct fio_mutex used as a semaphore (mutex.c): fio_mutex_down,         *)
(* fio_mutex_down_timeout and fio_mutex_up over a pthread mutex "lock", a  *)
(* condition variable "cond", a count "value" and a count "waiters".       *)
(*                                                                         *)
(* Three kinds of thread use one fio_mutex in the source:                  *)
(*   Lockers  down it, work and up it (writeout_mutex, hash_lock,          *)
(*            flow_lock, pool->lock; initial value 1);                     *)
(*   Posters  up it once (a job reporting to startup_mutex);               *)
(*   Waiters  down_timeout it, again and again (run_threads).              *)
(*                                                                         *)
(* A stretch of code between taking and leaving "lock" is one step, taken  *)
(* when no thread holds "lock"; a condition wait ends the stretch.  "lock" *)
(* is a variable because two paths of fio_mutex_down_timeout leave it held.*)
(***************************************************************************)
EXTENDS Integers, FiniteSets

CONSTANTS Lockers, Posters, Waiters,  \* threads, by the way they use the mutex
          InitValue,                  \* the argument of fio_mutex_init
          NoThread,
          EarlyTimeouts               \* may cond_timedwait return too early?

Threads == Lockers \cup Posters \cup Waiters

ASSUME FioMutexAssumption ==
    /\ IsFiniteSet(Lockers) /\ IsFiniteSet(Posters) /\ IsFiniteSet(Waiters)
    /\ Lockers \cap Posters = {} /\ Lockers \cap Waiters = {}
    /\ Posters \cap Waiters = {}
    /\ NoThread \notin Threads
    /\ InitValue \in Nat
    /\ EarlyTimeouts \in BOOLEAN

\* The two ways a fio_mutex is used in the source: as a lock, or to tell one
\* waiting thread of an event.
ASSUME UsageAssumption ==
    \/ InitValue = 1 /\ Posters = {} /\ Waiters = {}
    \/ InitValue = 0 /\ Lockers = {} /\ \A s, t \in Waiters : s = t

VARIABLES value,    \* mutex->value
          waiters,  \* mutex->waiters
          lock,     \* the thread that keeps mutex->lock between steps
          asleep,   \* threads blocked on mutex->cond
          pc        \* where each thread is

vars == <<value, waiters, lock, asleep, pc>>

fio_mutex_init ==
    /\ value = InitValue
    /\ waiters = 0
    /\ lock = NoThread
    /\ asleep = {}
    /\ pc = [t \in Threads |-> "idle"]

-----------------------------------------------------------------------------

\* Mutant: value is not tested.
TakeUntested(t, w) ==
    /\ value' = value - 1
    /\ waiters' = w
    /\ asleep' = asleep
    /\ pc' = [pc EXCEPT ![t] = "held"]

\* The wait loop: take a unit of value, or go to sleep on cond.  w is the
\* number of waiters without t.
TakeOrSleep(t, w) ==
    \/ /\ value # 0
       /\ value' = value - 1
       /\ waiters' = w
       /\ asleep' = asleep
       /\ pc' = [pc EXCEPT ![t] = "held"]
    \/ /\ value = 0
       /\ waiters' = w + 1
       /\ asleep' = asleep \cup {t}
       /\ pc' = [pc EXCEPT ![t] = "waiting"]
       /\ UNCHANGED value

fio_mutex_down(t) ==
    /\ pc[t] = "idle"
    /\ lock = NoThread
    /\ TakeOrSleep(t, waiters)
    /\ UNCHANGED lock

\* cond_wait or cond_timedwait has returned 0: t has the lock again, leaves
\* the waiters and tests value.
WaitReturns(t) ==
    /\ pc[t] = "waiting"
    /\ t \notin asleep
    /\ lock = NoThread
    /\ TakeOrSleep(t, waiters - 1)
    /\ UNCHANGED lock

\* POSIX lets a condition wait return without a signal.
SpuriousWakeup(t) ==
    /\ t \in asleep
    /\ asleep' = asleep \ {t}
    /\ UNCHANGED <<value, waiters, lock, pc>>

\* cond_timedwait gives up; t still has to take the lock back.
TimerExpires(t) ==
    /\ t \in asleep \cap Waiters
    /\ asleep' = asleep \ {t}
    /\ pc' = [pc EXCEPT ![t] = "expired"]
    /\ UNCHANGED <<value, waiters, lock>>

\* ETIMEDOUT and the time is really up: the loop ends whatever value is, and
\* the function returns without unlocking.
TimedOut(t) ==
    /\ pc[t] = "expired"
    /\ lock = NoThread
    /\ lock' = t
    /\ waiters' = waiters - 1
    /\ pc' = [pc EXCEPT ![t] = "failed"]
    /\ UNCHANGED <<value, asleep>>

\* ETIMEDOUT before the time is up: the function locks "lock", which
\* cond_timedwait has already taken for it.
TimedOutEarly(t) ==
    /\ EarlyTimeouts
    /\ pc[t] = "expired"
    /\ lock = NoThread
    /\ lock' = t
    /\ pc' = [pc EXCEPT ![t] = "relock"]
    /\ UNCHANGED <<value, waiters, asleep>>

cond_signal ==
    \/ asleep = {} /\ UNCHANGED asleep
    \/ \E t \in asleep : asleep' = asleep \ {t}

\* Mutant: value is incremented before it is tested, so nobody is signalled.
UpTestsAfter(t) ==
    /\ \/ t \in Lockers /\ pc[t] = "held" /\ pc' = [pc EXCEPT ![t] = "idle"]
       \/ t \in Posters /\ pc[t] = "idle" /\ pc' = [pc EXCEPT ![t] = "posted"]
    /\ lock = NoThread
    /\ IF value + 1 = 0 /\ waiters # 0 THEN cond_signal ELSE UNCHANGED asleep
    /\ value' = value + 1
    /\ UNCHANGED <<waiters, lock>>

\* A locker gives back what it took; a poster posts once.
fio_mutex_up(t) ==
    /\ \/ t \in Lockers /\ pc[t] = "held" /\ pc' = [pc EXCEPT ![t] = "idle"]
       \/ t \in Posters /\ pc[t] = "idle" /\ pc' = [pc EXCEPT ![t] = "posted"]
    /\ lock = NoThread
    /\ IF value = 0 /\ waiters # 0 THEN cond_signal ELSE UNCHANGED asleep
    /\ value' = value + 1
    /\ UNCHANGED <<waiters, lock>>

\* run_threads waits for the next job.
NextWait(t) ==
    /\ t \in Waiters
    /\ pc[t] = "held"
    /\ pc' = [pc EXCEPT ![t] = "idle"]
    /\ UNCHANGED <<value, waiters, lock, asleep>>

Step(t) ==
    \/ t \in Lockers \cup Waiters /\ fio_mutex_down(t)
    \/ WaitReturns(t)
    \/ TimedOut(t)
    \/ TimedOutEarly(t)
    \/ fio_mutex_up(t)
    \/ NextWait(t)

Next == \E t \in Threads : Step(t) \/ SpuriousWakeup(t) \/ TimerExpires(t)

Spec == fio_mutex_init /\ [][Next]_vars

\* Threads that are inside a function of mutex.c go on running; nothing is
\* assumed of how often the condition wait returns without a signal, of when
\* the timer expires, or of how soon a caller calls again.
Fairness ==
    /\ \A t \in Threads : WF_vars(WaitReturns(t)) /\ WF_vars(TimedOut(t))
    /\ \A t \in Threads : WF_vars(fio_mutex_up(t))
    /\ \A t \in Waiters : WF_vars(NextWait(t) \/ fio_mutex_down(t))

FairSpec == Spec /\ Fairness

-----------------------------------------------------------------------------

Held == {t \in Lockers : pc[t] = "held"}
Blocked == {t \in Threads : pc[t] \in {"waiting", "expired", "relock"}}

TypeOK ==
    /\ value \in Nat
    /\ waiters \in Nat
    /\ lock \in Threads \cup {NoThread}
    /\ asleep \subseteq Threads
    /\ pc \in [Threads -> {"idle", "waiting", "expired", "relock", "held",
                          "posted", "failed"}]

\* Between two calls of a fio_mutex used as a lock (writeout_mutex, hash_lock,
\* flow_lock, pool->lock) at most one thread is past fio_mutex_down.
MutualExclusion == \A s, t \in Lockers : s \in Held /\ t \in Held => s = t

\* fio_mutex_up signals only when value is 0 and waiters is not: no thread is
\* left asleep on cond with value free to take, unless a thread that was woken
\* for it is about to look.
NoLostWakeup ==
    value # 0 /\ asleep # {} =>
        \E t \in Threads \ asleep : pc[t] = "waiting"

\* mutex->waiters counts the threads inside a wait: fio_mutex_up relies on it
\* to skip the signal.
WaitersCounted == waiters = Cardinality(Blocked)

\* What the steps preserve: who may be asleep, that as a lock the value and the
\* thread that holds it account for the one unit, and the properties above.
LockState ==
    InitValue = 1 => \/ value = 1 /\ Held = {}
                     \/ value = 0 /\ \E h \in Lockers : Held = {h}

SleepersWait == \A t \in asleep : t \notin Posters /\ pc[t] = "waiting"

OnlyWaitersTime ==
    \A t \in Threads : pc[t] \in {"expired", "relock"} => t \in Waiters

PostersOnlyPost == \A t \in Posters : pc[t] \in {"idle", "posted"}

IInv ==
    /\ TypeOK
    /\ LockState
    /\ SleepersWait
    /\ OnlyWaitersTime
    /\ PostersOnlyPost
    /\ WaitersCounted
    /\ NoLostWakeup

\* A job that posted startup_mutex is noticed: as long as the waiting thread
\* has not given up, every post is eventually taken.
PostsTaken ==
    (\A p \in Posters : pc[p] = "posted") ~>
        (value = 0 \/ \E t \in Waiters : pc[t] \in {"failed", "relock"})
=============================================================================
