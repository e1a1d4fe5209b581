----------------------------- MODULE FioRwLock ------------------------------
(***************************************************************************)
(* struct fio_mutex used as a read-write lock (mutex.c): fio_mutex_rw_init,*)
(* fio_mutex_down_read, down_write, up_read and up_write.  value counts the*)
(* readers, or is -1 for a writer.  As in FioMutex a stretch of code       *)
(* between taking and leaving mutex->lock is one step.                     *)
(***************************************************************************)
EXTENDS Integers, FiniteSets

CONSTANT Threads

VARIABLES value,    \* mutex->value
          waiters,  \* mutex->waiters
          asleep,   \* threads blocked on mutex->cond
          pc        \* where each thread is

vars == <<value, waiters, asleep, pc>>

Waiting == {t \in Threads : pc[t] \in {"down_read", "down_write"}}
Readers == {t \in Threads : pc[t] = "read"}
Writers == {t \in Threads : pc[t] = "write"}

fio_mutex_rw_init ==
    /\ value = 0 /\ waiters = 0 /\ asleep = {}
    /\ pc = [t \in Threads |-> "idle"]

CanRead == value >= 0
CanWrite == value = 0

Sleep(t, w, where) ==
    /\ waiters' = w + 1
    /\ asleep' = asleep \cup {t}
    /\ pc' = [pc EXCEPT ![t] = where]
    /\ UNCHANGED value

Take(t, w, v, where) ==
    /\ value' = v
    /\ waiters' = w
    /\ pc' = [pc EXCEPT ![t] = where]
    /\ UNCHANGED asleep

\* One turn of the wait loop, w being the number of waiters without t.
TryRead(t, w) ==
    \/ CanRead /\ Take(t, w, value + 1, "read")
    \/ ~CanRead /\ Sleep(t, w, "down_read")

TryWrite(t, w) ==
    \/ CanWrite /\ Take(t, w, value - 1, "write")
    \/ ~CanWrite /\ Sleep(t, w, "down_write")

fio_mutex_down_read(t) == pc[t] = "idle" /\ TryRead(t, waiters)
fio_mutex_down_write(t) == pc[t] = "idle" /\ TryWrite(t, waiters)

\* cond_wait returns, signalled or not: t tests value again.
WaitReturns(t) ==
    /\ t \notin asleep
    /\ \/ pc[t] = "down_read" /\ TryRead(t, waiters - 1)
       \/ pc[t] = "down_write" /\ TryWrite(t, waiters - 1)

SpuriousWakeup(t) ==
    /\ t \in asleep
    /\ asleep' = asleep \ {t}
    /\ UNCHANGED <<value, waiters, pc>>

\* Mutant: only the last unlock of a writer signals.
SignalAfterWriter(v) ==
    IF v > 0 /\ waiters # 0
    THEN \/ asleep = {} /\ UNCHANGED asleep
         \/ \E t \in asleep : asleep' = asleep \ {t}
    ELSE UNCHANGED asleep

\* pthread_cond_signal after an unlock that leaves v: at most one thread.
SignalIf(v) ==
    IF v >= 0 /\ waiters # 0
    THEN \/ asleep = {} /\ UNCHANGED asleep
         \/ \E t \in asleep : asleep' = asleep \ {t}
    ELSE UNCHANGED asleep

\* Mutant: a reader that leaves signals nobody.
UpReadSilent(t) ==
    /\ pc[t] = "read"
    /\ value' = value - 1
    /\ pc' = [pc EXCEPT ![t] = "idle"]
    /\ UNCHANGED <<waiters, asleep>>

fio_mutex_up_read(t) ==
    /\ pc[t] = "read"
    /\ value' = value - 1
    /\ SignalIf(value - 1)
    /\ pc' = [pc EXCEPT ![t] = "idle"]
    /\ UNCHANGED waiters

fio_mutex_up_write(t) ==
    /\ pc[t] = "write"
    /\ value' = value + 1
    /\ SignalIf(value + 1)
    /\ pc' = [pc EXCEPT ![t] = "idle"]
    /\ UNCHANGED waiters

Next ==
    \E t \in Threads :
        \/ fio_mutex_down_read(t) \/ fio_mutex_down_write(t)
        \/ WaitReturns(t) \/ SpuriousWakeup(t)
        \/ fio_mutex_up_read(t) \/ fio_mutex_up_write(t)

Spec == fio_mutex_rw_init /\ [][Next]_vars

-----------------------------------------------------------------------------
(* Properties *)

TypeOK ==
    /\ value \in Int /\ waiters \in Int
    /\ pc \in [Threads -> {"idle", "down_read", "down_write", "read", "write"}]
    /\ asleep \subseteq Waiting

\* The count of mutex.c tells who has the lock, and the number of waiters who
\* waits for it.
Counted ==
    /\ value = IF Writers = {} THEN Cardinality(Readers) ELSE -1
    /\ waiters = Cardinality(Waiting)

\* Readers keep writers out, and a writer everyone.
RwExclusion ==
    \A t, u \in Threads :
        t # u /\ t \in Writers => u \notin Writers \cup Readers

\* A thread sleeps only while another one holds the lock, and will signal when it
\* unlocks, or is awake to take it: the one signal of an unlock does not leave
\* sleepers alone.  (It does leave a reader asleep beside another reader, when a
\* writer unlocks with several readers waiting.)
RwNoLostWakeup == asleep # {} => Readers \cup Writers \cup (Waiting \ asleep) # {}
=============================================================================
