-------------------------- MODULE FioRwLockProofs ---------------------------
(***************************************************************************)
(* FioRwLock for any finite number of threads: exclusion, and no forgotten *)
(* waiter.                                                                 *)
(***************************************************************************)
EXTENDS FioRwLock, FiniteSetTheorems, TLAPS

\* A free lock with threads asleep on it has been signalled.
FreeIsSignalled == value = 0 /\ asleep # {} => Waiting \ asleep # {}

\* The inductive invariant: value and waiters count the threads, and there is
\* a writer only without any other holder.
IInv == TypeOK /\ Counted /\ RwExclusion /\ FreeIsSignalled

\* Sets of threads are finite, and a set that gains or loses one thread gains
\* or loses one in number.
LEMMA ThreadSets ==
    ASSUME IsFiniteSet(Threads), NEW S \in SUBSET Threads, NEW t \in Threads
    PROVE  /\ IsFiniteSet(S) /\ Cardinality(S) \in Nat
           /\ t \notin S => Cardinality(S \cup {t}) = Cardinality(S) + 1
           /\ t \in S => Cardinality(S \ {t}) = Cardinality(S) - 1
           /\ Cardinality(S) = 0 <=> S = {}
<1>1. IsFiniteSet(S)
  BY FS_Subset
<1>2. Cardinality(S) \in Nat
  BY <1>1, FS_CardinalityType
<1>3. t \notin S => Cardinality(S \cup {t}) = Cardinality(S) + 1
  BY <1>1, FS_AddElement
<1>4. t \in S => Cardinality(S \ {t}) = Cardinality(S) - 1
  BY <1>1, FS_RemoveElement
<1>5. Cardinality(S) = 0 <=> S = {}
  BY <1>1, FS_EmptySet
<1> QED
  BY <1>1, <1>2, <1>3, <1>4, <1>5

\* How the sets of holders and waiters change with one thread's pc.
LEMMA SetsMove ==
    ASSUME TypeOK, NEW t \in Threads,
           NEW p \in {"idle", "down_read", "down_write", "read", "write"},
           pc' = [pc EXCEPT ![t] = p]
    PROVE  /\ Waiting' = IF p \in {"down_read", "down_write"} THEN Waiting \cup {t}
                         ELSE Waiting \ {t}
           /\ Readers' = IF p = "read" THEN Readers \cup {t} ELSE Readers \ {t}
           /\ Writers' = IF p = "write" THEN Writers \cup {t} ELSE Writers \ {t}
           /\ pc' \in [Threads -> {"idle", "down_read", "down_write", "read", "write"}]
  BY DEF TypeOK, Waiting, Readers, Writers

\* In a lock whose value is not negative nobody writes; with value 0 nobody
\* reads either; a reader makes value positive.
LEMMA ValueTells ==
    ASSUME IsFiniteSet(Threads), IInv
    PROVE  /\ value >= 0 => Writers = {} /\ value = Cardinality(Readers)
           /\ value = 0 => Readers = {}
           /\ value < 0 => Writers # {} /\ value = -1
           /\ \A t \in Readers : Writers = {} /\ value > 0
           /\ \A t \in Writers : Writers = {t} /\ Readers = {} /\ value = -1
<1>1. /\ IsFiniteSet(Readers) /\ Cardinality(Readers) \in Nat
      /\ Cardinality(Readers) = 0 <=> Readers = {}
  BY FS_Subset, FS_CardinalityType, FS_EmptySet DEF Readers
<1>2. \A t \in Readers : Writers = {}
  BY DEF IInv, RwExclusion, Readers, Writers
<1>3. \A t \in Writers : Writers = {t} /\ Readers = {}
  BY DEF IInv, RwExclusion, Readers, Writers
<1> QED
  BY <1>1, <1>2, <1>3 DEF IInv, Counted

LEMMA RwInit == ASSUME IsFiniteSet(Threads), fio_mutex_rw_init PROVE IInv
<1>1. Waiting = {} /\ Readers = {} /\ Writers = {}
  BY DEF fio_mutex_rw_init, Waiting, Readers, Writers
<1>2. Cardinality({}) = 0
  BY FS_EmptySet
<1>3. TypeOK
  BY DEF fio_mutex_rw_init, TypeOK
<1> QED
  BY <1>1, <1>2, <1>3
  DEF fio_mutex_rw_init, IInv, Counted, RwExclusion, FreeIsSignalled

\* Going to sleep: the lock is not free for this thread, so it is not free.
LEMMA SleepStep ==
    ASSUME IsFiniteSet(Threads), IInv, NEW t \in Threads, NEW w \in Int,
           NEW p \in {"down_read", "down_write"}, Sleep(t, w, p),
           t \notin Readers, t \notin Writers,
           w = Cardinality(Waiting \ {t}), value # 0
    PROVE  IInv'
<1>1. /\ Waiting' = Waiting \cup {t} /\ Readers' = Readers /\ Writers' = Writers
      /\ pc' \in [Threads -> {"idle", "down_read", "down_write", "read", "write"}]
  <2>1. TypeOK /\ pc' = [pc EXCEPT ![t] = p]
    BY DEF Sleep, IInv
  <2>2. Readers \ {t} = Readers /\ Writers \ {t} = Writers
    OBVIOUS
  <2>3. CASE p = "down_read"
    BY <2>1, <2>2, <2>3, SetsMove
  <2>4. CASE p = "down_write"
    BY <2>1, <2>2, <2>4, SetsMove
  <2> QED
    BY <2>3, <2>4
<1>2. Cardinality(Waiting \cup {t}) = w + 1
  <2>1. Waiting \ {t} \in SUBSET Threads /\ (Waiting \ {t}) \cup {t} = Waiting \cup {t}
    BY DEF Waiting
  <2> QED
    BY <2>1, ThreadSets
<1>3. TypeOK'
  BY <1>1 DEF IInv, TypeOK, Sleep
<1> QED
  BY <1>1, <1>2, <1>3 DEF IInv, Counted, RwExclusion, FreeIsSignalled, Sleep

\* Taking the lock leaves it taken.
LEMMA TakeStep ==
    ASSUME IsFiniteSet(Threads), IInv, NEW t \in Threads, NEW w \in Int,
           t \notin Readers, t \notin Writers, t \notin asleep,
           w = Cardinality(Waiting \ {t}),
           \/ value >= 0 /\ Take(t, w, value + 1, "read")
           \/ value = 0 /\ Take(t, w, value - 1, "write")
    PROVE  IInv'
<1>1. Readers \in SUBSET Threads
  BY DEF Readers
<1>2. CASE value >= 0 /\ Take(t, w, value + 1, "read")
  <2>1. /\ Waiting' = Waiting \ {t} /\ Readers' = Readers \cup {t} /\ Writers' = Writers
        /\ pc' \in [Threads -> {"idle", "down_read", "down_write", "read", "write"}]
    <3>1. TypeOK /\ pc' = [pc EXCEPT ![t] = "read"]
      BY <1>2 DEF Take, IInv
    <3>2. Writers \ {t} = Writers
      OBVIOUS
    <3> QED
      BY <3>1, <3>2, SetsMove
  <2>2. Writers = {} /\ value = Cardinality(Readers)
    BY <1>2, ValueTells
  <2>3. Cardinality(Readers \cup {t}) = value + 1
    BY <1>1, <2>2, ThreadSets
  <2>4. TypeOK'
    BY <1>2, <2>1 DEF IInv, TypeOK, Take
  <2>5. value' # 0
    BY <1>2 DEF Take, IInv, TypeOK
  <2> QED
    BY <1>2, <2>1, <2>2, <2>3, <2>4, <2>5
    DEF IInv, Counted, RwExclusion, FreeIsSignalled, Take
<1>3. CASE value = 0 /\ Take(t, w, value - 1, "write")
  <2>1. /\ Waiting' = Waiting \ {t} /\ Readers' = Readers /\ Writers' = Writers \cup {t}
        /\ pc' \in [Threads -> {"idle", "down_read", "down_write", "read", "write"}]
    <3>1. TypeOK /\ pc' = [pc EXCEPT ![t] = "write"]
      BY <1>3 DEF Take, IInv
    <3>2. Readers \ {t} = Readers
      OBVIOUS
    <3> QED
      BY <3>1, <3>2, SetsMove
  <2>2. Writers = {} /\ Readers = {}
    BY <1>3, ValueTells
  <2>3. TypeOK'
    BY <1>3, <2>1 DEF IInv, TypeOK, Take
  <2> QED
    BY <1>3, <2>1, <2>2, <2>3
    DEF IInv, Counted, RwExclusion, FreeIsSignalled, Take
<1> QED
  BY <1>2, <1>3

\* Unlocking to 0 signals a sleeper if there is one, and whoever is no longer
\* asleep is still waiting.
LEMMA UpStep ==
    ASSUME IsFiniteSet(Threads), IInv, NEW t \in Threads, NEW v \in Int,
           value' = v, SignalIf(v), pc' = [pc EXCEPT ![t] = "idle"],
           UNCHANGED waiters,
           \/ t \in Readers /\ v = value - 1
           \/ t \in Writers /\ v = value + 1
    PROVE  IInv'
<1>1. /\ Waiting' = Waiting \ {t} /\ Readers' = Readers \ {t}
      /\ Writers' = Writers \ {t}
      /\ pc' \in [Threads -> {"idle", "down_read", "down_write", "read", "write"}]
  BY SetsMove DEF IInv
<1>2. Waiting' = Waiting
  BY <1>1 DEF Waiting, Readers, Writers
<1>3. Readers \in SUBSET Threads /\ Waiting \in SUBSET Threads
  BY DEF Readers, Waiting
<1>4. v = IF Writers' = {} THEN Cardinality(Readers') ELSE -1
  <2>1. CASE t \in Readers /\ v = value - 1
    <3>1. Writers = {} /\ value > 0 /\ value = Cardinality(Readers)
      BY <2>1, ValueTells DEF IInv, TypeOK
    <3>2. Cardinality(Readers \ {t}) = value - 1
      BY <1>3, <2>1, <3>1, ThreadSets
    <3> QED
      BY <1>1, <2>1, <3>1, <3>2
  <2>2. CASE t \in Writers /\ v = value + 1
    <3>1. Writers = {t} /\ Readers = {} /\ value = -1
      BY <2>2, ValueTells
    <3>2. Cardinality({}) = 0
      BY FS_EmptySet
    <3> QED
      BY <1>1, <2>2, <3>1, <3>2
  <2> QED
    BY <2>1, <2>2
<1>5. asleep' \in SUBSET asleep
  BY DEF SignalIf
<1>6. TypeOK'
  BY <1>1, <1>2, <1>5 DEF IInv, TypeOK
<1>7. RwExclusion'
  BY <1>1 DEF IInv, RwExclusion
<1>8. Counted'
  BY <1>2, <1>4 DEF IInv, Counted
<1>9. FreeIsSignalled'
  <2> SUFFICES ASSUME v = 0, asleep' # {} PROVE Waiting' \ asleep' # {}
    BY DEF FreeIsSignalled
  <2>1. Waiting # {} /\ waiters # 0
    BY <1>3, <1>5, ThreadSets DEF IInv, TypeOK, Counted
  <2>2. PICK u \in asleep : asleep' = asleep \ {u}
    BY <1>5, <2>1 DEF SignalIf
  <2> QED
    BY <1>2, <2>2 DEF IInv, TypeOK
<1> QED
  BY <1>6, <1>7, <1>8, <1>9 DEF IInv

\* Every step of every thread preserves the invariant.
LEMMA RwStep == ASSUME IsFiniteSet(Threads), IInv, [Next]_vars PROVE IInv'
<1>1. Waiting \in SUBSET Threads
  BY DEF Waiting
<1>2. waiters = Cardinality(Waiting) /\ waiters \in Int /\ value \in Int
      /\ asleep \subseteq Waiting
  BY DEF IInv, Counted, TypeOK
<1>3. ASSUME NEW t \in Threads, fio_mutex_down_read(t) \/ fio_mutex_down_write(t)
      PROVE  IInv'
  <2>1. t \notin Waiting /\ t \notin Readers /\ t \notin Writers
    BY <1>3 DEF fio_mutex_down_read, fio_mutex_down_write, Waiting, Readers, Writers
  <2>2. Waiting \ {t} = Waiting
    BY <2>1
  <2>3. CASE Sleep(t, waiters, "down_read") \/ Sleep(t, waiters, "down_write")
    <3>1. value # 0
      BY <1>2, <1>3, <2>3
      DEF fio_mutex_down_read, fio_mutex_down_write, TryRead, TryWrite, CanRead,
          CanWrite, Sleep, Take
    <3> QED
      BY <1>2, <2>1, <2>2, <2>3, <3>1, SleepStep
  <2>4. CASE \/ value >= 0 /\ Take(t, waiters, value + 1, "read")
             \/ value = 0 /\ Take(t, waiters, value - 1, "write")
    BY <1>2, <2>1, <2>2, <2>4, TakeStep
  <2> QED
    BY <1>3, <2>3, <2>4
    DEF fio_mutex_down_read, fio_mutex_down_write, TryRead, TryWrite, CanRead, CanWrite
<1>4. ASSUME NEW t \in Threads, WaitReturns(t)
      PROVE  IInv'
  <2>1. t \in Waiting /\ t \notin Readers /\ t \notin Writers /\ t \notin asleep
    BY <1>4 DEF WaitReturns, Waiting, Readers, Writers
  <2>2. Cardinality(Waiting \ {t}) = waiters - 1 /\ waiters - 1 \in Int
    BY <1>1, <1>2, <2>1, ThreadSets
  <2>3. CASE Sleep(t, waiters - 1, "down_read") \/ Sleep(t, waiters - 1, "down_write")
    <3>1. value # 0
      BY <1>2, <1>4, <2>3
      DEF WaitReturns, TryRead, TryWrite, CanRead, CanWrite, Sleep, Take
    <3> QED
      BY <2>1, <2>2, <2>3, <3>1, SleepStep
  <2>4. CASE \/ value >= 0 /\ Take(t, waiters - 1, value + 1, "read")
             \/ value = 0 /\ Take(t, waiters - 1, value - 1, "write")
    BY <2>1, <2>2, <2>4, TakeStep
  <2> QED
    BY <1>4, <2>3, <2>4 DEF WaitReturns, TryRead, TryWrite, CanRead, CanWrite
<1>5. ASSUME NEW t \in Threads, SpuriousWakeup(t)
      PROVE  IInv'
  BY <1>5 DEF SpuriousWakeup, IInv, TypeOK, Counted, RwExclusion, FreeIsSignalled,
     Waiting, Readers, Writers
<1>6. ASSUME NEW t \in Threads, fio_mutex_up_read(t)
      PROVE  IInv'
  <2>1. t \in Readers
    BY <1>6 DEF fio_mutex_up_read, Readers
  <2>2. value - 1 \in Int
    BY <1>2
  <2>3. /\ value' = value - 1 /\ SignalIf(value - 1) /\ UNCHANGED waiters
        /\ pc' = [pc EXCEPT ![t] = "idle"]
    BY <1>6 DEF fio_mutex_up_read
  <2> QED
    BY <2>1, <2>2, <2>3, UpStep
<1>7. ASSUME NEW t \in Threads, fio_mutex_up_write(t)
      PROVE  IInv'
  <2>1. t \in Writers
    BY <1>7 DEF fio_mutex_up_write, Writers
  <2>2. value + 1 \in Int
    BY <1>2
  <2>3. /\ value' = value + 1 /\ SignalIf(value + 1) /\ UNCHANGED waiters
        /\ pc' = [pc EXCEPT ![t] = "idle"]
    BY <1>7 DEF fio_mutex_up_write
  <2> QED
    BY <2>1, <2>2, <2>3, UpStep
<1>8. CASE UNCHANGED vars
  BY <1>8 DEF vars, IInv, TypeOK, Counted, RwExclusion, FreeIsSignalled, Waiting,
     Readers, Writers
<1> QED
  BY <1>3, <1>4, <1>5, <1>6, <1>7, <1>8 DEF Next

\* Among any finite number of threads readers keep writers out and a writer
\* everyone (fio_mutex_down_read, fio_mutex_down_write).
THEOREM RwLockExcludes ==
    ASSUME IsFiniteSet(Threads) PROVE Spec => []RwExclusion
<1>1. fio_mutex_rw_init => IInv
  BY RwInit
<1>2. IInv /\ [Next]_vars => IInv'
  BY RwStep
<1>3. IInv => RwExclusion
  BY DEF IInv
<1> QED
  BY <1>1, <1>2, <1>3, PTL DEF Spec

\* Among any finite number of threads one sleeps only while another holds the
\* lock or is awake to take it: the one signal of fio_mutex_up_read and
\* fio_mutex_up_write leaves no sleepers alone.
THEOREM RwLockWakes ==
    ASSUME IsFiniteSet(Threads) PROVE Spec => []RwNoLostWakeup
<1>1. fio_mutex_rw_init => IInv
  BY RwInit
<1>2. IInv /\ [Next]_vars => IInv'
  BY RwStep
<1>3. IInv => RwNoLostWakeup
  <2> SUFFICES ASSUME IInv, asleep # {} PROVE Readers \cup Writers \cup (Waiting \ asleep) # {}
    BY DEF RwNoLostWakeup
  <2>1. CASE value = 0
    BY <2>1 DEF IInv, FreeIsSignalled
  <2>2. CASE value # 0
    <3>1. Cardinality({}) = 0 /\ value \in Int
      BY FS_EmptySet DEF IInv, TypeOK
    <3>2. Readers # {} \/ Writers # {}
      BY <2>2, <3>1, ValueTells
    <3> QED
      BY <3>2
  <2> QED
    BY <2>1, <2>2
<1> QED
  BY <1>1, <1>2, <1>3, PTL DEF Spec
=============================================================================
