--------------------------- MODULE FioMutexProofs ---------------------------
(***************************************************************************)
(* Proofs about FioMutex, for any sets of threads used in one of the two   *)
(* ways of UsageAssumption.                                                *)
(***************************************************************************)
EXTENDS FioMutex, FiniteSetTheorems, TLAPS

\* The set of threads is finite, and so is any set of blocked ones.
LEMMA BlockedFinite ==
    /\ IsFiniteSet(Threads)
    /\ IsFiniteSet(Blocked) /\ Cardinality(Blocked) \in Nat
    /\ IsFiniteSet(Blocked') /\ Cardinality(Blocked') \in Nat
<1>1. IsFiniteSet(Threads)
  BY FioMutexAssumption, FS_Union DEF Threads
<1>2. Blocked \in SUBSET Threads /\ Blocked' \in SUBSET Threads
  BY DEF Blocked
<1>3. IsFiniteSet(Blocked) /\ IsFiniteSet(Blocked')
  BY <1>1, <1>2, FS_Subset
<1>4. QED
  BY <1>1, <1>3, FS_CardinalityType

\* The effect on the count of blocked threads of one thread entering a wait,
\* leaving it, or doing neither.
LEMMA BlockedSteps ==
    ASSUME NEW t \in Threads
    PROVE  /\ Blocked' = Blocked \cup {t} /\ t \notin Blocked =>
                 Cardinality(Blocked') = Cardinality(Blocked) + 1
           /\ Blocked' = Blocked \ {t} /\ t \in Blocked =>
                 Cardinality(Blocked') = Cardinality(Blocked) - 1
           /\ t \in Blocked => Cardinality(Blocked) >= 1
<1>1. IsFiniteSet(Blocked) /\ Cardinality(Blocked) \in Nat
  BY BlockedFinite
<1>2. t \in Blocked => Cardinality(Blocked) # 0
  BY <1>1, FS_EmptySet
<1>3. QED
  BY <1>1, <1>2, FS_AddElement, FS_RemoveElement

\* fio_mutex_init establishes the invariant.
LEMMA InitIInv == fio_mutex_init => IInv
<1> SUFFICES ASSUME fio_mutex_init PROVE IInv
  OBVIOUS
<1> USE FioMutexAssumption, UsageAssumption DEF fio_mutex_init
<1>1. TypeOK
  BY DEF TypeOK
<1>2. Blocked = {}
  BY DEF Blocked
<1>3. WaitersCounted
  BY <1>2, FS_EmptySet DEF WaitersCounted
<1>4. LockState
  BY DEF LockState, Held, Threads
<1>5. SleepersWait /\ OnlyWaitersTime /\ PostersOnlyPost /\ NoLostWakeup
  BY DEF SleepersWait, OnlyWaitersTime, PostersOnlyPost, NoLostWakeup, Threads
<1>6. QED
  BY <1>1, <1>3, <1>4, <1>5 DEF IInv

\* The wait loop preserves the invariant, whether t enters it from outside
\* (w = waiters) or comes back to it after a wait (w = waiters - 1).
LEMMA TakeOrSleepIInv ==
    ASSUME IInv, NEW t \in Lockers \cup Waiters, NEW w, lock = NoThread,
           TakeOrSleep(t, w), UNCHANGED lock, t \notin asleep,
           \/ w = waiters /\ pc[t] = "idle"
           \/ w = waiters - 1 /\ pc[t] = "waiting"
    PROVE  IInv'
<1> USE FioMutexAssumption, UsageAssumption
<1>0. t \in Threads
  BY DEF Threads
<1>1. w = Cardinality(Blocked \ {t}) /\ w \in Nat
  <2>1. waiters = Cardinality(Blocked) /\ waiters \in Nat
    BY DEF IInv, WaitersCounted, TypeOK
  <2>2. CASE w = waiters /\ pc[t] = "idle"
    <3>1. t \notin Blocked
      BY <2>2 DEF Blocked
    <3>2. QED
      BY <2>1, <2>2, <3>1
  <2>3. CASE w = waiters - 1 /\ pc[t] = "waiting"
    <3>1. t \in Blocked
      BY <2>3, <1>0 DEF Blocked
    <3>2. Cardinality(Blocked \ {t}) = Cardinality(Blocked) - 1
      BY <3>1, BlockedFinite, FS_RemoveElement
    <3>3. QED
      BY <2>1, <2>3, <3>1, <3>2, <1>0, BlockedSteps
  <2>4. QED
    BY <2>2, <2>3
<1>2. CASE /\ value # 0
           /\ value' = value - 1
           /\ waiters' = w
           /\ asleep' = asleep
           /\ pc' = [pc EXCEPT ![t] = "held"]
  <2>1. TypeOK'
    BY <1>0, <1>1, <1>2 DEF IInv, TypeOK
  <2>2. Blocked' = Blocked \ {t}
    BY <1>0, <1>2 DEF IInv, TypeOK, Blocked
  <2>3. WaitersCounted'
    BY <1>1, <1>2, <2>2 DEF WaitersCounted
  <2>4. LockState'
    <3>1. CASE InitValue = 1
      <4>1. value = 1 /\ Held = {}
        BY <1>2, <3>1 DEF IInv, LockState
      <4>2. t \in Lockers /\ Held' = {t}
        BY <4>1, <1>0, <1>2, <3>1 DEF IInv, TypeOK, Held, Threads
      <4>3. QED
        BY <4>1, <4>2, <1>2 DEF LockState
    <3>2. QED
      BY <3>1 DEF LockState
  <2>5. SleepersWait' /\ OnlyWaitersTime' /\ PostersOnlyPost'
    BY <1>0, <1>2 DEF IInv, TypeOK, SleepersWait, OnlyWaitersTime,
                      PostersOnlyPost, Threads
  <2>6. NoLostWakeup'
    <3>1. CASE InitValue = 1
      BY <1>2, <3>1 DEF IInv, LockState, NoLostWakeup
    <3>2. CASE InitValue = 0 /\ Lockers = {} /\ \A s, u \in Waiters : s = u
      BY <1>2, <3>2 DEF IInv, TypeOK, SleepersWait, NoLostWakeup, Threads
    <3>3. QED
      BY <3>1, <3>2
  <2>7. QED
    BY <2>1, <2>3, <2>4, <2>5, <2>6 DEF IInv
<1>3. CASE /\ value = 0
           /\ waiters' = w + 1
           /\ asleep' = asleep \cup {t}
           /\ pc' = [pc EXCEPT ![t] = "waiting"]
           /\ UNCHANGED value
  <2>1. TypeOK'
    BY <1>0, <1>1, <1>3 DEF IInv, TypeOK
  <2>2. Blocked' = (Blocked \ {t}) \cup {t}
    BY <1>0, <1>3 DEF IInv, TypeOK, Blocked
  <2>3. WaitersCounted'
    <3>1. IsFiniteSet(Blocked \ {t})
      BY BlockedFinite, FS_RemoveElement
    <3>2. Cardinality(Blocked') = Cardinality(Blocked \ {t}) + 1
      BY <2>2, <3>1, FS_AddElement
    <3>3. QED
      BY <1>1, <1>3, <3>2 DEF WaitersCounted
  <2>4. LockState'
    <3>1. Held' = Held
      BY <1>0, <1>3, t \notin Held DEF IInv, TypeOK, Held, Threads
    <3>2. QED
      BY <1>3, <3>1 DEF IInv, LockState
  <2>5. SleepersWait' /\ OnlyWaitersTime' /\ PostersOnlyPost'
    BY <1>0, <1>3 DEF IInv, TypeOK, SleepersWait, OnlyWaitersTime,
                      PostersOnlyPost, Threads
  <2>6. NoLostWakeup'
    BY <1>3 DEF NoLostWakeup
  <2>7. QED
    BY <2>1, <2>3, <2>4, <2>5, <2>6 DEF IInv
<1>4. QED
  BY <1>2, <1>3 DEF TakeOrSleep

\* fio_mutex_up preserves the invariant: if it signals, the woken thread is
\* there to take the unit; if it does not, nobody is asleep.
LEMMA UpIInv ==
    ASSUME IInv, NEW t \in Threads, fio_mutex_up(t)
    PROVE  IInv'
<1> USE FioMutexAssumption, UsageAssumption
<1>1. asleep' \subseteq asleep /\ value' = value + 1 /\ waiters' = waiters
      /\ lock' = lock
  BY DEF fio_mutex_up, cond_signal
<1>2. \/ t \in Lockers /\ pc[t] = "held" /\ pc' = [pc EXCEPT ![t] = "idle"]
      \/ t \in Posters /\ pc[t] = "idle" /\ pc' = [pc EXCEPT ![t] = "posted"]
  BY DEF fio_mutex_up
<1>3. TypeOK'
  BY <1>1, <1>2 DEF IInv, TypeOK
<1>4. Blocked' = Blocked
  BY <1>2 DEF IInv, TypeOK, Blocked
<1>5. WaitersCounted'
  BY <1>1, <1>4 DEF IInv, WaitersCounted
<1>6. LockState'
  <2>1. CASE InitValue = 1
    <3>1. t \in Lockers /\ t \in Held
      BY <1>2, <2>1 DEF Held
    <3>2. value = 0 /\ Held = {t}
      BY <2>1, <3>1 DEF IInv, LockState
    <3>3. Held' = {}
      BY <1>2, <2>1, <3>2 DEF IInv, TypeOK, Held, Threads
    <3>4. QED
      BY <1>1, <3>2, <3>3 DEF LockState
  <2>2. QED
    BY <2>1 DEF LockState
<1>7. SleepersWait' /\ OnlyWaitersTime' /\ PostersOnlyPost'
  BY <1>1, <1>2 DEF IInv, TypeOK, SleepersWait, OnlyWaitersTime,
                    PostersOnlyPost, Threads
<1>8. NoLostWakeup'
  <2>1. CASE asleep = {}
    BY <1>1, <2>1 DEF NoLostWakeup
  <2>2. CASE asleep # {}
    <3>1. PICK s \in asleep : pc[s] = "waiting" /\ s \in Threads /\ s \in Blocked
      BY <2>2 DEF IInv, TypeOK, SleepersWait, Blocked
    <3>2. waiters # 0
      BY <3>1, BlockedSteps DEF IInv, WaitersCounted
    <3>3. value = 0
      <4>1. CASE InitValue = 1
        BY <1>2, <4>1 DEF IInv, LockState, Held
      <4>2. CASE InitValue = 0 /\ Lockers = {} /\ \A u, v \in Waiters : u = v
        <5>1. SUFFICES ASSUME value # 0 PROVE FALSE
          OBVIOUS
        <5>2. PICK u \in Threads \ asleep : pc[u] = "waiting"
          BY <2>2, <5>1 DEF IInv, NoLostWakeup
        <5>3. s \in Waiters /\ u \in Waiters
          BY <3>1, <4>2, <5>2 DEF IInv, PostersOnlyPost, Threads
        <5>4. QED
          BY <4>2, <5>2, <5>3, <3>1
      <4>3. QED
        BY <4>1, <4>2
    <3>4. PICK u \in asleep : asleep' = asleep \ {u}
      BY <2>2, <3>2, <3>3 DEF fio_mutex_up, cond_signal
    <3>5. u \in Threads \ asleep' /\ pc'[u] = "waiting"
      BY <1>2, <3>4 DEF IInv, TypeOK, SleepersWait
    <3>6. QED
      BY <3>5 DEF NoLostWakeup
  <2>3. QED
    BY <2>1, <2>2
<1>9. QED
  BY <1>3, <1>5, <1>6, <1>7, <1>8 DEF IInv

\* Every step preserves the invariant.
LEMMA NextIInv == IInv /\ [Next]_vars => IInv'
<1> SUFFICES ASSUME IInv, [Next]_vars PROVE IInv'
  OBVIOUS
<1> USE FioMutexAssumption, UsageAssumption
<1>1. ASSUME NEW t \in Lockers \cup Waiters, fio_mutex_down(t) PROVE IInv'
  <2>1. t \notin asleep
    BY <1>1 DEF IInv, SleepersWait, fio_mutex_down
  <2>2. QED
    BY <1>1, <2>1, TakeOrSleepIInv DEF fio_mutex_down
<1>2. ASSUME NEW t \in Threads, WaitReturns(t) PROVE IInv'
  <2>1. t \in Lockers \cup Waiters
    BY <1>2 DEF IInv, PostersOnlyPost, WaitReturns, Threads
  <2>2. QED
    BY <1>2, <2>1, TakeOrSleepIInv DEF WaitReturns
<1>3. ASSUME NEW t \in Threads, TimedOut(t) PROVE IInv'
  <2>1. t \in Waiters /\ t \in Blocked /\ Lockers = {} /\ InitValue # 1
    BY <1>3 DEF IInv, OnlyWaitersTime, TimedOut, Blocked
  <2>2. waiters = Cardinality(Blocked) /\ waiters >= 1
    BY <2>1, BlockedSteps DEF IInv, WaitersCounted
  <2>3. TypeOK'
    BY <1>3, <2>2 DEF IInv, TypeOK, TimedOut
  <2>4. Blocked' = Blocked \ {t}
    BY <1>3 DEF IInv, TypeOK, TimedOut, Blocked
  <2>5. WaitersCounted'
    BY <1>3, <2>1, <2>2, <2>4, BlockedSteps DEF WaitersCounted, TimedOut
  <2>6. LockState' /\ SleepersWait' /\ OnlyWaitersTime' /\ PostersOnlyPost'
    BY <1>3, <2>1 DEF IInv, TypeOK, LockState, SleepersWait, OnlyWaitersTime,
                      PostersOnlyPost, TimedOut, Threads
  <2>7. NoLostWakeup'
    BY <1>3 DEF IInv, TypeOK, NoLostWakeup, TimedOut
  <2>8. QED
    BY <2>3, <2>5, <2>6, <2>7 DEF IInv
<1>4. ASSUME NEW t \in Threads, TimedOutEarly(t) PROVE IInv'
  <2>1. t \in Waiters /\ Lockers = {} /\ InitValue # 1
    BY <1>4 DEF IInv, OnlyWaitersTime, TimedOutEarly
  <2>2. TypeOK'
    BY <1>4 DEF IInv, TypeOK, TimedOutEarly
  <2>3. Blocked' = Blocked
    BY <1>4 DEF IInv, TypeOK, TimedOutEarly, Blocked
  <2>4. WaitersCounted'
    BY <1>4, <2>3 DEF IInv, WaitersCounted, TimedOutEarly
  <2>5. LockState' /\ SleepersWait' /\ OnlyWaitersTime' /\ PostersOnlyPost'
    BY <1>4, <2>1 DEF IInv, TypeOK, LockState, SleepersWait, OnlyWaitersTime,
                      PostersOnlyPost, TimedOutEarly, Threads
  <2>6. NoLostWakeup'
    BY <1>4 DEF IInv, TypeOK, NoLostWakeup, TimedOutEarly
  <2>7. QED
    BY <2>2, <2>4, <2>5, <2>6 DEF IInv
<1>5. ASSUME NEW t \in Threads, fio_mutex_up(t) PROVE IInv'
  BY <1>5, UpIInv
<1>6. ASSUME NEW t \in Threads, NextWait(t) PROVE IInv'
  <2>1. InitValue # 1
    BY <1>6 DEF NextWait
  <2>2. TypeOK'
    BY <1>6 DEF IInv, TypeOK, NextWait
  <2>3. Blocked' = Blocked
    BY <1>6 DEF IInv, TypeOK, NextWait, Blocked
  <2>4. WaitersCounted'
    BY <1>6, <2>3 DEF IInv, WaitersCounted, NextWait
  <2>5. LockState' /\ SleepersWait' /\ OnlyWaitersTime' /\ PostersOnlyPost'
    BY <1>6, <2>1 DEF IInv, TypeOK, LockState, SleepersWait, OnlyWaitersTime,
                      PostersOnlyPost, NextWait, Threads
  <2>6. NoLostWakeup'
    BY <1>6 DEF IInv, TypeOK, NoLostWakeup, NextWait
  <2>7. QED
    BY <2>2, <2>4, <2>5, <2>6 DEF IInv
<1>7. ASSUME NEW t \in Threads, SpuriousWakeup(t) PROVE IInv'
  <2>1. TypeOK' /\ Blocked' = Blocked /\ Held' = Held
    BY <1>7 DEF IInv, TypeOK, SpuriousWakeup, Blocked, Held
  <2>2. WaitersCounted' /\ LockState'
    BY <1>7, <2>1 DEF IInv, WaitersCounted, LockState, SpuriousWakeup
  <2>3. SleepersWait' /\ OnlyWaitersTime' /\ PostersOnlyPost'
    BY <1>7 DEF IInv, SleepersWait, OnlyWaitersTime, PostersOnlyPost,
                SpuriousWakeup
  <2>4. NoLostWakeup'
    BY <1>7 DEF IInv, SleepersWait, NoLostWakeup, SpuriousWakeup
  <2>5. QED
    BY <2>1, <2>2, <2>3, <2>4 DEF IInv
<1>8. ASSUME NEW t \in Threads, TimerExpires(t) PROVE IInv'
  <2>1. t \in Waiters /\ Lockers = {} /\ InitValue # 1
    BY <1>8 DEF TimerExpires
  <2>2. TypeOK'
    BY <1>8 DEF IInv, TypeOK, TimerExpires
  <2>3. Blocked' = Blocked
    BY <1>8 DEF IInv, TypeOK, SleepersWait, TimerExpires, Blocked
  <2>4. WaitersCounted'
    BY <1>8, <2>3 DEF IInv, WaitersCounted, TimerExpires
  <2>5. LockState' /\ SleepersWait' /\ OnlyWaitersTime' /\ PostersOnlyPost'
    BY <1>8, <2>1 DEF IInv, TypeOK, LockState, SleepersWait, OnlyWaitersTime,
                      PostersOnlyPost, TimerExpires, Threads
  <2>6. asleep' = {}
    BY <1>8, <2>1 DEF IInv, TypeOK, SleepersWait, TimerExpires, Threads
  <2>7. NoLostWakeup'
    BY <2>6 DEF NoLostWakeup
  <2>8. QED
    BY <2>2, <2>4, <2>5, <2>7 DEF IInv
<1>9. CASE UNCHANGED vars
  BY <1>9 DEF vars, IInv, TypeOK, LockState, Held, SleepersWait,
              OnlyWaitersTime, PostersOnlyPost, WaitersCounted, Blocked,
              NoLostWakeup
<1>10. QED
  BY <1>1, <1>2, <1>3, <1>4, <1>5, <1>6, <1>7, <1>8, <1>9 DEF Next, Step

\* The invariant holds in every reachable state.
THEOREM IInvariance == Spec => []IInv
  BY InitIInv, NextIInv, PTL DEF Spec

\* fio_mutex as a lock excludes: at most one thread is between fio_mutex_down
\* and fio_mutex_up.
THEOREM MutexExcludes == Spec => []MutualExclusion
<1>1. IInv => MutualExclusion
  BY FioMutexAssumption, UsageAssumption DEF IInv, LockState, MutualExclusion,
                                             Held
<1>2. QED
  BY <1>1, IInvariance, PTL

\* fio_mutex_up never leaves a thread asleep next to a free unit, though it
\* signals only when value was 0 and waiters was not.
THEOREM MutexLosesNoWakeup == Spec => []NoLostWakeup
<1>1. IInv => NoLostWakeup
  BY DEF IInv
<1>2. QED
  BY <1>1, IInvariance, PTL
=============================================================================
