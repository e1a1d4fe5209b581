--------------------------- MODULE BackendProofs ---------------------------
(***************************************************************************)
(* Proofs about Backend: the counts run_threads goes by are exact, and the *)
(* runstates follow the life cycle, for any number of jobs, any job files, *)
(* and whichever failures, crashes and signals happen.                     *)
(***************************************************************************)
EXTENDS Backend, FiniteSetTheorems, TLAPS

\* The time a leaf may take.
USE SMTT(30), ZenonT(30)

-----------------------------------------------------------------------------
(* Types.                                                                  *)

\* fio_terminate_threads keeps the types of what it changes.
LEMMA TerminateType ==
    ASSUME TypeOK, NEW g, NEW S \in SUBSET (Jobs \cup {Main}),
           fio_terminate_threads(g, S)
    PROVE  /\ terminate' \in [Jobs -> BOOLEAN]
           /\ start_delay' \in [Jobs -> BOOLEAN]
           /\ sigterm' \in SUBSET (Jobs \cup {Main})
<1>1. Matched(g) \subseteq Jobs
    BY DEF Matched
<1>2. Killed(Matched(g)) \subseteq Jobs \cup {Main}
    BY <1>1 DEF Killed, SignalTarget
<1> QED
    BY <1>1, <1>2 DEF fio_terminate_threads, TypeOK

\* Counting a job in reap_threads keeps the types.
LEMMA CountedType ==
    ASSUME TypeOK, NEW j \in Jobs
    PROVE  Counted(j) \in [cputhreads : Nat, realthreads : Nat, pending : Nat]
<1> DEFINE cpuio == io_ops[j] /\ o[j].engine = "cpuio"
<1>1. /\ count.cputhreads \in Nat /\ count.realthreads \in Nat
      /\ count.pending \in Nat
    BY DEF TypeOK
<1>2. /\ count.cputhreads + (IF cpuio THEN 1 ELSE 0) \in Nat
      /\ count.realthreads + (IF cpuio THEN 0 ELSE 1) \in Nat
      /\ count.pending + (IF StillPending(j) THEN 1 ELSE 0) \in Nat
    BY <1>1
<1> QED
    BY <1>2 DEF Counted

\* A step keeps the types.
LEMMA TypeStep ==
    ASSUME TypeOK, MainStates, [Next]_vars
    PROVE  TypeOK'
<1> USE BackendAssumption
    DEF Jobs, TD_NOT_CREATED, TD_CREATED, TD_INITIALIZED, TD_RAMP, TD_RUNNING,
          TD_PRE_READING, TD_VERIFYING, TD_FSYNCING, TD_EXITED, TD_REAPED
<1>1. CASE EndSetup
    BY <1>1 DEF EndSetup, TypeOK, MainStates,
       tdVars, jobVars, sharedVars, mainVars
<1>2. CASE PassOver
    BY <1>2 DEF PassOver, TypeOK, MainStates,
       tdVars, jobVars, sharedVars, mainVars
<1>3. CASE NeverStarted
    BY <1>3 DEF NeverStarted, Dec, TypeOK, MainStates,
       tdVars, jobVars, sharedVars, mainVars
<1>4. CASE EndCreate
    BY <1>4 DEF EndCreate, TypeOK, MainStates,
       tdVars, jobVars, sharedVars, mainVars
<1>5. CASE StartupDone
    BY <1>5 DEF StartupDone, TypeOK, MainStates,
       tdVars, jobVars, sharedVars, mainVars
<1>6. CASE AllStarted
    BY <1>6 DEF AllStarted, TypeOK, MainStates,
       tdVars, jobVars, sharedVars, mainVars
<1>7. CASE PassStart
    BY <1>7 DEF PassStart, TypeOK, MainStates,
       tdVars, jobVars, sharedVars, mainVars
<1>8. CASE StartJob
  <2>0. i \in Jobs /\ i' = i + 1
    BY <1>8 DEF StartJob
  <2>1. /\ runstate' \in [Jobs -> TD_NOT_CREATED .. TD_REAPED]
        /\ mutex' \in [Jobs -> Nat]
    BY <1>8 DEF StartJob, TypeOK
  <2>3. i' \in 1 .. NJobs + 1
    BY <2>0
  <2>2. /\ todo' \in 0 .. UINT_MAX /\ nr_running' \in 0 .. UINT_MAX
        /\ nr_started' \in 0 .. UINT_MAX
    BY <1>8 DEF StartJob, Inc, Dec, TypeOK
  <2> QED
    BY <1>8, <2>1, <2>2, <2>3, ZenonT(30) DEF StartJob, TypeOK, jobVars, sharedVars
<1>9. CASE EndStart
    BY <1>9 DEF EndStart, NoCount, TypeOK, MainStates,
       tdVars, jobVars, sharedVars, mainVars
<1>10. CASE Interrupt
    BY <1>10 DEF Interrupt, Main, TypeOK, MainStates,
       tdVars, jobVars, sharedVars, mainVars
<1>11. CASE \E j \in Jobs : PollJob(j)
    BY <1>11 DEF PollJob, Inc, Dec, TypeOK, tdVars, jobVars, sharedVars, mainVars
<1>12. CASE \E j \in Jobs : JobStart(j)
    BY <1>12 DEF JobStart, JobGoesTo, TypeOK, tdVars, jobVars, sharedVars, mainVars
<1>13. CASE \E j \in Jobs : JobInit(j)
    BY <1>13 DEF JobInit, JobGoesTo, TypeOK, tdVars, jobVars, sharedVars, mainVars
<1>14. CASE \E j \in Jobs : JobPost(j)
    BY <1>14 DEF JobPost, JobGoesTo, TypeOK, tdVars, jobVars, sharedVars, mainVars
<1>15. CASE \E j \in Jobs : JobGo(j)
    BY <1>15 DEF JobGo, JobGoesTo, TypeOK, tdVars, jobVars, sharedVars, mainVars
<1>16. CASE \E j \in Jobs : JobDone(j)
  <2>1. jpc' \in [Jobs -> {"none", "start", "init", "post", "sem", "setup", "run",
                         "exitall", "exit", "closed", "done", "dead"}]
    BY <1>16 DEF JobDone, JobGoesTo, TypeOK
  <2>2. UNCHANGED <<tdVars, proc, sharedVars, mainVars>>
    BY <1>16 DEF JobDone
  <2> QED
    BY <2>1, <2>2 DEF TypeOK, tdVars, sharedVars, mainVars
<1>17. CASE \E j \in Jobs : JobClose(j)
    BY <1>17 DEF JobClose, JobGoesTo, TypeOK, tdVars, jobVars, sharedVars, mainVars
<1>18. CASE \E j \in Jobs : JobExited(j)
    BY <1>18 DEF JobExited, JobGoesTo, TypeOK, tdVars, jobVars, sharedVars, mainVars
<1>19. CASE \E j \in Jobs : ProcessExits(j)
    BY <1>19 DEF ProcessExits, TypeOK, tdVars, jobVars, sharedVars, mainVars
<1>20. CASE \E j \in Jobs : JobWork(j)
    BY <1>20 DEF JobWork, TypeOK, tdVars, jobVars, sharedVars, mainVars
<1>21. CASE \E j \in Jobs : JobFails(j)
    BY <1>21 DEF JobFails, JobGoesTo, TypeOK, tdVars, jobVars, sharedVars, mainVars
<1>22. CASE \E j \in Jobs : Crash(j)
    BY <1>22 DEF Crash, TypeOK, tdVars, jobVars, sharedVars, mainVars
<1>23. CASE \E j \in Jobs : DelayElapses(j)
    BY <1>23 DEF DelayElapses, TypeOK, tdVars, jobVars, sharedVars, mainVars
<1>24. CASE SetupFiles
  <2>1. /\ runstate' \in [Jobs -> TD_NOT_CREATED .. TD_REAPED]
        /\ exit_value' \in Nat /\ todo' \in 0 .. UINT_MAX
    <3> i \in Jobs
      BY <1>24 DEF SetupFiles
    <3>1. CASE UNCHANGED <<exit_value, runstate, todo>>
      BY <3>1 DEF TypeOK
    <3>2. CASE /\ exit_value' = exit_value + 1
               /\ runstate' = [runstate EXCEPT ![i] = TD_REAPED]
               /\ todo' = Dec(todo)
      BY <3>2 DEF Dec, TypeOK
    <3> QED
      BY <1>24, <3>1, <3>2 DEF SetupFiles
  <2>2. i' \in 1 .. NJobs + 1
    BY <1>24 DEF SetupFiles
  <2> QED
    BY <1>24, <2>1, <2>2 DEF SetupFiles, TypeOK, jobVars
<1>25. CASE CreateJob
  <2>1. /\ runstate' \in [Jobs -> TD_NOT_CREATED .. TD_REAPED]
        /\ map' \subseteq Jobs
    BY <1>25 DEF CreateJob, TypeOK
  <2>2. nr_started' \in {nr_started, Inc(nr_started)} /\ pc' \in {"startup", "wait"}
    BY <1>25 DEF CreateJob
  <2>3. /\ jpc' \in [Jobs -> {"none", "start", "init", "post", "sem", "setup", "run",
                         "exitall", "exit", "closed", "done", "dead"}]
        /\ proc' \in [Jobs -> {"none", "alive", "signalled", "exit_ok", "exit_error"}]
    BY <1>25, ZenonT(30) DEF CreateJob, TypeOK, jobVars
  <2>4. nr_started' \in 0 .. UINT_MAX
    BY <2>2 DEF Inc, TypeOK
  <2> QED
    BY <1>25, <2>1, <2>2, <2>3, <2>4 DEF CreateJob, TypeOK, sharedVars
<1>26. CASE StartupTimeout
  <2>1. /\ terminate' \in [Jobs -> BOOLEAN]
        /\ start_delay' \in [Jobs -> BOOLEAN]
        /\ sigterm' \in SUBSET (Jobs \cup {Main})
    BY <1>26, TerminateType DEF StartupTimeout, TypeOK
  <2> QED
    BY <1>26, <2>1 DEF StartupTimeout, Dec, TypeOK, jobVars
<1>27. CASE StartFailed
  <2>1. sigterm' \subseteq Jobs \cup {Main}
    <3>1. \A j \in map : (IF pid[j] THEN SignalTarget(j) ELSE Main) \in Jobs \cup {Main}
      BY DEF SignalTarget, TypeOK
    <3> DEFINE K == {IF pid[j] THEN SignalTarget(j) ELSE Main : j \in map}
    <3>2. K \subseteq Jobs \cup {Main}
      BY <3>1
    <3>3. sigterm' = sigterm \cup K
      BY <1>27 DEF StartFailed
    <3>4. sigterm \subseteq Jobs \cup {Main}
      BY DEF TypeOK
    <3> HIDE DEF K
    <3> QED
      BY <3>2, <3>3, <3>4
  <2> QED
    BY <1>27, <2>1 DEF StartFailed, NoCount, TypeOK, tdVars, jobVars
<1>28. CASE ReapJob
  <2>1. count' \in [cputhreads : Nat, realthreads : Nat, pending : Nat]
    BY <1>28, CountedType DEF ReapJob
  <2>2. exit_value' \in Nat /\ error' \in [Jobs -> BOOLEAN]
    BY <1>28 DEF ReapJob, ExitValue, JobError, TypeOK
  <2>3. nr_running' \in 0 .. UINT_MAX /\ i' \in 1 .. NJobs + 1
    BY <1>28 DEF ReapJob, Dec, TypeOK
  <2>4. /\ runstate' \in [Jobs -> TD_NOT_CREATED .. TD_REAPED]
        /\ proc' \in [Jobs -> {"none", "alive", "signalled", "exit_ok", "exit_error"}]
    <3>1. /\ i \in Jobs
          /\ runstate' = [runstate EXCEPT ![i] = TD_REAPED]
          /\ proc' = [proc EXCEPT ![i] = "none"]
      BY <1>28 DEF ReapJob
    <3>2. runstate \in [Jobs -> TD_NOT_CREATED .. TD_REAPED]
      BY DEF TypeOK
    <3>3. proc \in [Jobs -> {"none", "alive", "signalled", "exit_ok", "exit_error"}]
      BY DEF TypeOK
    <3>4. runstate' \in [Jobs -> TD_NOT_CREATED .. TD_REAPED]
      BY <3>1, <3>2
    <3> QED
      BY <3>1, <3>3, <3>4
  <2> QED
    BY <1>28, <2>1, <2>2, <2>3, <2>4, ZenonT(30) DEF ReapJob, TypeOK
<1>29. CASE LeaveJob
  <2>1. count' \in [cputhreads : Nat, realthreads : Nat, pending : Nat]
    BY <1>29, CountedType DEF LeaveJob
  <2>2. i' \in 1 .. NJobs + 1
    BY <1>29 DEF LeaveJob, TypeOK
  <2>3. UNCHANGED <<tdVars, jobVars, sharedVars, pc, todo, nr_started, nr_running,
                    map, fio_abort, start_failed>>
    BY <1>29 DEF LeaveJob
  <2> HIDE <1>29
  <2> QED
    BY <2>1, <2>2, <2>3 DEF TypeOK, tdVars, jobVars, sharedVars
<1>30. CASE EndReap
  <2>1. /\ terminate' \in [Jobs -> BOOLEAN]
        /\ start_delay' \in [Jobs -> BOOLEAN]
        /\ sigterm' \in SUBSET (Jobs \cup {Main})
    BY <1>30, TerminateType, ZenonT(30) DEF EndReap, TypeOK
  <2> QED
    BY <1>30, <2>1 DEF EndReap, AfterReap, NoCount, TypeOK, jobVars
<1>31. CASE \E j \in Jobs : JobSetup(j)
  <2> PICK j \in Jobs : JobSetup(j)
    BY <1>31
  <2>1. error' \in [Jobs -> BOOLEAN]
    BY DEF JobSetup, TypeOK
  <2>2. jpc' \in [Jobs -> {"none", "start", "init", "post", "sem", "setup", "run",
                         "exitall", "exit", "closed", "done", "dead"}]
    BY DEF JobSetup, JobGoesTo, TypeOK
  <2> QED
    BY <2>1, <2>2 DEF JobSetup, TypeOK, sharedVars, mainVars
<1>32. CASE \E j \in Jobs : JobExitall(j)
  <2> PICK j \in Jobs : JobExitall(j)
    BY <1>32
  <2>1. /\ terminate' \in [Jobs -> BOOLEAN]
        /\ start_delay' \in [Jobs -> BOOLEAN]
        /\ sigterm' \in SUBSET (Jobs \cup {Main})
    BY TerminateType, ZenonT(30) DEF JobExitall, TypeOK
  <2> QED
    BY <2>1 DEF JobExitall, JobGoesTo, TypeOK, mainVars
<1>33. CASE \E p \in Jobs \cup {Main} : sig_int(p)
  <2> PICK p \in Jobs \cup {Main} : sig_int(p)
    BY <1>33
  <2>1. /\ terminate' \in [Jobs -> BOOLEAN]
        /\ start_delay' \in [Jobs -> BOOLEAN]
        /\ sigterm' \in SUBSET (Jobs \cup {Main})
    <3>1. (sigterm \ {p}) \in SUBSET (Jobs \cup {Main})
      BY DEF TypeOK
    <3> QED
      BY <3>1, TerminateType DEF sig_int
  <2> QED
    BY <2>1 DEF sig_int, TypeOK, jobVars, mainVars
<1>34. CASE UNCHANGED vars
    BY <1>34 DEF TypeOK, vars, tdVars, jobVars, sharedVars, mainVars
<1> QED
    BY <1>1, <1>2, <1>3, <1>4, <1>5, <1>6, <1>7, <1>8, <1>9, <1>10,
       <1>11, <1>12, <1>13, <1>14, <1>15, <1>16, <1>17, <1>18, <1>19, <1>20,
       <1>21, <1>22, <1>23, <1>24, <1>25, <1>26, <1>27, <1>28, <1>29, <1>30,
       <1>31, <1>32, <1>33, <1>34
    DEF Next, run_threads, thread_main

-----------------------------------------------------------------------------
(* Where a job is tells its runstate.                                      *)

\* The types of what JobState speaks of.
LEMMA JobTypes ==
    ASSUME TypeOK
    PROVE  /\ runstate \in [Jobs -> 0 .. 9]
           /\ jpc \in [Jobs -> {"none", "start", "init", "post", "sem", "setup", "run",
                               "exitall", "exit", "closed", "done", "dead"}]
           /\ proc \in [Jobs -> {"none", "alive", "signalled", "exit_ok", "exit_error"}]
           /\ pid \in [Jobs -> BOOLEAN] /\ mutex \in [Jobs -> Nat]
BY DEF TypeOK, TD_NOT_CREATED, TD_REAPED

\* A step of run_threads, of a job, of a signal or of the surroundings keeps it.
LEMMA JobStatesStep ==
    ASSUME TypeOK, JobStates, MainStates, [Next]_vars
    PROVE  JobStates'
<1> SUFFICES ASSUME NEW k \in Jobs
             PROVE  JobState(k)'
    BY DEF JobStates
<1> USE BackendAssumption, JobTypes
    DEF TD_NOT_CREATED, TD_CREATED, TD_INITIALIZED, TD_RAMP, TD_RUNNING,
          TD_PRE_READING, TD_VERIFYING, TD_FSYNCING, TD_EXITED, TD_REAPED
<1>1. JobState(k)
    BY DEF JobStates
<1>2. CASE UNCHANGED <<runstate, jpc, proc, pid, mutex>>
    BY <1>1, <1>2 DEF JobState
<1>3. CASE SetupFiles
  <2>1. /\ i \in Jobs /\ runstate[i] = TD_NOT_CREATED
        /\ UNCHANGED <<jpc, proc, pid, mutex>>
        /\ runstate' = runstate \/ runstate' = [runstate EXCEPT ![i] = TD_REAPED]
    BY <1>3 DEF SetupFiles, MainStates, jobVars, Jobs
  <2>2. JobState(i)
    BY <2>1 DEF JobStates
  <2> QED
    BY <1>1, <2>1, <2>2 DEF JobState
<1>4. CASE CreateJob
  <2>1. /\ i \in Jobs /\ runstate[i] = TD_NOT_CREATED
        /\ UNCHANGED <<pid, mutex>>
        /\ runstate' = [runstate EXCEPT ![i] = TD_CREATED]
        /\ \/ /\ jpc' = [jpc EXCEPT ![i] = "start"]
              /\ proc' = [proc EXCEPT ![i] = "alive"]
           \/ UNCHANGED <<jpc, proc>>
    BY <1>4 DEF CreateJob, MayCreate, jobVars
  <2>2. JobState(i)
    BY <2>1 DEF JobStates
  <2> QED
    BY <1>1, <2>1, <2>2 DEF JobState
<1>5. CASE StartJob
  <2>1. /\ i \in Jobs /\ runstate[i] = TD_INITIALIZED
        /\ UNCHANGED <<pid, jpc, proc>>
        /\ mutex' = [mutex EXCEPT ![i] = @ + 1]
    BY <1>5 DEF StartJob, jobVars
  <2>2. PICK r \in {TD_RAMP, TD_RUNNING} : runstate' = [runstate EXCEPT ![i] = r]
    BY <1>5, ZenonT(30) DEF StartJob
  <2>3. JobState(i)
    BY <2>1 DEF JobStates
  <2> QED
    BY <1>1, <2>1, <2>2, <2>3 DEF JobState
<1>6. CASE ReapJob
  <2>1. /\ i \in Jobs /\ Reapable(i)
        /\ UNCHANGED <<pid, jpc, mutex>>
        /\ runstate' = [runstate EXCEPT ![i] = TD_REAPED]
        /\ proc' = [proc EXCEPT ![i] = "none"]
    BY <1>6 DEF ReapJob
  <2>2. JobState(i)
    BY <2>1 DEF JobStates
  <2>3. jpc[i] \in {"done", "dead"}
    BY <2>1, <2>2 DEF JobState, Reapable
  <2> QED
    BY <1>1, <2>1, <2>2, <2>3 DEF JobState
<1>7. CASE \E j \in Jobs : JobStart(j)
  <2> PICK j \in Jobs : JobStart(j)
    BY <1>7
  <2>1. JobState(j)
    BY DEF JobStates
  <2>2. CASE k = j
    BY <2>1, <2>2 DEF JobStart, JobGoesTo, JobState, tdVars, jobVars
  <2>3. CASE k # j
    BY <1>1, <2>3 DEF JobStart, JobGoesTo, JobState, tdVars, jobVars
  <2> QED
    BY <2>2, <2>3
<1>8. CASE \E j \in Jobs : JobInit(j)
  <2> PICK j \in Jobs : JobInit(j)
    BY <1>8
  <2>1. JobState(j)
    BY DEF JobStates
  <2>2. CASE k = j
    BY <2>1, <2>2 DEF JobInit, JobGoesTo, JobState, tdVars, jobVars
  <2>3. CASE k # j
    BY <1>1, <2>3 DEF JobInit, JobGoesTo, JobState, tdVars, jobVars
  <2> QED
    BY <2>2, <2>3
<1>9. CASE \E j \in Jobs : JobPost(j)
  <2> PICK j \in Jobs : JobPost(j)
    BY <1>9
  <2>1. JobState(j)
    BY DEF JobStates
  <2>2. CASE k = j
    BY <2>1, <2>2 DEF JobPost, JobGoesTo, JobState, tdVars, jobVars
  <2>3. CASE k # j
    BY <1>1, <2>3 DEF JobPost, JobGoesTo, JobState, tdVars, jobVars
  <2> QED
    BY <2>2, <2>3
<1>10. CASE \E j \in Jobs : JobGo(j)
  <2> PICK j \in Jobs : JobGo(j)
    BY <1>10
  <2>1. JobState(j)
    BY DEF JobStates
  <2>2. CASE k = j
    BY <2>1, <2>2 DEF JobGo, JobGoesTo, JobState, tdVars, jobVars
  <2>3. CASE k # j
    BY <1>1, <2>3 DEF JobGo, JobGoesTo, JobState, tdVars, jobVars
  <2> QED
    BY <2>2, <2>3
<1>11. CASE \E j \in Jobs : JobSetup(j)
  <2> PICK j \in Jobs : JobSetup(j)
    BY <1>11
  <2>1. JobState(j)
    BY DEF JobStates
  <2>2. CASE k = j
    BY <2>1, <2>2 DEF JobSetup, JobGoesTo, JobState, tdVars, jobVars
  <2>3. CASE k # j
    BY <1>1, <2>3 DEF JobSetup, JobGoesTo, JobState, tdVars, jobVars
  <2> QED
    BY <2>2, <2>3
<1>12. CASE \E j \in Jobs : JobDone(j)
  <2> PICK j \in Jobs : JobDone(j)
    BY <1>12
  <2>1. JobState(j)
    BY DEF JobStates
  <2>2. CASE k = j
    BY <2>1, <2>2 DEF JobDone, JobGoesTo, JobState, tdVars, jobVars
  <2>3. CASE k # j
    BY <1>1, <2>3 DEF JobDone, JobGoesTo, JobState, tdVars, jobVars
  <2> QED
    BY <2>2, <2>3
<1>13. CASE \E j \in Jobs : JobFails(j)
  <2> PICK j \in Jobs : JobFails(j)
    BY <1>13
  <2>1. JobState(j)
    BY DEF JobStates
  <2>2. CASE k = j
    BY <2>1, <2>2 DEF JobFails, JobGoesTo, JobState, tdVars, jobVars
  <2>3. CASE k # j
    BY <1>1, <2>3 DEF JobFails, JobGoesTo, JobState, tdVars, jobVars
  <2> QED
    BY <2>2, <2>3
<1>14. CASE \E j \in Jobs : JobExitall(j)
  <2> PICK j \in Jobs : JobExitall(j)
    BY <1>14
  <2>1. JobState(j)
    BY DEF JobStates
  <2>2. CASE k = j
    BY <2>1, <2>2 DEF JobExitall, JobGoesTo, JobState, tdVars, jobVars
  <2>3. CASE k # j
    BY <1>1, <2>3 DEF JobExitall, JobGoesTo, JobState, tdVars, jobVars
  <2> QED
    BY <2>2, <2>3
<1>15. CASE \E j \in Jobs : JobClose(j)
  <2> PICK j \in Jobs : JobClose(j)
    BY <1>15
  <2>1. JobState(j)
    BY DEF JobStates
  <2>2. CASE k = j
    BY <2>1, <2>2 DEF JobClose, JobGoesTo, JobState, tdVars, jobVars
  <2>3. CASE k # j
    BY <1>1, <2>3 DEF JobClose, JobGoesTo, JobState, tdVars, jobVars
  <2> QED
    BY <2>2, <2>3
<1>16. CASE \E j \in Jobs : JobExited(j)
  <2> PICK j \in Jobs : JobExited(j)
    BY <1>16
  <2>1. JobState(j)
    BY DEF JobStates
  <2>2. CASE k = j
    BY <2>1, <2>2 DEF JobExited, JobGoesTo, JobState, tdVars, jobVars
  <2>3. CASE k # j
    BY <1>1, <2>3 DEF JobExited, JobGoesTo, JobState, tdVars, jobVars
  <2> QED
    BY <2>2, <2>3
<1>17. CASE \E j \in Jobs : ProcessExits(j)
  <2> PICK j \in Jobs : ProcessExits(j)
    BY <1>17
  <2>1. JobState(j)
    BY DEF JobStates
  <2>2. CASE k = j
    BY <2>1, <2>2 DEF ProcessExits, JobState, tdVars, jobVars
  <2>3. CASE k # j
    BY <1>1, <2>3 DEF ProcessExits, JobState, tdVars, jobVars
  <2> QED
    BY <2>2, <2>3
<1>18. CASE \E j \in Jobs : JobWork(j)
  <2> PICK j \in Jobs : JobWork(j)
    BY <1>18
  <2>1. JobState(j)
    BY DEF JobStates
  <2>2. CASE k = j
    BY <2>1, <2>2 DEF JobWork, JobState, tdVars, jobVars
  <2>3. CASE k # j
    BY <1>1, <2>3 DEF JobWork, JobState, tdVars, jobVars
  <2> QED
    BY <2>2, <2>3
<1>19. CASE \E j \in Jobs : Crash(j)
  <2> PICK j \in Jobs : Crash(j)
    BY <1>19
  <2>1. JobState(j)
    BY DEF JobStates
  <2>2. CASE k = j
    BY <2>1, <2>2 DEF Crash, JobState, tdVars, jobVars
  <2>3. CASE k # j
    BY <1>1, <2>3 DEF Crash, JobState, tdVars, jobVars
  <2> QED
    BY <2>2, <2>3
<1>20. CASE \/ EndSetup \/ PassOver \/ NeverStarted \/ EndCreate \/ StartupDone
         \/ StartupTimeout \/ AllStarted \/ StartFailed \/ PassStart
         \/ EndStart \/ LeaveJob \/ EndReap \/ Interrupt
    BY <1>2, <1>20, ZenonT(30) DEF EndSetup, PassOver, NeverStarted, EndCreate, StartupDone,
       StartupTimeout, AllStarted, StartFailed, PassStart,
       EndStart, LeaveJob, EndReap, Interrupt, tdVars, jobVars
<1>21. CASE \E j \in Jobs : PollJob(j) \/ DelayElapses(j)
    BY <1>2, <1>21 DEF PollJob, DelayElapses, tdVars, jobVars
<1>22. CASE \E p \in Jobs \cup {Main} : sig_int(p)
    BY <1>2, <1>22 DEF sig_int, jobVars
<1>23. CASE UNCHANGED vars
    BY <1>2, <1>23 DEF vars, tdVars, jobVars
<1> QED
    BY <1>3, <1>4, <1>5, <1>6, <1>7, <1>8, <1>9, <1>10, <1>11, <1>12,
       <1>13, <1>14, <1>15, <1>16, <1>17, <1>18, <1>19, <1>20, <1>21, <1>22,
       <1>23
    DEF Next, run_threads, thread_main

-----------------------------------------------------------------------------
(* Where run_threads is tells which runstates there are.                   *)

\* How a job's own steps move its runstate.
LEMMA InitMoves ==
    ASSUME NEW j \in Jobs, JobInit(j), JobState(j)
    PROVE  /\ runstate[j] = TD_CREATED
           /\ runstate' = [runstate EXCEPT ![j] = TD_INITIALIZED]
    BY DEF JobInit, JobGoesTo, JobState

LEMMA ExitedMoves ==
    ASSUME NEW j \in Jobs, JobExited(j), JobState(j)
    PROVE  /\ runstate[j] \in TD_RAMP .. TD_FSYNCING
           /\ runstate' = [runstate EXCEPT ![j] = TD_EXITED]
    BY DEF JobExited, JobGoesTo, JobState

LEMMA WorkMoves ==
    ASSUME NEW j \in Jobs, JobWork(j), JobState(j)
    PROVE  /\ runstate[j] \in TD_RAMP .. TD_FSYNCING
           /\ \E s \in TD_RAMP .. TD_FSYNCING : runstate' = [runstate EXCEPT ![j] = s]
<1>1. runstate[j] \in TD_RAMP .. TD_FSYNCING
    BY DEF JobWork, JobState
<1>2. PICK s \in BusyStates : runstate' = [runstate EXCEPT ![j] = s]
    BY ZenonT(30) DEF JobWork
<1>3. s \in TD_RAMP .. TD_FSYNCING
    BY BackendAssumption
<1> QED
    BY <1>1, <1>2, <1>3, ZenonT(30)

\* A step keeps it.
LEMMA MainStatesStep ==
    ASSUME TypeOK, JobStates, MainStates, [Next]_vars
    PROVE  MainStates'
<1>0. NJobs \in Nat
    BY BackendAssumption
<1> USE <1>0 DEF TD_NOT_CREATED, TD_CREATED, TD_INITIALIZED, TD_RAMP, TD_RUNNING,
          TD_PRE_READING, TD_VERIFYING, TD_FSYNCING, TD_EXITED, TD_REAPED
<1>1. /\ runstate \in [Jobs -> 0 .. 9] /\ map \subseteq Jobs
      /\ i \in 1 .. NJobs + 1 /\ start_failed \in BOOLEAN
    BY DEF TypeOK
<1>2. CASE UNCHANGED <<pc, i, start_failed, map, runstate>>
    BY <1>2 DEF MainStates, Starting
<1>3. CASE SetupFiles
    BY <1>1, <1>3 DEF SetupFiles, MainStates, Starting, Jobs, tdVars
<1>4. CASE EndSetup
    BY <1>1, <1>4 DEF EndSetup, MainStates, Starting, Jobs, tdVars
<1>5. CASE PassOver
    BY <1>1, <1>5 DEF PassOver, MainStates, Starting, Jobs, tdVars
<1>6. CASE NeverStarted
    BY <1>1, <1>6 DEF NeverStarted, MainStates, Starting, Jobs, tdVars
<1>7. CASE EndCreate
    BY <1>1, <1>7 DEF EndCreate, MainStates, Starting, Jobs, tdVars
<1>8. CASE CreateJob
    BY <1>1, <1>8 DEF CreateJob, MayCreate, MainStates, Starting, Jobs, tdVars
<1>9. CASE StartupDone
    BY <1>1, <1>9 DEF StartupDone, MainStates, Starting, Jobs, tdVars
<1>10. CASE StartupTimeout
    BY <1>1, <1>10 DEF StartupTimeout, MainStates, Starting, Jobs, tdVars
<1>11. CASE AllStarted
    BY <1>1, <1>11 DEF AllStarted, MainStates, Starting, Jobs, tdVars
<1>12. CASE StartFailed
    BY <1>1, <1>12 DEF StartFailed, MainStates, Starting, Jobs, tdVars
<1>13. CASE PassStart
    BY <1>1, <1>13 DEF PassStart, MainStates, Starting, Jobs, tdVars
<1>14. CASE StartJob
  <2>1. /\ pc = "start" /\ i \in Jobs /\ i' = i + 1
        /\ UNCHANGED <<pc, map, start_failed>>
    BY <1>14 DEF StartJob
  <2>2. PICK r \in {TD_RAMP, TD_RUNNING} : runstate' = [runstate EXCEPT ![i] = r]
    BY <1>14, ZenonT(30) DEF StartJob
  <2> QED
    BY <1>1, <2>1, <2>2 DEF MainStates, Starting, Jobs
<1>15. CASE EndStart
  <2>1. /\ pc = "start" /\ pc' = "reap" /\ i' = 1
        /\ UNCHANGED <<runstate, map, start_failed>>
    BY <1>15 DEF EndStart, tdVars
  <2>2. map = {} /\ \A j \in Jobs : runstate[j] \notin {TD_CREATED, TD_INITIALIZED}
    BY <1>1, <1>15, <2>1 DEF EndStart, MainStates, Jobs
  <2> QED
    BY <2>1, <2>2 DEF MainStates, Starting
<1>16. CASE ReapJob
  <2>1. /\ pc = "reap" /\ i \in Jobs
        /\ runstate' = [runstate EXCEPT ![i] = TD_REAPED]
        /\ UNCHANGED <<pc, map, start_failed>>
    BY <1>16 DEF ReapJob
  <2>2. Starting = {} => Starting' = {}
    BY <1>1, <2>1 DEF Starting
  <2> QED
    BY <1>1, <2>1, <2>2 DEF MainStates
<1>17. CASE LeaveJob
    BY <1>1, <1>17 DEF LeaveJob, MainStates, Starting, Jobs, tdVars
<1>18. CASE EndReap
    BY <1>1, <1>18 DEF EndReap, AfterReap, MainStates, Starting, Jobs, tdVars
<1>19. CASE \E j \in Jobs : PollJob(j)
    BY <1>1, <1>19 DEF PollJob, MainStates, Starting, tdVars
<1>20. CASE \E j \in Jobs : JobInit(j)
  <2> PICK j \in Jobs : JobInit(j)
    BY <1>20
  <2>1. JobState(j)
    BY DEF JobStates
  <2>2. UNCHANGED <<pc, i, start_failed, map>>
    BY DEF JobInit, mainVars
  <2> QED
    BY <1>1, <2>1, <2>2, InitMoves DEF MainStates, Starting
<1>21. CASE \E j \in Jobs : JobExited(j)
  <2> PICK j \in Jobs : JobExited(j)
    BY <1>21
  <2>1. JobState(j)
    BY DEF JobStates
  <2>2. UNCHANGED <<pc, i, start_failed, map>>
    BY DEF JobExited, mainVars
  <2> QED
    BY <1>1, <2>1, <2>2, ExitedMoves DEF MainStates, Starting
<1>22. CASE \E j \in Jobs : JobWork(j)
  <2> PICK j \in Jobs : JobWork(j)
    BY <1>22
  <2>1. JobState(j)
    BY DEF JobStates
  <2>2. UNCHANGED <<pc, i, start_failed, map>>
    BY DEF JobWork, mainVars
  <2>3. PICK s \in TD_RAMP .. TD_FSYNCING : runstate' = [runstate EXCEPT ![j] = s]
    BY <2>1, WorkMoves
  <2>4. runstate[j] \in TD_RAMP .. TD_FSYNCING
    BY <2>1, WorkMoves
  <2> QED
    BY <1>1, <2>2, <2>3, <2>4 DEF MainStates, Starting
<1>23. CASE \E j \in Jobs :
             \/ JobStart(j) \/ JobPost(j) \/ JobGo(j) \/ JobSetup(j) \/ JobDone(j)
             \/ JobFails(j) \/ JobExitall(j) \/ JobClose(j) \/ ProcessExits(j)
             \/ Crash(j) \/ DelayElapses(j)
    BY <1>2, <1>23, ZenonT(30) DEF JobStart, JobPost, JobGo, JobSetup, JobDone, JobFails,
       JobExitall, JobClose, ProcessExits, Crash, DelayElapses, tdVars, mainVars
<1>24. CASE \E p \in Jobs \cup {Main} : sig_int(p)
    BY <1>2, <1>24 DEF sig_int, mainVars
<1>25. CASE Interrupt \/ UNCHANGED vars
    BY <1>2, <1>25 DEF Interrupt, vars, tdVars, mainVars
<1> QED
    BY <1>3, <1>4, <1>5, <1>6, <1>7, <1>8, <1>9, <1>10, <1>11, <1>12,
       <1>13, <1>14, <1>15, <1>16, <1>17, <1>18, <1>19, <1>20, <1>21, <1>22,
       <1>23, <1>24, <1>25
    DEF Next, run_threads, thread_main

-----------------------------------------------------------------------------
(* The counts.                                                             *)

\* A set of jobs is finite and too small for a counter of it to wrap.
LEMMA JobSets ==
    ASSUME NEW S \in SUBSET Jobs
    PROVE  /\ IsFiniteSet(S)
           /\ Cardinality(S) \in Nat
           /\ Cardinality(S) < UINT_MAX
<1>1. IsFiniteSet(Jobs) /\ Cardinality(Jobs) = NJobs
    BY FS_Interval, BackendAssumption DEF Jobs
<1>2. IsFiniteSet(S) /\ Cardinality(S) <= Cardinality(Jobs)
    BY <1>1, FS_Subset
<1>3. Cardinality(S) \in Nat
    BY <1>2, FS_CardinalityType
<1> QED
    BY <1>1, <1>2, <1>3, BackendAssumption

\* Counting a job in, or out, follows a set of jobs that gains, or loses, it.
LEMMA CountIn ==
    ASSUME NEW S \in SUBSET Jobs, NEW j \in Jobs, j \notin S
    PROVE  Inc(Cardinality(S)) = Cardinality(S \cup {j})
<1>1. Cardinality(S \cup {j}) = Cardinality(S) + 1
    BY JobSets, FS_AddElement
<1>2. Cardinality(S) \in Nat /\ Cardinality(S) < UINT_MAX
    BY JobSets
<1> QED
    BY <1>1, <1>2, BackendAssumption DEF Inc

LEMMA CountOut ==
    ASSUME NEW S \in SUBSET Jobs, NEW j \in S
    PROVE  Dec(Cardinality(S)) = Cardinality(S \ {j})
<1>1. Cardinality(S \ {j}) = Cardinality(S) - 1
    BY JobSets, FS_RemoveElement
<1>2. Cardinality(S) \in Nat /\ Cardinality(S \ {j}) \in Nat
    BY JobSets
<1> QED
    BY <1>1, <1>2 DEF Dec

\* A step that leaves the counts alone and neither starts nor reaps a job.
LEMMA SameCounts ==
    ASSUME NrRunningExact, TodoExact,
           Working' = Working, Unstarted' = Unstarted,
           UNCHANGED <<nr_running, todo, start_failed>>,
           \A j \in Jobs : terminate[j] => terminate'[j]
    PROVE  NrRunningExact' /\ TodoExact'
BY DEF NrRunningExact, TodoExact

\* Nobody takes terminate back.
LEMMA TerminateStays ==
    ASSUME TypeOK, NEW g, NEW S, fio_terminate_threads(g, S)
    PROVE  \A j \in Jobs : terminate[j] => terminate'[j]
BY DEF fio_terminate_threads, TypeOK

\* A step keeps nr_running and todo exact.
LEMMA CountsStep ==
    ASSUME IInv, [Next]_vars
    PROVE  NrRunningExact' /\ TodoExact'
<1> USE DEF TD_NOT_CREATED, TD_CREATED, TD_INITIALIZED, TD_RAMP, TD_RUNNING,
          TD_PRE_READING, TD_VERIFYING, TD_FSYNCING, TD_EXITED, TD_REAPED
<1>1. /\ runstate \in [Jobs -> 0 .. 9] /\ map \subseteq Jobs
      /\ terminate \in [Jobs -> BOOLEAN] /\ start_failed \in BOOLEAN
      /\ TypeOK /\ JobStates /\ MainStates /\ NrRunningExact /\ TodoExact
    BY DEF IInv, TypeOK
<1>2. Working \in SUBSET Jobs /\ Unstarted \in SUBSET Jobs
    BY DEF Working, Unstarted
<1>3. ASSUME UNCHANGED <<runstate, nr_running, todo, start_failed>>,
             \A j \in Jobs : terminate[j] => terminate'[j]
      PROVE  NrRunningExact' /\ TodoExact'
    BY <1>1, <1>3, SameCounts DEF Working, Unstarted
<1>4. CASE SetupFiles
  <2>1. /\ i \in Jobs /\ runstate[i] = TD_NOT_CREATED
        /\ UNCHANGED <<terminate, nr_running, start_failed>>
    BY <1>1, <1>4 DEF SetupFiles, MainStates, Jobs
  <2>2. CASE UNCHANGED <<exit_value, runstate, todo>>
    BY <1>3, <2>1, <2>2
  <2>3. CASE runstate' = [runstate EXCEPT ![i] = TD_REAPED] /\ todo' = Dec(todo)
    <3>1. Working' = Working /\ i \in Unstarted /\ Unstarted' = Unstarted \ {i}
      BY <1>1, <2>1, <2>3 DEF Working, Unstarted
    <3>2. Dec(Cardinality(Unstarted)) = Cardinality(Unstarted \ {i})
      BY <1>2, <3>1, CountOut
    <3> QED
      BY <1>1, <2>1, <2>3, <3>1, <3>2 DEF NrRunningExact, TodoExact
  <2> QED
    BY <1>4, <2>2, <2>3 DEF SetupFiles
<1>5. CASE NeverStarted
  <2>1. i \in Jobs /\ terminate'[i]
    BY <1>5 DEF NeverStarted, tdVars
  <2>2. UNCHANGED <<runstate, nr_running, start_failed>>
    BY <1>5 DEF NeverStarted, tdVars
  <2> QED
    BY <1>1, <2>1, <2>2 DEF NrRunningExact, TodoExact, Working
<1>6. CASE CreateJob
  <2>1. /\ i \in Jobs /\ runstate[i] = TD_NOT_CREATED
        /\ runstate' = [runstate EXCEPT ![i] = TD_CREATED]
        /\ UNCHANGED <<terminate, nr_running, todo, start_failed>>
    BY <1>6 DEF CreateJob, MayCreate
  <2>2. Working' = Working /\ Unstarted' = Unstarted
    BY <1>1, <2>1 DEF Working, Unstarted
  <2> QED
    BY <1>1, <2>1, <2>2, SameCounts
<1>7. CASE \E j \in Jobs : PollJob(j)
  <2> PICK j \in Jobs : PollJob(j)
    BY <1>7
  <2>1. runstate[j] \in {TD_CREATED, TD_INITIALIZED}
    BY <1>1 DEF PollJob, MainStates
  <2>2. ~(runstate[j] >= TD_EXITED)
    BY <2>1
  <2> QED
    BY <1>3, <2>2 DEF PollJob, tdVars
<1>8. CASE StartJob
  <2>1. /\ i \in Jobs /\ runstate[i] = TD_INITIALIZED
        /\ nr_running' = Inc(nr_running) /\ todo' = Dec(todo)
        /\ UNCHANGED <<terminate, start_failed>>
    BY <1>8 DEF StartJob
  <2>2. PICK r \in {TD_RAMP, TD_RUNNING} : runstate' = [runstate EXCEPT ![i] = r]
    BY <1>8, ZenonT(30) DEF StartJob
  <2>3. /\ i \notin Working /\ Working' = Working \cup {i}
        /\ i \in Unstarted /\ Unstarted' = Unstarted \ {i}
    BY <1>1, <2>1, <2>2 DEF Working, Unstarted
  <2>4. Inc(Cardinality(Working)) = Cardinality(Working \cup {i})
    BY <1>2, <2>1, <2>3, CountIn
  <2>5. Dec(Cardinality(Unstarted)) = Cardinality(Unstarted \ {i})
    BY <1>2, <2>3, CountOut
  <2> QED
    BY <1>1, <2>1, <2>3, <2>4, <2>5 DEF NrRunningExact, TodoExact
<1>9. CASE ReapJob
  <2> SUFFICES ASSUME ~start_failed
               PROVE  NrRunningExact' /\ TodoExact'
    BY <1>9 DEF ReapJob, NrRunningExact, TodoExact
  <2>1. /\ i \in Jobs /\ Reapable(i) /\ pc = "reap"
        /\ runstate' = [runstate EXCEPT ![i] = TD_REAPED]
        /\ nr_running' = Dec(nr_running)
        /\ UNCHANGED <<terminate, todo, start_failed>>
    BY <1>9 DEF ReapJob
  <2>2. runstate[i] \notin {TD_CREATED, TD_INITIALIZED}
    BY <1>1, <2>1 DEF MainStates, Starting
  <2>3. runstate[i] \notin {TD_NOT_CREATED, TD_REAPED}
    <3>1. pid[i] /\ runstate[i] # TD_REAPED
      BY <2>1 DEF Reapable
    <3>2. jpc[i] # "none"
      BY <1>1, <2>1, <3>1 DEF JobStates, JobState
    <3>3. jpc[i] \in {"start", "init", "post", "sem", "setup", "run", "exitall", "exit",
                     "closed", "done", "dead"}
      BY <1>1, <2>1, <3>2, JobTypes
    <3>4. JobState(i)
      BY <1>1, <2>1 DEF JobStates
    <3> QED
      BY <3>1, <3>3, <3>4 DEF JobState
  <2>4. i \in Working /\ Working' = Working \ {i} /\ Unstarted' = Unstarted
    BY <1>1, <2>1, <2>2, <2>3 DEF Working, Unstarted
  <2>5. Dec(Cardinality(Working)) = Cardinality(Working \ {i})
    BY <1>2, <2>4, CountOut
  <2> QED
    BY <1>1, <2>1, <2>4, <2>5 DEF NrRunningExact, TodoExact
<1>10. CASE StartFailed
    BY <1>10 DEF StartFailed, NrRunningExact, TodoExact
<1>11. CASE \E j \in Jobs : JobInit(j)
  <2> PICK j \in Jobs : JobInit(j)
    BY <1>11
  <2>1. JobState(j)
    BY <1>1 DEF JobStates
  <2>2. UNCHANGED <<terminate, nr_running, todo, start_failed>>
    BY DEF JobInit, mainVars
  <2>3. Working' = Working /\ Unstarted' = Unstarted
    BY <1>1, <2>1, InitMoves DEF Working, Unstarted
  <2> QED
    BY <1>1, <2>2, <2>3, SameCounts
<1>12. CASE \E j \in Jobs : JobExited(j)
  <2> PICK j \in Jobs : JobExited(j)
    BY <1>12
  <2>1. JobState(j)
    BY <1>1 DEF JobStates
  <2>2. UNCHANGED <<terminate, nr_running, todo, start_failed>>
    BY DEF JobExited, mainVars
  <2>3. Working' = Working /\ Unstarted' = Unstarted
    BY <1>1, <2>1, ExitedMoves DEF Working, Unstarted
  <2> QED
    BY <1>1, <2>2, <2>3, SameCounts
<1>13. CASE \E j \in Jobs : JobWork(j)
  <2> PICK j \in Jobs : JobWork(j)
    BY <1>13
  <2>1. JobState(j)
    BY <1>1 DEF JobStates
  <2>2. UNCHANGED <<terminate, nr_running, todo, start_failed>>
    BY DEF JobWork, mainVars
  <2>a. /\ runstate[j] \in TD_RAMP .. TD_FSYNCING
        /\ runstate'[j] \in TD_RAMP .. TD_FSYNCING
        /\ \A k \in Jobs : k # j => runstate'[k] = runstate[k]
    BY <1>1, <2>1, WorkMoves
  <2>3. Working' = Working /\ Unstarted' = Unstarted
    BY <2>a DEF Working, Unstarted
  <2> QED
    BY <1>1, <2>2, <2>3, SameCounts
<1>14. CASE StartupTimeout \/ EndReap
    BY <1>1, <1>3, <1>14, TerminateStays DEF StartupTimeout, EndReap
<1>15. CASE \E j \in Jobs : JobExitall(j)
    BY <1>1, <1>3, <1>15, TerminateStays DEF JobExitall, mainVars
<1>16. CASE \E p \in Jobs \cup {Main} : sig_int(p)
    BY <1>1, <1>3, <1>16, TerminateStays DEF sig_int, mainVars
<1>17. CASE \/ EndSetup \/ PassOver \/ EndCreate \/ StartupDone \/ AllStarted
          \/ PassStart \/ EndStart \/ LeaveJob \/ Interrupt \/ UNCHANGED vars
    BY <1>3, <1>17, ZenonT(30) DEF EndSetup, PassOver, EndCreate, StartupDone, AllStarted,
       PassStart, EndStart, LeaveJob, Interrupt, vars, tdVars, mainVars
<1>18. CASE \E j \in Jobs :
             \/ JobStart(j) \/ JobPost(j) \/ JobGo(j) \/ JobSetup(j) \/ JobDone(j)
             \/ JobFails(j) \/ JobClose(j) \/ ProcessExits(j) \/ Crash(j)
             \/ DelayElapses(j)
    BY <1>3, <1>18, ZenonT(30) DEF JobStart, JobPost, JobGo, JobSetup, JobDone, JobFails,
       JobClose, ProcessExits, Crash, DelayElapses, tdVars, mainVars
<1> QED
    BY <1>4, <1>5, <1>6, <1>7, <1>8, <1>9, <1>10, <1>11, <1>12, <1>13, <1>14,
       <1>15, <1>16, <1>17, <1>18
    DEF Next, run_threads, thread_main

-----------------------------------------------------------------------------
(* The theorems.                                                           *)

\* fio starts with nothing created and everything to do.
LEMMA InitIInv == Init => IInv
<1> SUFFICES ASSUME Init
             PROVE  IInv
    OBVIOUS
<1> USE BackendAssumption DEF Init, TD_NOT_CREATED, TD_CREATED, TD_INITIALIZED, TD_RAMP, TD_RUNNING,
          TD_PRE_READING, TD_VERIFYING, TD_FSYNCING, TD_EXITED, TD_REAPED
<1>1. \A j \in Jobs : start_delay[j] \in BOOLEAN
    BY DEF JobOptions
<1>2. TypeOK
  <2>1. start_delay \in [Jobs -> BOOLEAN]
    BY <1>1
  <2>2. /\ runstate \in [Jobs -> TD_NOT_CREATED .. TD_REAPED]
        /\ mutex \in [Jobs -> Nat]
    OBVIOUS
  <2>3. /\ count \in [cputhreads : Nat, realthreads : Nat, pending : Nat]
        /\ i \in 1 .. NJobs + 1
        /\ todo \in 0 .. UINT_MAX /\ nr_started \in 0 .. UINT_MAX
        /\ nr_running \in 0 .. UINT_MAX
    BY DEF NoCount
  <2> QED
    BY <2>1, <2>2, <2>3, ZenonT(30) DEF TypeOK
<1>3. JobStates /\ MainStates
    BY ZenonT(30) DEF JobStates, JobState, MainStates
<1>4. Working = {} /\ Unstarted = Jobs
    BY DEF Working, Unstarted
<1>a. Cardinality({}) = 0
    BY FS_EmptySet
<1>b. Cardinality(Jobs) = NJobs
    BY FS_Interval DEF Jobs
<1>5. Cardinality(Working) = 0 /\ Cardinality(Unstarted) = NJobs
    BY <1>4, <1>a, <1>b
<1>6. NrRunningExact /\ TodoExact
    BY <1>5 DEF NrRunningExact, TodoExact
<1> QED
    BY <1>2, <1>3, <1>6 DEF IInv

LEMMA NextIInv == IInv /\ [Next]_vars => IInv'
BY TypeStep, JobStatesStep, MainStatesStep, CountsStep DEF IInv

\* The inductive invariant: the types, what a job's place in thread_main and
\* run_threads' place in its loops tell of the runstates, and the exact counts.
THEOREM BackendInvariance == Spec => []IInv
<1>1. Init => IInv
    BY InitIInv
<1>2. IInv /\ [Next]_vars => IInv'
    BY NextIInv
<1> QED
    BY <1>1, <1>2, PTL DEF Spec

\* Every variable of run_threads and of the jobs keeps its type; the unsigned
\* counters keep their range.
THEOREM BackendTypes == Spec => []TypeOK
<1>1. IInv => TypeOK
    BY DEF IInv
<1> QED
    BY <1>1, BackendInvariance, PTL

\* Unless starting the jobs failed, nr_running is the number of jobs started and
\* not reaped, so that run_threads waits for exactly those.
THEOREM RunningIsCounted == Spec => []NrRunningExact
<1>1. IInv => NrRunningExact
    BY DEF IInv
<1> QED
    BY <1>1, BackendInvariance, PTL

\* Unless starting the jobs failed or a job is terminated, todo is the number of
\* jobs still to start, so that run_threads stops creating jobs with the last.
THEOREM TodoIsCounted == Spec => []TodoExact
<1>1. IInv => TodoExact
    BY DEF IInv
<1> QED
    BY <1>1, BackendInvariance, PTL

\* A step takes no job back behind TD_INITIALIZED, and one that has exited
\* nowhere but to TD_REAPED.
LEMMA LifeCycleNext == IInv /\ [Next]_vars => LifeCycleStep
<1> SUFFICES ASSUME IInv, [Next]_vars, NEW k \in Jobs
             PROVE  /\ runstate[k] > TD_INITIALIZED => runstate'[k] > TD_INITIALIZED
                    /\ runstate[k] >= TD_EXITED =>
                          runstate'[k] \in {runstate[k], TD_REAPED}
    BY DEF LifeCycleStep
<1> USE DEF TD_NOT_CREATED, TD_CREATED, TD_INITIALIZED, TD_RAMP, TD_RUNNING,
            TD_FSYNCING, TD_EXITED, TD_REAPED
<1>1. runstate \in [Jobs -> 0 .. 9] /\ (\A j \in Jobs : JobState(j)) /\ MainStates
    BY DEF IInv, TypeOK, JobStates
<1>2. CASE runstate' = runstate
    BY <1>1, <1>2
<1>3. CASE SetupFiles
    BY <1>1, <1>3 DEF SetupFiles
<1>4. CASE CreateJob
  <2>1. /\ runstate[i] = TD_NOT_CREATED
        /\ runstate' = [runstate EXCEPT ![i] = TD_CREATED]
    BY <1>4 DEF CreateJob, MayCreate
  <2> QED
    BY <1>1, <2>1
<1>5. CASE StartJob
    BY <1>1, <1>5 DEF StartJob
<1>6. CASE ReapJob
    BY <1>1, <1>6 DEF ReapJob
<1>7. CASE \E j \in Jobs : JobInit(j)
    BY <1>1, <1>7, InitMoves
<1>8. CASE \E j \in Jobs : JobExited(j)
    BY <1>1, <1>8, ExitedMoves
<1>9. CASE \E j \in Jobs : JobWork(j)
    BY <1>1, <1>9, WorkMoves
<1>10. CASE \/ EndSetup \/ PassOver \/ NeverStarted \/ EndCreate \/ StartupDone
          \/ StartupTimeout \/ AllStarted \/ StartFailed \/ PassStart
          \/ EndStart \/ LeaveJob \/ EndReap \/ Interrupt \/ UNCHANGED vars
    BY <1>2, <1>10, ZenonT(30) DEF EndSetup, PassOver, NeverStarted, EndCreate, StartupDone,
       StartupTimeout, AllStarted, StartFailed, PassStart, EndStart, LeaveJob,
       EndReap, Interrupt, vars, tdVars
<1>11. CASE \E j \in Jobs :
             \/ PollJob(j) \/ JobStart(j) \/ JobPost(j) \/ JobGo(j) \/ JobSetup(j)
             \/ JobDone(j) \/ JobFails(j) \/ JobExitall(j) \/ JobClose(j)
             \/ ProcessExits(j) \/ Crash(j) \/ DelayElapses(j)
    BY <1>2, <1>11, ZenonT(30) DEF PollJob, JobStart, JobPost, JobGo, JobSetup, JobDone,
       JobFails, JobExitall, JobClose, ProcessExits, Crash, DelayElapses, tdVars
<1>12. CASE \E p \in Jobs \cup {Main} : sig_int(p)
    BY <1>2, <1>12 DEF sig_int
<1> QED
    BY <1>3, <1>4, <1>5, <1>6, <1>7, <1>8, <1>9, <1>10, <1>11, <1>12, ZenonT(30)
    DEF Next, run_threads, thread_main

\* fio.h, "Thread life cycle": a job that run_threads has started never goes back
\* behind TD_INITIALIZED, and one that has exited is only reaped.
THEOREM RunstatesFollowLifeCycle == Spec => LifeCycle
<1>1. IInv /\ [Next]_vars => [LifeCycleStep]_vars
    BY LifeCycleNext
<1> QED
    BY <1>1, BackendInvariance, PTL DEF Spec, LifeCycle

=============================================================================
