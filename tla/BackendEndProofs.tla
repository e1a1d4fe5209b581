------------------------- MODULE BackendEndProofs --------------------------
(***************************************************************************)
(* Proofs about how Backend ends: when run_threads is done every job was   *)
(* reaped and every error is in exit_value, and a stonewall waits for what *)
(* is in front of it.                                                      *)
(***************************************************************************)
EXTENDS BackendProofs

\* The time a leaf may take.
USE SMTT(30), ZenonT(30)

-----------------------------------------------------------------------------
(* What the end of fio rests on.                                           *)

\* No job file has a start_delay.
DelayFree == \A f \in Options : \A j \in Jobs : ~f[j].start_delay

\* Every job file is one group, so that exitall means all jobs.
OneGroup ==
    \A f \in Options : \A j \in 2 .. NJobs : ~f[j].stonewall /\ ~f[j].new_group

\* Whoever terminates a job terminates all of them.
EndsWhole == ~exitall \/ OneGroup

\* The creating loop is done with job j.
Settled(j) == runstate[j] # TD_NOT_CREATED \/ terminate[j]

NoDelays == DelayFree => \A j \in Jobs : ~start_delay[j]

\* Jobs are terminated up to the last one ...
TerminatedRest == \A j, k \in Jobs : j < k /\ terminate[j] => terminate[k]

\* ... or all together.
TerminatedAll == EndsWhole => \A j, k \in Jobs : terminate[j] => terminate[k]

\* Without start delays the creating scan leaves no job behind.
ScanPassed ==
    DelayFree =>
        /\ pc \in {"create", "startup"} => \A j \in Jobs : j < i => Settled(j)
        /\ pc = "startup" => runstate[i] # TD_NOT_CREATED

\* todo may be too low once jobs are terminated, NeverStarted counts them once a
\* round; by then the creating loop has nothing left to do.
TodoTells ==
    (DelayFree \/ EndsWhole) /\ ~start_failed =>
        \/ todo = Cardinality(Unstarted)
        \/ \A j \in Jobs : Settled(j)

\* The jobs whose thread or process could not be created.
NeverUp == {j \in map : runstate[j] = TD_CREATED /\ jpc[j] = "none"}

\* nr_started is the number of jobs on their way up, unless the round is bound
\* to fail.
StartedExact ==
    /\ pc = "startup" => i \in map
    /\ ~start_failed =>
          \/ nr_started = Cardinality(Starting)
          \/ pc = "wait" /\ map # {} /\ (fio_abort \/ NeverUp # {})

\* Every error of a reaped job is in exit_value.
ErrorsCounted ==
    \A j \in Jobs : error[j] /\ runstate[j] = TD_REAPED => exit_value # 0

EndInv ==
    /\ NoDelays /\ TerminatedRest /\ TerminatedAll
    /\ ScanPassed /\ TodoTells /\ StartedExact /\ ErrorsCounted
    /\ DelayFree \/ EndsWhole => FinishedMeansReaped

-----------------------------------------------------------------------------
(* Groups and termination.                                                 *)

\* The jobs in front of job j that open a group, j included.
LEMMA GroupSets ==
    ASSUME NEW j \in Jobs
    PROVE  IsFiniteSet({k \in 2 .. j : o[k].stonewall \/ o[k].new_group})
<1>1. IsFiniteSet(2 .. j)
    BY FS_Interval DEF Jobs
<1>2. {k \in 2 .. j : o[k].stonewall \/ o[k].new_group} \subseteq 2 .. j
    OBVIOUS
<1> QED
    BY <1>1, <1>2, FS_Subset, ZenonT(30)

\* The last group reaches to the last job.
LEMMA LastGroup ==
    ASSUME NEW j \in Jobs, NEW k \in Jobs, j < k, groupid = td_groupid(j)
    PROVE  groupid = td_groupid(k)
<1> DEFINE G(n) == {m \in 2 .. n : o[m].stonewall \/ o[m].new_group}
<1>1. NJobs \in Jobs /\ k <= NJobs /\ j \in Nat /\ k \in Nat /\ NJobs \in Nat
    BY BackendAssumption DEF Jobs
<1>2. IsFiniteSet(G(j)) /\ IsFiniteSet(G(k)) /\ IsFiniteSet(G(NJobs))
    BY <1>1, GroupSets
<1>3. G(j) \subseteq G(k) /\ G(k) \subseteq G(NJobs) /\ G(j) \subseteq G(NJobs)
    BY <1>1
<1>4. Cardinality(G(NJobs)) = Cardinality(G(j))
    BY DEF groupid, td_groupid
<1> HIDE DEF G
<1>5. G(j) = G(NJobs)
    BY <1>2, <1>3, <1>4, FS_Subset
<1>6. G(k) = G(NJobs)
    BY <1>3, <1>5
<1> QED
    BY <1>6 DEF groupid, td_groupid, G

\* If there is one group it is the last one.
LEMMA OnlyGroup ==
    ASSUME TypeOK, OneGroup, NEW j \in Jobs
    PROVE  groupid = td_groupid(j)
<1> DEFINE G(n) == {m \in 2 .. n : o[m].stonewall \/ o[m].new_group}
<1>1. NJobs \in Jobs /\ j <= NJobs /\ j \in Nat /\ NJobs \in Nat
    BY BackendAssumption DEF Jobs
<1>2. \A m \in 2 .. NJobs : ~o[m].stonewall /\ ~o[m].new_group
    BY DEF OneGroup, TypeOK
<1>3. G(j) = {} /\ G(NJobs) = {}
    BY <1>1, <1>2
<1> QED
    BY <1>3 DEF groupid, td_groupid

\* What fio_terminate_threads does to the jobs.
LEMMA Terminates ==
    ASSUME TypeOK, NEW g, NEW S, fio_terminate_threads(g, S)
    PROVE  /\ \A j \in Jobs : terminate'[j] <=> terminate[j] \/ j \in Matched(g)
           /\ \A j \in Jobs : start_delay'[j] => start_delay[j]
BY ZenonT(30) DEF fio_terminate_threads, TypeOK

LEMMA TerminatesAll ==
    ASSUME TypeOK, NEW S, fio_terminate_threads(TERMINATE_ALL, S)
    PROVE  /\ \A j \in Jobs : terminate'[j]
           /\ \A j \in Jobs : start_delay'[j] => start_delay[j]
<1>1. Matched(TERMINATE_ALL) = Jobs
    BY DEF Matched, TERMINATE_ALL
<1> QED
    BY <1>1, Terminates

LEMMA TerminatesGroup ==
    ASSUME TypeOK, NEW j \in Jobs, NEW S, fio_terminate_threads(td_groupid(j), S)
    PROVE  /\ \A k \in Jobs : terminate'[k] <=> terminate[k] \/ groupid = td_groupid(k)
           /\ \A k \in Jobs : start_delay'[k] => start_delay[k]
<1>1. td_groupid(j) \in Nat
    BY GroupSets, FS_CardinalityType DEF td_groupid
<1>2. td_groupid(j) # -1
    BY <1>1
<1>3. Matched(td_groupid(j)) = {k \in Jobs : groupid = td_groupid(k)}
    BY <1>2 DEF Matched
<1> QED
    BY <1>3, Terminates

\* A step leaves the jobs' terminate alone, sets it for all of them or, when a
\* job ends with exitall, for the last group.
LEMMA TerminateMoves ==
    ASSUME TypeOK, [Next]_vars
    PROVE  /\ \A k \in Jobs : start_delay'[k] => start_delay[k]
           /\ \/ terminate' = terminate
              \/ \A k \in Jobs : terminate'[k]
              \/ /\ exitall
                 /\ \A k \in Jobs :
                       terminate'[k] <=> terminate[k] \/ groupid = td_groupid(k)
<1>1. CASE StartupTimeout
    BY <1>1, TerminatesAll DEF StartupTimeout
<1>2. CASE EndReap
    BY <1>2, TerminatesAll DEF EndReap
<1>3. CASE \E p \in Jobs \cup {Main} : sig_int(p)
    BY <1>3, TerminatesAll DEF sig_int
<1>4. CASE \E j \in Jobs : JobExitall(j)
    BY <1>4, TerminatesGroup DEF JobExitall
<1>5. CASE \E j \in Jobs : DelayElapses(j)
    BY <1>5 DEF DelayElapses, TypeOK
<1>6. CASE UNCHANGED <<terminate, start_delay>>
    BY <1>6
<1>7. CASE \/ SetupFiles \/ EndSetup \/ PassOver \/ NeverStarted \/ EndCreate
           \/ CreateJob \/ StartupDone \/ AllStarted \/ StartFailed \/ PassStart
           \/ StartJob \/ EndStart \/ ReapJob \/ LeaveJob \/ Interrupt
           \/ UNCHANGED vars
    BY <1>6, <1>7, ZenonT(30) DEF SetupFiles, EndSetup, PassOver, NeverStarted, EndCreate,
       CreateJob, StartupDone, AllStarted, StartFailed, PassStart, StartJob,
       EndStart, ReapJob, LeaveJob, Interrupt, vars, tdVars
<1>8. CASE \E j \in Jobs :
             \/ PollJob(j) \/ JobStart(j) \/ JobInit(j) \/ JobPost(j) \/ JobGo(j)
             \/ JobSetup(j) \/ JobDone(j) \/ JobFails(j) \/ JobClose(j)
             \/ JobExited(j) \/ ProcessExits(j) \/ JobWork(j) \/ Crash(j)
    BY <1>6, <1>8 DEF PollJob, JobStart, JobInit, JobPost, JobGo, JobSetup, JobDone,
       JobFails, JobClose, JobExited, ProcessExits, JobWork, Crash, tdVars
<1> QED
    BY <1>1, <1>2, <1>3, <1>4, <1>5, <1>7, <1>8 DEF Next, run_threads, thread_main

\* A step takes no terminate back, and terminates the rest or all with a job.
LEMMA TerminatedStep ==
    ASSUME TypeOK, EndInv, [Next]_vars
    PROVE  /\ NoDelays' /\ TerminatedRest' /\ TerminatedAll'
           /\ \A j \in Jobs : terminate[j] => terminate'[j]
<1>1. NoDelays /\ TerminatedRest /\ TerminatedAll
    BY DEF EndInv
<1>2. NoDelays'
    BY <1>1, TerminateMoves DEF NoDelays, DelayFree
<1>3. CASE terminate' = terminate
    BY <1>1, <1>2, <1>3 DEF TerminatedRest, TerminatedAll, EndsWhole, OneGroup
<1>4. CASE \A k \in Jobs : terminate'[k]
    BY <1>2, <1>4 DEF TerminatedRest, TerminatedAll
<1>5. CASE /\ exitall
           /\ \A k \in Jobs :
                 terminate'[k] <=> terminate[k] \/ groupid = td_groupid(k)
  <2>1. TerminatedRest'
    BY <1>1, <1>5, LastGroup DEF TerminatedRest
  <2>2. TerminatedAll'
    BY <1>1, <1>5, OnlyGroup DEF TerminatedAll, EndsWhole
  <2> QED
    BY <1>2, <1>5, <2>1, <2>2
<1> QED
    BY <1>3, <1>4, <1>5, TerminateMoves

-----------------------------------------------------------------------------
(* Runstates and the creating scan.                                        *)

\* What a step makes of a runstate, and who makes it.
RunstateStep(k) ==
    \/ runstate'[k] = runstate[k]
    \/ /\ pc = "setup" /\ runstate[k] = TD_NOT_CREATED
       /\ runstate'[k] = TD_REAPED
    \/ /\ pc = "create" /\ runstate[k] = TD_NOT_CREATED
       /\ runstate'[k] = TD_CREATED
    \/ runstate[k] = TD_CREATED /\ runstate'[k] = TD_INITIALIZED
    \/ runstate[k] = TD_INITIALIZED /\ runstate'[k] \in TD_RAMP .. TD_FSYNCING
    \/ /\ runstate[k] \in TD_RAMP .. TD_FSYNCING
       /\ runstate'[k] \in TD_RAMP .. TD_EXITED
    \/ /\ pc = "reap" /\ runstate[k] \notin {TD_NOT_CREATED, TD_REAPED}
       /\ runstate'[k] = TD_REAPED

LEMMA RunstateMoves ==
    ASSUME IInv, [Next]_vars, NEW k \in Jobs
    PROVE  RunstateStep(k)
<1> USE DEF TD_NOT_CREATED, TD_CREATED, TD_INITIALIZED, TD_RAMP, TD_RUNNING,
            TD_FSYNCING, TD_EXITED, TD_REAPED
<1>1. /\ runstate \in [Jobs -> 0 .. 9] /\ (\A j \in Jobs : JobState(j))
      /\ MainStates /\ TypeOK
    BY DEF IInv, TypeOK, JobStates
<1>2. CASE runstate' = runstate
    BY <1>2 DEF RunstateStep
<1>3. CASE SetupFiles
    BY <1>1, <1>3, ZenonT(30) DEF SetupFiles, MainStates, RunstateStep, Jobs
<1>4. CASE CreateJob
  <2>1. /\ runstate[i] = TD_NOT_CREATED /\ pc = "create"
        /\ runstate' = [runstate EXCEPT ![i] = TD_CREATED]
    BY <1>4 DEF CreateJob, MayCreate
  <2> QED
    BY <1>1, <2>1 DEF RunstateStep
<1>5. CASE StartJob
    BY <1>1, <1>5 DEF StartJob, RunstateStep
<1>6. CASE ReapJob
  <2>1. /\ i \in Jobs /\ Reapable(i) /\ pc = "reap"
        /\ runstate' = [runstate EXCEPT ![i] = TD_REAPED]
    BY <1>6 DEF ReapJob
  <2>2. runstate[i] \notin {TD_NOT_CREATED, TD_REAPED}
    BY <1>1, <2>1, JobTypes DEF JobState, Reapable
  <2> QED
    BY <1>1, <2>1, <2>2 DEF RunstateStep
<1>7. CASE \E j \in Jobs : JobInit(j)
    BY <1>1, <1>7, InitMoves DEF RunstateStep
<1>8. CASE \E j \in Jobs : JobExited(j)
    BY <1>1, <1>8, ExitedMoves DEF RunstateStep
<1>9. CASE \E j \in Jobs : JobWork(j)
  <2> PICK j \in Jobs : JobWork(j)
    BY <1>9
  <2>1. PICK s \in TD_RAMP .. TD_FSYNCING : runstate' = [runstate EXCEPT ![j] = s]
    BY <1>1, WorkMoves
  <2>2. runstate[j] \in TD_RAMP .. TD_FSYNCING
    BY <1>1, WorkMoves
  <2> QED
    BY <1>1, <2>1, <2>2 DEF RunstateStep
<1>10. CASE \/ EndSetup \/ PassOver \/ NeverStarted \/ EndCreate \/ StartupDone
          \/ StartupTimeout \/ AllStarted \/ StartFailed \/ PassStart
          \/ EndStart \/ LeaveJob \/ EndReap \/ Interrupt \/ UNCHANGED vars
    BY <1>2, <1>10, ZenonT(30) DEF EndSetup, PassOver, NeverStarted, EndCreate, StartupDone,
       StartupTimeout, AllStarted, StartFailed, PassStart, EndStart, LeaveJob,
       EndReap, Interrupt, vars, tdVars
<1>11. CASE \E j \in Jobs :
             \/ PollJob(j) \/ JobStart(j) \/ JobPost(j) \/ JobGo(j) \/ JobSetup(j)
             \/ JobDone(j) \/ JobFails(j) \/ JobExitall(j) \/ JobClose(j)
             \/ ProcessExits(j) \/ Crash(j) \/ DelayElapses(j)
    BY <1>2, <1>11 DEF PollJob, JobStart, JobPost, JobGo, JobSetup, JobDone,
       JobFails, JobExitall, JobClose, ProcessExits, Crash, DelayElapses, tdVars
<1>12. CASE \E p \in Jobs \cup {Main} : sig_int(p)
    BY <1>2, <1>12 DEF sig_int
<1> QED
    BY <1>3, <1>4, <1>5, <1>6, <1>7, <1>8, <1>9, <1>10, <1>11, <1>12
    DEF Next, run_threads, thread_main

\* Only the creating scan creates a job, the one it has come to.
LEMMA CreatedMoves ==
    ASSUME IInv, [Next]_vars, NEW k \in Jobs, runstate[k] = TD_NOT_CREATED,
           runstate'[k] = TD_CREATED
    PROVE  CreateJob /\ k = i
<1> USE DEF TD_NOT_CREATED, TD_CREATED, TD_INITIALIZED, TD_RAMP, TD_RUNNING,
            TD_FSYNCING, TD_EXITED, TD_REAPED
<1>1. runstate \in [Jobs -> 0 .. 9] /\ (\A j \in Jobs : JobState(j))
    BY DEF IInv, TypeOK, JobStates
<1>2. CASE CreateJob
    BY <1>1, <1>2 DEF CreateJob
<1>3. runstate' # runstate
    BY <1>1
<1>4. ~SetupFiles /\ ~StartJob /\ ~ReapJob
    BY <1>1 DEF SetupFiles, StartJob, ReapJob
<1>5. ~\E j \in Jobs : JobInit(j) \/ JobExited(j)
    BY <1>1 DEF JobInit, JobExited
<1>6. ~\E j \in Jobs : JobWork(j)
    BY <1>1, WorkMoves
<1>7. ~\/ EndSetup \/ PassOver \/ NeverStarted \/ EndCreate \/ StartupDone
       \/ StartupTimeout \/ AllStarted \/ StartFailed \/ PassStart
       \/ EndStart \/ LeaveJob \/ EndReap \/ Interrupt \/ UNCHANGED vars
    BY <1>3 DEF EndSetup, PassOver, NeverStarted, EndCreate, StartupDone,
       StartupTimeout, AllStarted, StartFailed, PassStart, EndStart, LeaveJob,
       EndReap, Interrupt, vars, tdVars
<1>8. ~\E j \in Jobs :
             \/ PollJob(j) \/ JobStart(j) \/ JobPost(j) \/ JobGo(j) \/ JobSetup(j)
             \/ JobDone(j) \/ JobFails(j) \/ JobExitall(j) \/ JobClose(j)
             \/ ProcessExits(j) \/ Crash(j) \/ DelayElapses(j)
    BY <1>3, ZenonT(30) DEF PollJob, JobStart, JobPost, JobGo, JobSetup, JobDone,
       JobFails, JobExitall, JobClose, ProcessExits, Crash, DelayElapses, tdVars
<1>9. ~\E p \in Jobs \cup {Main} : sig_int(p)
    BY <1>3, ZenonT(30) DEF sig_int
<1> QED
    BY <1>2, <1>4, <1>5, <1>6, <1>7, <1>8, <1>9 DEF Next, run_threads, thread_main

\* A runstate never goes back to TD_NOT_CREATED.
LEMMA CreatedStays ==
    ASSUME IInv, [Next]_vars, NEW k \in Jobs, runstate[k] # TD_NOT_CREATED
    PROVE  runstate'[k] # TD_NOT_CREATED
<1>1. RunstateStep(k)
    BY RunstateMoves
<1> QED
    BY <1>1 DEF RunstateStep, TD_NOT_CREATED, TD_CREATED, TD_INITIALIZED, TD_RAMP,
       TD_FSYNCING, TD_EXITED, TD_REAPED

\* A job the creating loop is done with stays so.
LEMMA SettledStays ==
    ASSUME IInv, EndInv, [Next]_vars, NEW k \in Jobs, Settled(k)
    PROVE  Settled(k)'
<1>1. terminate[k] => terminate'[k]
    BY TerminatedStep DEF IInv
<1>2. runstate[k] # TD_NOT_CREATED => runstate'[k] # TD_NOT_CREATED
    BY CreatedStays
<1> QED
    BY <1>1, <1>2 DEF Settled

\* Without start delays the scan has created every job it has passed, or found it
\* terminated.
LEMMA ScanStep ==
    ASSUME IInv, EndInv, [Next]_vars
    PROVE  ScanPassed'
<1> SUFFICES ASSUME DelayFree
             PROVE  /\ pc' \in {"create", "startup"} =>
                          \A j \in Jobs : j < i' => Settled(j)'
                    /\ pc' = "startup" => runstate'[i'] # TD_NOT_CREATED
    BY DEF ScanPassed, DelayFree
<1>1. /\ \A j \in Jobs : ~start_delay[j]
      /\ pc \in {"create", "startup"} => \A j \in Jobs : j < i => Settled(j)
      /\ pc = "startup" => i \in Jobs /\ runstate[i] # TD_NOT_CREATED
    BY DEF EndInv, NoDelays, ScanPassed, IInv, MainStates
<1>2. i \in 1 .. NJobs + 1 /\ NJobs \in Nat /\ TypeOK
    BY BackendAssumption DEF IInv, TypeOK
<1>3. \A j \in Jobs : Settled(j) => Settled(j)'
    BY SettledStays
<1>4. \A j \in Jobs : runstate[j] # TD_NOT_CREATED => runstate'[j] # TD_NOT_CREATED
    BY CreatedStays
<1>5. CASE UNCHANGED <<pc, i>>
    BY <1>1, <1>3, <1>4, <1>5
<1>6. CASE i' = 1 /\ pc' # "startup"
    BY <1>6 DEF Jobs
<1>7. CASE PassOver \/ NeverStarted \/ StartupDone
  <2>1. pc' = "create" /\ i' = i + 1 /\ i \in Jobs
    BY <1>1, <1>7 DEF PassOver, NeverStarted, StartupDone
  <2>2. pc \in {"create", "startup"} /\ Settled(i)
    BY <1>1, <1>7 DEF PassOver, NeverStarted, StartupDone, Settled
  <2>3. \A j \in Jobs : j < i + 1 => j < i \/ j = i
    BY <1>2 DEF Jobs
  <2> QED
    BY <1>1, <1>3, <2>1, <2>2, <2>3
<1>8. CASE CreateJob
  <2>1. /\ pc = "create" /\ i \in Jobs /\ i' = i
        /\ runstate' = [runstate EXCEPT ![i] = TD_CREATED]
    BY <1>8 DEF CreateJob
  <2>2. runstate'[i] # TD_NOT_CREATED
    BY <1>2, <2>1 DEF TypeOK, TD_CREATED, TD_NOT_CREATED
  <2> QED
    BY <1>1, <1>3, <2>1, <2>2
<1>9. CASE pc' \notin {"create", "startup"}
    BY <1>9
<1>10. CASE SetupFiles \/ EndSetup \/ EndCreate \/ StartupTimeout \/ AllStarted
            \/ StartFailed \/ PassStart \/ StartJob \/ EndStart \/ ReapJob
            \/ LeaveJob \/ EndReap \/ Interrupt \/ UNCHANGED vars
    BY <1>5, <1>6, <1>9, <1>10, ZenonT(30) DEF SetupFiles, EndSetup, EndCreate, StartupTimeout,
       AllStarted, StartFailed, PassStart, StartJob, EndStart, ReapJob, LeaveJob,
       EndReap, AfterReap, Interrupt, vars, mainVars
<1>11. CASE \E j \in Jobs :
             \/ PollJob(j) \/ JobStart(j) \/ JobInit(j) \/ JobPost(j) \/ JobGo(j)
             \/ JobSetup(j) \/ JobDone(j) \/ JobFails(j) \/ JobExitall(j)
             \/ JobClose(j) \/ JobExited(j) \/ ProcessExits(j) \/ JobWork(j)
             \/ Crash(j) \/ DelayElapses(j)
    BY <1>5, <1>11, ZenonT(30) DEF PollJob, JobStart, JobInit, JobPost, JobGo, JobSetup,
       JobDone, JobFails, JobExitall, JobClose, JobExited, ProcessExits, JobWork,
       Crash, DelayElapses, mainVars
<1>12. CASE \E p \in Jobs \cup {Main} : sig_int(p)
    BY <1>5, <1>12 DEF sig_int, mainVars
<1> QED
    BY <1>7, <1>8, <1>10, <1>11, <1>12 DEF Next, run_threads, thread_main

-----------------------------------------------------------------------------
(* todo, nr_started and exit_value.                                        *)

\* The steps that change neither todo nor which jobs are still to start.
LEMMA SameTodo ==
    ASSUME IInv, EndInv, [Next]_vars, Unstarted' = Unstarted,
           UNCHANGED <<todo, start_failed>>
    PROVE  TodoTells'
<1>1. TodoTells
    BY DEF EndInv
<1>2. \A j \in Jobs : Settled(j) => Settled(j)'
    BY SettledStays
<1> QED
    BY <1>1, <1>2 DEF TodoTells, DelayFree, EndsWhole, OneGroup

\* A step keeps todo exact, or there is nothing left to create.
LEMMA TodoStep ==
    ASSUME IInv, EndInv, [Next]_vars
    PROVE  TodoTells'
<1> USE DEF TD_NOT_CREATED, TD_CREATED, TD_INITIALIZED, TD_RAMP, TD_RUNNING,
          TD_PRE_READING, TD_VERIFYING, TD_FSYNCING, TD_EXITED, TD_REAPED
<1>1. /\ runstate \in [Jobs -> 0 .. 9] /\ start_failed \in BOOLEAN
      /\ TypeOK /\ JobStates /\ MainStates /\ TodoTells
    BY DEF IInv, EndInv, TypeOK
<1>2. Unstarted \in SUBSET Jobs
    BY DEF Unstarted
<1>3. \A j \in Jobs : Settled(j) => Settled(j)'
    BY SettledStays
<1>4. ASSUME UNCHANGED <<runstate, todo, start_failed>>
      PROVE  TodoTells'
    BY <1>4, SameTodo DEF Unstarted
<1>5. CASE SetupFiles
  <2>1. /\ i \in Jobs /\ runstate[i] = TD_NOT_CREATED /\ start_failed' = start_failed
    BY <1>1, <1>5 DEF SetupFiles, MainStates, Jobs
  <2>2. CASE UNCHANGED <<exit_value, runstate, todo>>
    BY <1>4, <2>1, <2>2
  <2>3. CASE runstate' = [runstate EXCEPT ![i] = TD_REAPED] /\ todo' = Dec(todo)
    <3>1. i \in Unstarted /\ Unstarted' = Unstarted \ {i}
      BY <1>1, <2>1, <2>3 DEF Unstarted
    <3>2. Dec(Cardinality(Unstarted)) = Cardinality(Unstarted \ {i})
      BY <1>2, <3>1, CountOut
    <3> QED
      BY <1>1, <1>3, <2>1, <2>3, <3>1, <3>2 DEF TodoTells, DelayFree, EndsWhole, OneGroup
  <2> QED
    BY <1>5, <2>2, <2>3 DEF SetupFiles
<1>6. CASE NeverStarted
  <2> SUFFICES ASSUME DelayFree \/ EndsWhole, NEW j \in Jobs
               PROVE  Settled(j)
    BY <1>3 DEF TodoTells, DelayFree, EndsWhole, OneGroup
  <2>1. i \in Jobs /\ terminate[i] /\ pc = "create"
    BY <1>6 DEF NeverStarted
  <2>2. CASE EndsWhole
    BY <2>1, <2>2 DEF EndInv, TerminatedAll, Settled
  <2>3. CASE DelayFree
    <3>1. j < i => Settled(j)
      BY <2>1, <2>3 DEF EndInv, ScanPassed
    <3>2. i < j => terminate[j]
      BY <2>1 DEF EndInv, TerminatedRest
    <3>3. j < i \/ i = j \/ i < j
      BY <2>1 DEF Jobs
    <3> QED
      BY <2>1, <3>1, <3>2, <3>3 DEF Settled
  <2> QED
    BY <2>2, <2>3
<1>7. CASE StartJob
  <2>1. /\ i \in Jobs /\ runstate[i] = TD_INITIALIZED
        /\ todo' = Dec(todo) /\ start_failed' = start_failed
    BY <1>7 DEF StartJob
  <2>2. PICK r \in {TD_RAMP, TD_RUNNING} : runstate' = [runstate EXCEPT ![i] = r]
    BY <1>7, ZenonT(30) DEF StartJob
  <2>3. i \in Unstarted /\ Unstarted' = Unstarted \ {i}
    BY <1>1, <2>1, <2>2 DEF Unstarted
  <2>4. Dec(Cardinality(Unstarted)) = Cardinality(Unstarted \ {i})
    BY <1>2, <2>3, CountOut
  <2> QED
    BY <1>1, <1>3, <2>1, <2>3, <2>4 DEF TodoTells, DelayFree, EndsWhole, OneGroup
<1>8. CASE CreateJob
  <2>1. /\ i \in Jobs /\ runstate[i] = TD_NOT_CREATED
        /\ runstate' = [runstate EXCEPT ![i] = TD_CREATED]
        /\ UNCHANGED <<todo, start_failed>>
    BY <1>8 DEF CreateJob, MayCreate
  <2>2. Unstarted' = Unstarted
    BY <1>1, <2>1 DEF Unstarted
  <2> QED
    BY <2>1, <2>2, SameTodo
<1>9. CASE \E j \in Jobs : PollJob(j)
  <2> PICK j \in Jobs : PollJob(j)
    BY <1>9
  <2>1. ~(runstate[j] >= TD_EXITED)
    BY <1>1 DEF PollJob, MainStates
  <2> QED
    BY <1>4, <2>1 DEF PollJob, tdVars
<1>10. CASE ReapJob
  <2> SUFFICES ASSUME ~start_failed
               PROVE  TodoTells'
    BY <1>10 DEF ReapJob, TodoTells
  <2>1. /\ i \in Jobs /\ Reapable(i) /\ pc = "reap"
        /\ runstate' = [runstate EXCEPT ![i] = TD_REAPED]
        /\ UNCHANGED <<todo, start_failed>>
    BY <1>10 DEF ReapJob
  <2>2. runstate[i] \notin {TD_CREATED, TD_INITIALIZED}
    BY <1>1, <2>1 DEF MainStates, Starting
  <2>3. runstate[i] # TD_NOT_CREATED
    BY <1>1, <2>1, JobTypes DEF JobStates, JobState, Reapable
  <2>4. Unstarted' = Unstarted
    BY <1>1, <2>1, <2>2, <2>3 DEF Unstarted
  <2> QED
    BY <2>1, <2>4, SameTodo
<1>11. CASE StartFailed
    BY <1>11 DEF StartFailed, TodoTells
<1>12. CASE \E j \in Jobs : JobInit(j)
  <2> PICK j \in Jobs : JobInit(j)
    BY <1>12
  <2>1. JobState(j) /\ UNCHANGED <<todo, start_failed>>
    BY <1>1 DEF JobStates, JobInit, mainVars
  <2>2. Unstarted' = Unstarted
    BY <1>1, <2>1, InitMoves DEF Unstarted
  <2> QED
    BY <2>1, <2>2, SameTodo
<1>13. CASE \E j \in Jobs : JobExited(j)
  <2> PICK j \in Jobs : JobExited(j)
    BY <1>13
  <2>1. JobState(j) /\ UNCHANGED <<todo, start_failed>>
    BY <1>1 DEF JobStates, JobExited, mainVars
  <2>2. Unstarted' = Unstarted
    BY <1>1, <2>1, ExitedMoves DEF Unstarted
  <2> QED
    BY <2>1, <2>2, SameTodo
<1>14. CASE \E j \in Jobs : JobWork(j)
  <2> PICK j \in Jobs : JobWork(j)
    BY <1>14
  <2>1. JobState(j) /\ UNCHANGED <<todo, start_failed>>
    BY <1>1 DEF JobStates, JobWork, mainVars
  <2>2. Unstarted' = Unstarted
    BY <1>1, <2>1, WorkMoves DEF Unstarted
  <2> QED
    BY <2>1, <2>2, SameTodo
<1>15. CASE \/ EndSetup \/ PassOver \/ EndCreate \/ StartupDone \/ StartupTimeout
            \/ AllStarted \/ PassStart \/ EndStart \/ LeaveJob \/ EndReap
            \/ Interrupt \/ UNCHANGED vars
    BY <1>4, <1>15, ZenonT(30) DEF EndSetup, PassOver, EndCreate, StartupDone, StartupTimeout,
       AllStarted, PassStart, EndStart, LeaveJob, EndReap, Interrupt, vars, tdVars,
       mainVars
<1>16. CASE \E j \in Jobs :
             \/ JobStart(j) \/ JobPost(j) \/ JobGo(j) \/ JobSetup(j) \/ JobDone(j)
             \/ JobFails(j) \/ JobExitall(j) \/ JobClose(j) \/ ProcessExits(j)
             \/ Crash(j) \/ DelayElapses(j)
    BY <1>4, <1>16, ZenonT(30) DEF JobStart, JobPost, JobGo, JobSetup, JobDone, JobFails,
       JobExitall, JobClose, ProcessExits, Crash, DelayElapses, tdVars, mainVars
<1>17. CASE \E p \in Jobs \cup {Main} : sig_int(p)
    BY <1>4, <1>17 DEF sig_int, mainVars
<1> QED
    BY <1>5, <1>6, <1>7, <1>8, <1>9, <1>10, <1>11, <1>12, <1>13, <1>14, <1>15,
       <1>16, <1>17
    DEF Next, run_threads, thread_main

\* A step keeps nr_started exact, or the round is bound to fail.
LEMMA StartedStep ==
    ASSUME IInv, StartedExact, [Next]_vars
    PROVE  StartedExact'
<1> USE DEF TD_NOT_CREATED, TD_CREATED, TD_INITIALIZED, TD_RAMP, TD_RUNNING,
          TD_PRE_READING, TD_VERIFYING, TD_FSYNCING, TD_EXITED, TD_REAPED
<1>1. /\ runstate \in [Jobs -> 0 .. 9] /\ start_failed \in BOOLEAN
      /\ map \subseteq Jobs /\ i \in 1 .. NJobs + 1
      /\ jpc \in [Jobs -> {"none", "start", "init", "post", "sem", "setup", "run",
                           "exitall", "exit", "closed", "done", "dead"}]
      /\ TypeOK /\ JobStates /\ MainStates
    BY DEF IInv, TypeOK
<1>2. Starting \in SUBSET Jobs
    BY DEF Starting
<1>3. ASSUME UNCHANGED <<pc, i, map, nr_started, fio_abort, start_failed>>,
             Starting' = Starting, NeverUp \subseteq NeverUp'
      PROVE  StartedExact'
    BY <1>3 DEF StartedExact
<1>4. ASSUME pc # "wait", pc' # "startup", Starting' = Starting,
             UNCHANGED <<nr_started, start_failed>>
      PROVE  StartedExact'
    BY <1>4 DEF StartedExact
<1>5. CASE SetupFiles
  <2>1. /\ i \in Jobs /\ runstate[i] = TD_NOT_CREATED
        /\ runstate' = runstate \/ runstate' = [runstate EXCEPT ![i] = TD_REAPED]
    BY <1>1, <1>5 DEF SetupFiles, MainStates, Jobs
  <2>2. CASE runstate' = runstate
    BY <1>4, <1>5, <2>2 DEF SetupFiles, Starting
  <2>3. CASE runstate' = [runstate EXCEPT ![i] = TD_REAPED]
    <3>1. Starting' = Starting
      BY <1>1, <2>1, <2>3 DEF Starting
    <3> QED
      BY <1>4, <1>5, <3>1 DEF SetupFiles
  <2> QED
    BY <2>1, <2>2, <2>3
<1>6. CASE CreateJob
  <2>1. /\ pc = "create" /\ i \in Jobs /\ runstate[i] = TD_NOT_CREATED
        /\ runstate' = [runstate EXCEPT ![i] = TD_CREATED]
        /\ map' = map \cup {i} /\ UNCHANGED <<i, start_failed>>
    BY <1>6 DEF CreateJob, MayCreate
  <2>2. ~start_failed => nr_started = Cardinality(Starting)
    BY <2>1 DEF StartedExact
  <2>3. i \notin Starting /\ Starting' = Starting \cup {i}
    BY <1>1, <2>1 DEF Starting
  <2>4. Inc(Cardinality(Starting)) = Cardinality(Starting \cup {i})
    BY <1>2, <2>1, <2>3, CountIn
  <2>5. CASE nr_started' = Inc(nr_started)
    BY <2>1, <2>2, <2>3, <2>4, <2>5 DEF StartedExact
  <2>6. CASE pc' = "wait" /\ UNCHANGED jobVars
    <3>1. jpc[i] = "none"
      BY <1>1, <2>1 DEF JobStates, JobState
    <3>2. i \in NeverUp'
      BY <1>1, <2>1, <2>6, <3>1 DEF NeverUp, jobVars
    <3> QED
      BY <2>1, <2>6, <3>2 DEF StartedExact
  <2> QED
    BY <1>6, <2>5, <2>6 DEF CreateJob
<1>7. CASE StartupTimeout
    BY <1>7 DEF StartupTimeout, StartedExact
<1>8. CASE \E j \in Jobs : PollJob(j)
  <2> PICK j \in Jobs : PollJob(j)
    BY <1>8
  <2>1. /\ pc = "wait" /\ ~fio_abort /\ runstate[j] # TD_CREATED
        /\ map' = map \ {j}
        /\ UNCHANGED <<runstate, jpc, pc, nr_started, fio_abort, start_failed>>
    BY DEF PollJob, tdVars, jobVars
  <2>2. Starting' = Starting
    BY <2>1 DEF Starting
  <2>3. NeverUp \subseteq NeverUp'
    BY <2>1 DEF NeverUp
  <2>4. NeverUp' # {} => map' # {}
    BY DEF NeverUp
  <2> QED
    BY <2>1, <2>2, <2>3, <2>4 DEF StartedExact
<1>9. CASE AllStarted
    BY <1>9 DEF AllStarted, StartedExact, Starting, tdVars
<1>10. CASE StartFailed
    BY <1>10 DEF StartFailed, StartedExact
<1>11. CASE StartJob
  <2>1. /\ pc = "start" /\ i \in Jobs /\ runstate[i] = TD_INITIALIZED
        /\ nr_started' = Dec(nr_started) /\ UNCHANGED <<pc, start_failed>>
    BY <1>11 DEF StartJob
  <2>2. PICK r \in {TD_RAMP, TD_RUNNING} : runstate' = [runstate EXCEPT ![i] = r]
    BY <1>11, ZenonT(30) DEF StartJob
  <2>3. i \in Starting /\ Starting' = Starting \ {i}
    BY <1>1, <2>1, <2>2 DEF Starting
  <2>4. Dec(Cardinality(Starting)) = Cardinality(Starting \ {i})
    BY <1>2, <2>3, CountOut
  <2> QED
    BY <2>1, <2>3, <2>4 DEF StartedExact
<1>12. CASE ReapJob
  <2>1. /\ pc = "reap" /\ i \in Jobs /\ runstate' = [runstate EXCEPT ![i] = TD_REAPED]
        /\ UNCHANGED <<pc, nr_started, start_failed>>
    BY <1>12 DEF ReapJob
  <2>2. CASE start_failed
    BY <2>1, <2>2 DEF StartedExact
  <2>3. CASE ~start_failed
    <3>1. Starting' = Starting
      BY <1>1, <2>1, <2>3 DEF MainStates, Starting
    <3> QED
      BY <1>4, <2>1, <3>1
  <2> QED
    BY <2>2, <2>3
<1>13. CASE EndSetup \/ PassOver \/ NeverStarted \/ EndCreate \/ StartupDone
            \/ PassStart \/ EndStart \/ LeaveJob \/ EndReap
  <2>1. pc # "wait" /\ UNCHANGED <<runstate, nr_started, start_failed>>
    BY <1>13, ZenonT(30) DEF EndSetup, PassOver, NeverStarted, EndCreate, StartupDone, PassStart,
       EndStart, LeaveJob, EndReap, tdVars
  <2>2. pc' # "startup"
    BY <1>13 DEF EndSetup, PassOver, NeverStarted, EndCreate, StartupDone, PassStart,
       EndStart, LeaveJob, EndReap, AfterReap
  <2> QED
    BY <1>4, <2>1, <2>2 DEF Starting
<1>14. CASE \E j \in Jobs : JobInit(j)
  <2> PICK j \in Jobs : JobInit(j)
    BY <1>14
  <2>1. JobState(j) /\ jpc[j] = "init" /\ jpc' = [jpc EXCEPT ![j] = "post"]
    BY <1>1 DEF JobStates, JobInit, JobGoesTo
  <2>2. UNCHANGED <<pc, i, map, nr_started, fio_abort, start_failed>>
    BY DEF JobInit, mainVars
  <2>3. Starting' = Starting
    BY <1>1, <2>1, InitMoves DEF Starting
  <2>4. NeverUp \subseteq NeverUp'
    BY <1>1, <2>1, <2>2, InitMoves DEF NeverUp
  <2> QED
    BY <1>3, <2>2, <2>3, <2>4
<1>15. CASE \E j \in Jobs : JobExited(j)
  <2> PICK j \in Jobs : JobExited(j)
    BY <1>15
  <2>1. JobState(j) /\ jpc[j] = "closed" /\ jpc' = [jpc EXCEPT ![j] = "done"]
    BY <1>1 DEF JobStates, JobExited, JobGoesTo
  <2>2. UNCHANGED <<pc, i, map, nr_started, fio_abort, start_failed>>
    BY DEF JobExited, mainVars
  <2>3. Starting' = Starting
    BY <1>1, <2>1, ExitedMoves DEF Starting
  <2>4. NeverUp \subseteq NeverUp'
    BY <1>1, <2>1, <2>2, ExitedMoves DEF NeverUp
  <2> QED
    BY <1>3, <2>2, <2>3, <2>4
<1>16. CASE \E j \in Jobs : JobWork(j)
  <2> PICK j \in Jobs : JobWork(j)
    BY <1>16
  <2>1. JobState(j) /\ UNCHANGED jpc
    BY <1>1 DEF JobStates, JobWork, jobVars
  <2>2. UNCHANGED <<pc, i, map, nr_started, fio_abort, start_failed>>
    BY DEF JobWork, mainVars
  <2>3. Starting' = Starting
    BY <1>1, <2>1, WorkMoves DEF Starting
  <2>4. NeverUp \subseteq NeverUp'
    BY <1>1, <2>1, <2>2, WorkMoves DEF NeverUp
  <2> QED
    BY <1>3, <2>2, <2>3, <2>4
<1>17. CASE \E j \in Jobs :
             \/ JobStart(j) \/ JobPost(j) \/ JobGo(j) \/ JobSetup(j) \/ JobDone(j)
             \/ JobFails(j) \/ JobExitall(j) \/ JobClose(j) \/ Crash(j)
  <2> PICK j \in Jobs :
             \/ JobStart(j) \/ JobPost(j) \/ JobGo(j) \/ JobSetup(j) \/ JobDone(j)
             \/ JobFails(j) \/ JobExitall(j) \/ JobClose(j) \/ Crash(j)
    BY <1>17
  <2>1. UNCHANGED <<runstate, pc, i, map, nr_started, fio_abort, start_failed>>
    BY ZenonT(30) DEF JobStart, JobPost, JobGo, JobSetup, JobDone, JobFails, JobExitall,
       JobClose, Crash, tdVars, mainVars
  <2>2. jpc[j] # "none"
    BY <1>1, ZenonT(30) DEF JobStates, JobState, JobStart, JobPost, JobGo, JobSetup, JobDone,
       JobFails, JobExitall, JobClose, Crash, JobGoesTo
  <2>3. \E x : jpc' = [jpc EXCEPT ![j] = x]
    BY ZenonT(30) DEF JobStart, JobPost, JobGo, JobSetup, JobDone, JobFails, JobExitall,
       JobClose, Crash, JobGoesTo
  <2>4. NeverUp \subseteq NeverUp'
    BY <1>1, <2>1, <2>2, <2>3 DEF NeverUp
  <2> QED
    BY <1>3, <2>1, <2>4 DEF Starting
<1>18. CASE UNCHANGED <<runstate, jpc, pc, i, map, nr_started, fio_abort, start_failed>>
    BY <1>3, <1>18, ZenonT(30) DEF Starting, NeverUp
<1>19. CASE \E j \in Jobs : ProcessExits(j) \/ DelayElapses(j)
    BY <1>18, <1>19 DEF ProcessExits, DelayElapses, tdVars, jobVars, mainVars
<1>20. CASE \E p \in Jobs \cup {Main} : sig_int(p)
    BY <1>18, <1>20 DEF sig_int, jobVars, mainVars
<1>21. CASE Interrupt \/ UNCHANGED vars
    BY <1>18, <1>21 DEF Interrupt, vars, tdVars, jobVars, mainVars
<1> QED
    BY <1>5, <1>6, <1>7, <1>8, <1>9, <1>10, <1>11, <1>12, <1>13, <1>14, <1>15,
       <1>16, <1>17, <1>19, <1>20, <1>21
    DEF Next, run_threads, thread_main

\* A step that reaps a job with an error, or makes an error, tells of it.
LEMMA ErrorsStep ==
    ASSUME IInv, ErrorsCounted, [Next]_vars
    PROVE  ErrorsCounted'
<1> USE DEF TD_NOT_CREATED, TD_CREATED, TD_INITIALIZED, TD_RAMP, TD_RUNNING,
          TD_PRE_READING, TD_VERIFYING, TD_FSYNCING, TD_EXITED, TD_REAPED
<1>1. /\ runstate \in [Jobs -> 0 .. 9] /\ error \in [Jobs -> BOOLEAN]
      /\ exit_value \in Nat /\ TypeOK /\ (\A j \in Jobs : JobState(j))
    BY DEF IInv, TypeOK, JobStates
<1>2. CASE UNCHANGED <<error, runstate, exit_value>>
    BY <1>2 DEF ErrorsCounted
<1>3. CASE SetupFiles
  <2>1. error' = error
    BY <1>3 DEF SetupFiles
  <2>2. UNCHANGED <<exit_value, runstate>> \/ exit_value' = exit_value + 1
    BY <1>3 DEF SetupFiles
  <2> QED
    BY <1>1, <2>1, <2>2 DEF ErrorsCounted
<1>4. CASE ReapJob
  <2>1. /\ i \in Jobs /\ runstate' = [runstate EXCEPT ![i] = TD_REAPED]
        /\ error' = [error EXCEPT ![i] = JobError(i)]
        /\ exit_value' = IF JobError(i) THEN exit_value + 1 ELSE exit_value
    BY <1>4 DEF ReapJob, ExitValue
  <2>2. CASE JobError(i)
    BY <1>1, <2>1, <2>2 DEF ErrorsCounted
  <2>3. CASE ~JobError(i)
    <3>1. ~error'[i] /\ exit_value' = exit_value
      BY <1>1, <2>1, <2>3
    <3>2. \A k \in Jobs : k # i => error'[k] = error[k] /\ runstate'[k] = runstate[k]
      BY <1>1, <2>1
    <3> QED
      BY <3>1, <3>2 DEF ErrorsCounted
  <2> QED
    BY <2>2, <2>3
<1>5. ASSUME UNCHANGED <<error, exit_value>>,
             \A k \in Jobs : runstate'[k] = TD_REAPED => runstate[k] = TD_REAPED
      PROVE  ErrorsCounted'
    BY <1>5 DEF ErrorsCounted
<1>6. CASE CreateJob
  <2>1. UNCHANGED <<error, exit_value>>
    BY <1>6 DEF CreateJob, sharedVars
  <2>2. \A k \in Jobs : runstate'[k] = TD_REAPED => runstate[k] = TD_REAPED
    BY <1>1, <1>6 DEF CreateJob
  <2> QED
    BY <1>5, <2>1, <2>2
<1>7. CASE StartJob
  <2>1. UNCHANGED <<error, exit_value>>
    BY <1>7 DEF StartJob, sharedVars
  <2>2. PICK r \in {TD_RAMP, TD_RUNNING} : runstate' = [runstate EXCEPT ![i] = r]
    BY <1>7, ZenonT(30) DEF StartJob
  <2>3. \A k \in Jobs : runstate'[k] = TD_REAPED => runstate[k] = TD_REAPED
    BY <1>1, <2>2
  <2> QED
    BY <1>5, <2>1, <2>3
<1>8. CASE \E j \in Jobs : JobInit(j) \/ JobExited(j)
  <2> PICK j \in Jobs : JobInit(j) \/ JobExited(j)
    BY <1>8
  <2>1. UNCHANGED <<error, exit_value>>
    BY DEF JobInit, JobExited, sharedVars
  <2>2. \A k \in Jobs : runstate'[k] = TD_REAPED => runstate[k] = TD_REAPED
    BY <1>1 DEF JobInit, JobExited
  <2> QED
    BY <1>5, <2>1, <2>2
<1>9. CASE \E j \in Jobs : JobWork(j)
  <2> PICK j \in Jobs : JobWork(j)
    BY <1>9
  <2>1. UNCHANGED <<error, exit_value>>
    BY DEF JobWork, sharedVars
  <2>2. PICK s \in TD_RAMP .. TD_FSYNCING : runstate' = [runstate EXCEPT ![j] = s]
    BY <1>1, WorkMoves
  <2>3. \A k \in Jobs : runstate'[k] = TD_REAPED => runstate[k] = TD_REAPED
    BY <1>1, <2>2
  <2> QED
    BY <1>5, <2>1, <2>3
<1>10. CASE \E j \in Jobs : JobSetup(j) \/ JobFails(j)
  <2> PICK j \in Jobs : JobSetup(j) \/ JobFails(j)
    BY <1>10
  <2>1. jpc[j] \in {"setup", "run"} /\ UNCHANGED <<runstate, exit_value>>
    BY DEF JobSetup, JobFails, JobGoesTo, sharedVars
  <2>2. error' = error \/ \E x : error' = [error EXCEPT ![j] = x]
    BY DEF JobSetup, JobFails
  <2>3. runstate[j] # TD_REAPED
    BY <1>1, <2>1 DEF JobState
  <2>4. \A k \in Jobs : k # j => error'[k] = error[k]
    BY <1>1, <2>2
  <2> QED
    BY <2>1, <2>3, <2>4 DEF ErrorsCounted
<1>11. CASE \E p \in Jobs \cup {Main} : sig_int(p)
  <2>1. UNCHANGED <<error, runstate>> /\ exit_value' \in {exit_value, 128}
    BY <1>11 DEF sig_int
  <2>2. CASE exit_value' = exit_value
    BY <1>2, <2>1, <2>2
  <2>3. CASE exit_value' = 128
    BY <2>3 DEF ErrorsCounted
  <2> QED
    BY <2>1, <2>2, <2>3
<1>12. CASE \/ EndSetup \/ PassOver \/ NeverStarted \/ EndCreate \/ StartupDone
          \/ StartupTimeout \/ AllStarted \/ StartFailed \/ PassStart
          \/ EndStart \/ LeaveJob \/ EndReap \/ Interrupt \/ UNCHANGED vars
    BY <1>2, <1>12, ZenonT(30) DEF EndSetup, PassOver, NeverStarted, EndCreate, StartupDone,
       StartupTimeout, AllStarted, StartFailed, PassStart, EndStart, LeaveJob,
       EndReap, Interrupt, vars, tdVars, sharedVars
<1>13. CASE \E j \in Jobs :
             \/ PollJob(j) \/ JobStart(j) \/ JobPost(j) \/ JobGo(j)
             \/ JobDone(j) \/ JobExitall(j) \/ JobClose(j)
             \/ ProcessExits(j) \/ Crash(j) \/ DelayElapses(j)
    BY <1>2, <1>13, ZenonT(30) DEF PollJob, JobStart, JobPost, JobGo, JobDone, JobExitall,
       JobClose, ProcessExits, Crash, DelayElapses, tdVars, sharedVars
<1> QED
    BY <1>3, <1>4, <1>6, <1>7, <1>8, <1>9, <1>10, <1>11, <1>12, <1>13
    DEF Next, run_threads, thread_main

\* run_threads ends only from these steps.
LEMMA DoneMoves ==
    ASSUME [Next]_vars, pc # "done", pc' = "done"
    PROVE  EndSetup \/ EndReap \/ StartFailed
<1>1. pc' # pc
    OBVIOUS
<1>2. ~(UNCHANGED vars \/ Interrupt \/ \E p \in Jobs \cup {Main} : sig_int(p))
    BY <1>1, ZenonT(30) DEF Interrupt, sig_int, vars, mainVars
<1>3. ~\E j \in Jobs :
             \/ PollJob(j) \/ JobStart(j) \/ JobInit(j) \/ JobPost(j) \/ JobGo(j)
             \/ JobSetup(j) \/ JobDone(j) \/ JobFails(j) \/ JobExitall(j)
             \/ JobClose(j) \/ JobExited(j) \/ ProcessExits(j) \/ JobWork(j)
             \/ Crash(j) \/ DelayElapses(j)
    BY <1>1, ZenonT(30) DEF PollJob, JobStart, JobInit, JobPost, JobGo, JobSetup,
       JobDone, JobFails, JobExitall, JobClose, JobExited, ProcessExits, JobWork,
       Crash, DelayElapses, mainVars
<1>4. ~(SetupFiles \/ PassOver \/ NeverStarted \/ EndCreate \/ CreateJob
        \/ StartupDone \/ StartupTimeout \/ AllStarted \/ PassStart \/ StartJob
        \/ EndStart \/ ReapJob \/ LeaveJob)
    BY <1>1, ZenonT(30) DEF SetupFiles, PassOver, NeverStarted, EndCreate, CreateJob, StartupDone,
       StartupTimeout, AllStarted, PassStart, StartJob, EndStart, ReapJob, LeaveJob
<1> QED
    BY <1>2, <1>3, <1>4 DEF Next, run_threads, thread_main

\* Nobody takes start_failed back.
LEMMA FailedStays ==
    ASSUME [Next]_vars, start_failed
    PROVE  start_failed'
<1>1. CASE start_failed' = start_failed
    BY <1>1
<1>2. CASE Interrupt \/ UNCHANGED vars \/ \E p \in Jobs \cup {Main} : sig_int(p)
    BY <1>1, <1>2, ZenonT(30) DEF Interrupt, sig_int, vars, mainVars
<1>3. CASE \E j \in Jobs :
             \/ PollJob(j) \/ JobStart(j) \/ JobInit(j) \/ JobPost(j) \/ JobGo(j)
             \/ JobSetup(j) \/ JobDone(j) \/ JobFails(j) \/ JobExitall(j)
             \/ JobClose(j) \/ JobExited(j) \/ ProcessExits(j) \/ JobWork(j)
             \/ Crash(j) \/ DelayElapses(j)
    BY <1>1, <1>3, ZenonT(30) DEF PollJob, JobStart, JobInit, JobPost, JobGo, JobSetup,
       JobDone, JobFails, JobExitall, JobClose, JobExited, ProcessExits, JobWork,
       Crash, DelayElapses, mainVars
<1>4. CASE SetupFiles \/ EndSetup \/ PassOver \/ NeverStarted \/ EndCreate \/ CreateJob
           \/ StartupDone \/ StartupTimeout \/ AllStarted \/ StartFailed \/ PassStart
           \/ StartJob \/ EndStart \/ ReapJob \/ LeaveJob \/ EndReap
    BY <1>1, <1>4, ZenonT(30) DEF SetupFiles, EndSetup, PassOver, NeverStarted, EndCreate,
       CreateJob, StartupDone, StartupTimeout, AllStarted, StartFailed, PassStart,
       StartJob, EndStart, ReapJob, LeaveJob, EndReap
<1> QED
    BY <1>2, <1>3, <1>4 DEF Next, run_threads, thread_main

\* With nothing left to create and nothing running, all jobs are done.
LEMMA FinishedStep ==
    ASSUME IInv, EndInv, [Next]_vars, DelayFree \/ EndsWhole
    PROVE  FinishedMeansReaped'
<1> USE DEF TD_NOT_CREATED, TD_CREATED, TD_INITIALIZED, TD_RAMP, TD_RUNNING,
          TD_PRE_READING, TD_VERIFYING, TD_FSYNCING, TD_EXITED, TD_REAPED
<1> SUFFICES ASSUME pc' = "done", ~start_failed', NEW j \in Jobs
             PROVE  \/ runstate'[j] = TD_REAPED
                    \/ runstate'[j] = TD_NOT_CREATED /\ terminate'[j]
    BY ZenonT(30) DEF FinishedMeansReaped
<1>1. /\ runstate \in [Jobs -> 0 .. 9] /\ TypeOK /\ MainStates /\ NrRunningExact
      /\ TodoTells /\ FinishedMeansReaped
    BY ZenonT(30) DEF IInv, EndInv, TypeOK
<1>2. terminate[j] => terminate'[j]
    BY <1>1, TerminatedStep
<1>3. CASE pc = "done"
  <2>1. RunstateStep(j)
    BY RunstateMoves
  <2>2. ~start_failed
    BY FailedStays
  <2>3. \/ runstate[j] = TD_REAPED
        \/ runstate[j] = TD_NOT_CREATED /\ terminate[j]
    BY <1>1, <1>3, <2>2 DEF FinishedMeansReaped
  <2>4. runstate'[j] = runstate[j]
    BY <1>3, <2>1, <2>3 DEF RunstateStep
  <2> QED
    BY <1>2, <2>3, <2>4
<1>4. ASSUME todo = 0, ~start_failed, pc # "done"
      PROVE  runstate[j] # TD_NOT_CREATED \/ terminate[j]
  <2>1. CASE todo = Cardinality(Unstarted)
    <3>1. Unstarted \in SUBSET Jobs
      BY DEF Unstarted
    <3>2. Unstarted = {}
      BY <1>4, <2>1, <3>1, JobSets, FS_EmptySet
    <3> QED
      BY <3>2, ZenonT(30) DEF Unstarted
  <2>2. CASE \A k \in Jobs : Settled(k)
    BY <2>2 DEF Settled
  <2> QED
    BY <1>1, <1>4, <2>1, <2>2 DEF TodoTells
<1>5. CASE EndSetup
  <2>1. pc = "setup" /\ todo = 0 /\ UNCHANGED <<runstate, terminate, start_failed>>
    BY <1>5 DEF EndSetup, tdVars
  <2> QED
    BY <1>1, <1>4, <2>1 DEF MainStates
<1>6. CASE EndReap
  <2>1. pc = "reap" /\ UNCHANGED <<runstate, start_failed>>
    BY <1>6 DEF EndReap
  <2>2. todo = 0 /\ nr_running = 0
    BY <1>6, <2>1 DEF EndReap, AfterReap
  <2>3. Working \in SUBSET Jobs
    BY DEF Working
  <2>4. Cardinality(Working) = 0
    BY <1>1, <2>1, <2>2 DEF NrRunningExact
  <2>5. Working = {}
    BY <2>3, <2>4, JobSets, FS_EmptySet
  <2>6. Starting = {}
    BY <1>1, <2>1 DEF MainStates
  <2>7. runstate[j] \in {TD_NOT_CREATED, TD_REAPED}
    BY <1>1, <2>5, <2>6 DEF Working, Starting
  <2> QED
    BY <1>2, <1>4, <2>1, <2>2, <2>7
<1>7. CASE StartFailed
    BY <1>7 DEF StartFailed
<1> QED
    BY <1>3, <1>5, <1>6, <1>7, DoneMoves, ZenonT(30)

-----------------------------------------------------------------------------
(* The end of fio.                                                         *)

LEMMA InitEndInv == Init => EndInv
<1> SUFFICES ASSUME Init
             PROVE  EndInv
    OBVIOUS
<1> USE BackendAssumption DEF Init
<1>1. NoDelays /\ TerminatedRest /\ TerminatedAll /\ ScanPassed /\ ErrorsCounted
    BY DEF NoDelays, DelayFree, TerminatedRest, TerminatedAll, ScanPassed,
           ErrorsCounted
<1>2. Starting = {} /\ Unstarted = Jobs
    BY DEF Starting, Unstarted, TD_NOT_CREATED, TD_CREATED, TD_INITIALIZED
<1>3. Cardinality(Starting) = 0 /\ Cardinality(Unstarted) = NJobs
    BY <1>2, FS_EmptySet, FS_Interval DEF Jobs
<1>4. TodoTells /\ StartedExact /\ FinishedMeansReaped
    BY <1>3 DEF TodoTells, StartedExact, FinishedMeansReaped
<1> QED
    BY <1>1, <1>4 DEF EndInv

LEMMA NextEndInv == IInv /\ EndInv /\ [Next]_vars => EndInv'
<1> SUFFICES ASSUME IInv, EndInv, [Next]_vars
             PROVE  EndInv'
    OBVIOUS
<1>1. NoDelays' /\ TerminatedRest' /\ TerminatedAll'
    BY TerminatedStep DEF IInv
<1>2. ScanPassed' /\ TodoTells' /\ StartedExact' /\ ErrorsCounted'
    BY ScanStep, TodoStep, StartedStep, ErrorsStep DEF EndInv
<1>3. (DelayFree \/ EndsWhole => FinishedMeansReaped)'
    BY FinishedStep DEF DelayFree, EndsWhole, OneGroup
<1> QED
    BY <1>1, <1>2, <1>3 DEF EndInv

\* The inductive invariant of the end: terminated jobs are the last ones, the
\* creating scan and todo leave no job behind, nr_started is exact unless the
\* round is bound to fail, and the errors of reaped jobs are in exit_value.
THEOREM EndInvariance == Spec => []EndInv
<1>1. Init => EndInv
    BY InitEndInv
<1>2. IInv /\ EndInv /\ [Next]_vars => EndInv'
    BY NextEndInv
<1> QED
    BY <1>1, <1>2, BackendInvariance, PTL DEF Spec

\* fio's exit status tells of every error of a reaped job, for all job files.
THEOREM ErrorsAreTold == Spec => []ErrorsTold
<1>1. EndInv => ErrorsTold
    BY DEF EndInv, ErrorsCounted, ErrorsTold
<1> QED
    BY <1>1, EndInvariance, PTL

\* When fio ends, and starting the jobs did not fail, it has reaped every job or
\* found it terminated before it was created, if there are no start delays or
\* whoever terminates a job terminates all.  (Otherwise todo, which NeverStarted
\* lowers for the same job round after round, becomes 0 too early.)
THEOREM EndIsAlwaysTold ==
    ASSUME DelayFree \/ EndsWhole
    PROVE  Spec => []EndIsTold
<1>1. EndInv => EndIsTold
    BY DEF EndInv, ErrorsCounted, ErrorsTold, EndIsTold
<1> QED
    BY <1>1, EndInvariance, PTL

\* A job behind a stone wall is created only when those in front of it are reaped
\* or were terminated before they were created, if there are no start delays.
THEOREM StonewallsWait ==
    ASSUME DelayFree
    PROVE  Spec => StonewallWaits
<1> DEFINE Waits == \A j \in Jobs :
          o[j].stonewall /\ runstate[j] = TD_NOT_CREATED
                         /\ runstate'[j] = TD_CREATED =>
              \A k \in 1 .. j - 1 :
                 \/ runstate[k] = TD_REAPED
                 \/ runstate[k] = TD_NOT_CREATED /\ terminate[k]
<1>1. ASSUME IInv, EndInv, [Next]_vars
      PROVE  Waits
  <2> SUFFICES ASSUME NEW j \in Jobs, o[j].stonewall, runstate[j] = TD_NOT_CREATED,
                      runstate'[j] = TD_CREATED, NEW k \in 1 .. j - 1
               PROVE  \/ runstate[k] = TD_REAPED
                      \/ runstate[k] = TD_NOT_CREATED /\ terminate[k]
    OBVIOUS
  <2> USE DEF TD_NOT_CREATED, TD_CREATED, TD_INITIALIZED, TD_RAMP, TD_FSYNCING,
              TD_EXITED, TD_REAPED
  <2>1. k \in Jobs /\ k < j
    BY BackendAssumption DEF Jobs
  <2>2. CreateJob /\ j = i
    BY <1>1, CreatedMoves
  <2>3. pc = "create" /\ ~start_failed /\ nr_started = 0 /\ nr_running = 0
    BY <1>1, <2>2, ZenonT(30) DEF CreateJob, AtStonewall, IInv, TypeOK, MainStates
  <2>4. Starting = {} /\ Working = {}
    <3>1. Starting \in SUBSET Jobs /\ Working \in SUBSET Jobs
      BY DEF Starting, Working
    <3>2. Cardinality(Starting) = 0 /\ Cardinality(Working) = 0
      BY <1>1, <2>3 DEF EndInv, StartedExact, IInv, NrRunningExact
    <3> QED
      BY <3>1, <3>2, JobSets, FS_EmptySet
  <2>5. Settled(k)
    BY <1>1, <2>1, <2>2, <2>3 DEF EndInv, ScanPassed
  <2>6. runstate[k] \in 0 .. 9
    BY <1>1, <2>1 DEF IInv, TypeOK
  <2>7. runstate[k] \in {TD_NOT_CREATED, TD_REAPED}
    BY <2>1, <2>4, <2>6 DEF Working, Starting
  <2> QED
    BY <2>5, <2>7 DEF Settled
<1>2. IInv /\ EndInv /\ [Next]_vars => [Waits]_vars
    BY <1>1
<1> QED
    BY <1>2, BackendInvariance, EndInvariance, PTL DEF Spec, StonewallWaits
=============================================================================
