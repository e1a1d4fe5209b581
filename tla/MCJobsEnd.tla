----------------------------- MODULE MCJobsEnd -----------------------------
(* The end of all jobs, for four cases: processes with stone walls of which *)
(* some are killed, are interrupted, or fail, and threads with start delays *)
(* or that burn cpu.                                                        *)
EXTENDS MCBackend

VARIABLE case   \* which of the four

AllFiles == StonewallFiles \cup ThreadFiles

Kill == INSTANCE Backend WITH Options <- StonewallFiles, MayCrash <- TRUE
Signal == INSTANCE Backend WITH Options <- StonewallFiles, MayInterrupt <- TRUE
Failures == INSTANCE Backend WITH Options <- StonewallFiles, MayFail <- TRUE
Thread == INSTANCE Backend WITH Options <- ThreadFiles

CaseInit ==
    \/ case = "killed" /\ Kill!Init
    \/ case = "interrupted" /\ Signal!Init
    \/ case = "failing" /\ Failures!Init
    \/ case = "threaded" /\ Thread!Init

CaseNext ==
    /\ \/ case = "killed" /\ Kill!Next
       \/ case = "interrupted" /\ Signal!Next
       \/ case = "failing" /\ Failures!Next
       \/ case = "threaded" /\ Thread!Next
    /\ UNCHANGED case

run_threads_of_case ==
    CASE case = "killed" -> Kill!run_threads
      [] case = "interrupted" -> Signal!run_threads
      [] case = "failing" -> Failures!run_threads
      [] case = "threaded" -> Thread!run_threads

thread_main_of_case(j) ==
    CASE case = "killed" -> Kill!thread_main(j)
      [] case = "interrupted" -> Signal!thread_main(j)
      [] case = "failing" -> Failures!thread_main(j)
      [] case = "threaded" -> Thread!thread_main(j)

\* The fairness of Backend; a signal and a start delay are the same in all.
CaseSpec ==
    /\ CaseInit
    /\ [][CaseNext]_<<vars, case>>
    /\ WF_vars(run_threads_of_case)
    /\ \A j \in Jobs : WF_vars(thread_main_of_case(j)) /\ WF_vars(DelayElapses(j))
    /\ \A p \in Jobs \cup {Main} : WF_vars(sig_int(p))
=============================================================================
