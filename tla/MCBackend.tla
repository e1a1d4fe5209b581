----------------------------- MODULE MCBackend -----------------------------
\* The job files for which TLC checks Backend.
EXTENDS Backend

Job == [stonewall |-> FALSE, new_group |-> FALSE, use_thread |-> FALSE,
        start_delay |-> FALSE, create_serialize |-> TRUE, engine |-> "rw"]

\* Processes, with stone walls anywhere but in front of the first one, where
\* there is nothing to wait for.
StonewallFiles ==
    {[j \in Jobs |-> [Job EXCEPT !.stonewall = j # 1 /\ w[j]]] : w \in [Jobs -> BOOLEAN]}

\* One group of threads and processes, of network or other engines, the last one
\* with a start delay or without.
MixedFiles ==
    {[j \in Jobs |-> [Job EXCEPT !.use_thread = t[j], !.create_serialize = FALSE,
                                 !.engine = IF n /\ j = 1 THEN "net" ELSE "rw",
                                 !.start_delay = d /\ j = NJobs]]
        : t \in [Jobs -> BOOLEAN], n \in BOOLEAN, d \in BOOLEAN}

\* Start delays on some jobs.
DelayFiles ==
    {[j \in Jobs |-> [Job EXCEPT !.start_delay = d[j], !.use_thread = TRUE]]
        : d \in [Jobs -> BOOLEAN]}

\* A stone wall behind a job with a start delay.
DelayStonewallFiles ==
    {[j \in Jobs |-> [Job EXCEPT !.start_delay = (j = 1), !.stonewall = (j = 2)]]}

\* Threads, some of them cpuio, one of them not.
CpuioFiles ==
    {[j \in Jobs |-> [Job EXCEPT !.use_thread = TRUE,
                                 !.engine = IF c[j] THEN "cpuio" ELSE "rw"]]
        : c \in {d \in [Jobs -> BOOLEAN] : \E j \in Jobs : ~d[j]}}

\* Both of these.
ThreadFiles == DelayFiles \cup CpuioFiles

\* A second group.
TwoGroupFiles ==
    {[j \in Jobs |-> [Job EXCEPT !.new_group = (j = NJobs)]]}

\* A job with a start delay behind one without.
LateFiles ==
    {[j \in Jobs |-> [Job EXCEPT !.start_delay = (j = NJobs)]]}
=============================================================================
