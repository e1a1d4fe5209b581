--------------------------------- MODULE Flow ---------------------------------
(***************************************************************************)
(* Flow control between jobs (flow.c).  Jobs with one flow_id share a       *)
(* counter in shared memory: each turn of a job's IO loop adds the job's    *)
(* flow to it, and a job whose side is above the watermark waits.  The test *)
(* and the update are not atomic, so a turn is three steps: the test, the   *)
(* read and the write of "+=".                                              *)
(***************************************************************************)
EXTENDS Integers, FiniteSets

CONSTANTS
    Jobs,       \* the jobs, 1 .. n, in the order of the job file
    Confs       \* [id, flow, ios, watermark, runtime, broken]: flow_id, flow and
                \* IOs to do of each job, the common watermark, whether the jobs
                \* have a runtime, and the jobs whose options fail

VARIABLES
    conf,       \* the configuration
    pc,         \* of each job: "new", "loop", "read", "write", "issue",
                \* "ended", and "bad" and "failed" when its options fail
    flow,       \* td->flow of each job: the id of its record, or 0
    recs,       \* flow_list: ids of the records that exist
    refs,       \* refs of each record
    counter,    \* flow_counter of each record
    reg,        \* the value that a job has read for its "+="
    done,       \* IOs a job has done
    expired     \* the runtime is over

vars == <<conf, pc, flow, recs, refs, counter, reg, done, expired>>

Ids == {1, 2}

Init == /\ conf \in Confs
        /\ pc = [j \in Jobs |-> "new"]
        /\ flow = [j \in Jobs |-> 0]
        /\ recs = {}
        /\ refs = [i \in Ids |-> 0]
        /\ counter = [i \in Ids |-> 0]
        /\ reg = [j \in Jobs |-> 0]
        /\ done = [j \in Jobs |-> 0]
        /\ expired = FALSE

-------------------------------------------------------------------------------
(* The main thread parses the jobs, one after the other.                     *)

flow_get(id) ==
    /\ recs' = recs \union {id}
    /\ counter' = IF id \in recs THEN counter ELSE [counter EXCEPT ![id] = 0]
    /\ refs' = IF id \in recs THEN [refs EXCEPT ![id] = @ + 1] ELSE [refs EXCEPT ![id] = 1]

flow_put(id) ==
    /\ refs' = [refs EXCEPT ![id] = @ - 1]
    /\ recs' = IF refs[id] = 1 THEN recs \ {id} ELSE recs
    /\ UNCHANGED counter

Parsed(j) == \A i \in Jobs : i < j => pc[i] \notin {"new", "bad"}

\* add_job reaches flow_init_job.
flow_init_job(j) ==
    /\ pc[j] = "new"
    /\ Parsed(j)
    /\ IF conf.flow[j] # 0
       THEN flow' = [flow EXCEPT ![j] = conf.id[j]] /\ flow_get(conf.id[j])
       ELSE UNCHANGED <<flow, recs, refs, counter>>
    /\ pc' = [pc EXCEPT ![j] = IF j \in conf.broken THEN "bad" ELSE "loop"]
    /\ UNCHANGED <<conf, reg, done, expired>>

\* The rest of add_job fails: put_job calls flow_exit_job.
flow_exit_job(j) ==
    /\ pc[j] = "bad"
    /\ IF flow[j] # 0
       THEN flow_put(flow[j]) /\ flow' = [flow EXCEPT ![j] = 0]
       ELSE UNCHANGED <<flow, recs, refs, counter>>
    /\ pc' = [pc EXCEPT ![j] = "failed"]
    /\ UNCHANGED <<conf, reg, done, expired>>

-------------------------------------------------------------------------------
(* The jobs run.                                                             *)

Running == \A j \in Jobs : pc[j] \notin {"new", "bad"}
Shared == <<conf, flow, recs, refs>>

\* The runtime of the jobs passes.
Expire ==
    /\ Running
    /\ conf.runtime
    /\ ~ expired
    /\ expired' = TRUE
    /\ UNCHANGED <<pc, counter, reg, done, Shared>>

\* The head of the loop of do_io: all IO done, or the runtime exceeded.
LoopEnds(j) ==
    /\ Running
    /\ pc[j] = "loop"
    /\ done[j] = conf.ios[j] \/ expired
    /\ pc' = [pc EXCEPT ![j] = "ended"]
    /\ UNCHANGED <<counter, reg, done, expired, Shared>>

\* Mutant: the sign of the job's flow is left out of the comparison.
ExceededUnsigned(j) == flow[j] # 0 /\ counter[flow[j]] > conf.watermark

Exceeded(j) ==
    /\ flow[j] # 0
    /\ (IF conf.flow[j] > 0 THEN 1 ELSE -1) * counter[flow[j]] > conf.watermark

\* flow_threshold_exceeded: a job above the watermark sleeps and starts over.
flow_threshold_exceeded(j) ==
    /\ Running
    /\ pc[j] = "loop"
    /\ done[j] < conf.ios[j]
    /\ ~ expired
    /\ ~ Exceeded(j)
    /\ pc' = [pc EXCEPT ![j] = IF flow[j] = 0 THEN "issue" ELSE "read"]
    /\ UNCHANGED <<counter, reg, done, expired, Shared>>

Read(j) ==
    /\ pc[j] = "read"
    /\ reg' = [reg EXCEPT ![j] = counter[flow[j]]]
    /\ pc' = [pc EXCEPT ![j] = "write"]
    /\ UNCHANGED <<counter, done, expired, Shared>>

Write(j) ==
    /\ pc[j] = "write"
    /\ counter' = [counter EXCEPT ![flow[j]] = reg[j] + conf.flow[j]]
    /\ pc' = [pc EXCEPT ![j] = "issue"]
    /\ UNCHANGED <<reg, done, expired, Shared>>

\* The rest of the turn does one IO.
Issue(j) ==
    /\ pc[j] = "issue"
    /\ done' = [done EXCEPT ![j] = @ + 1]
    /\ pc' = [pc EXCEPT ![j] = "loop"]
    /\ UNCHANGED <<counter, reg, expired, Shared>>

Turn(j) == LoopEnds(j) \/ flow_threshold_exceeded(j) \/ Read(j) \/ Write(j) \/ Issue(j)
Parse(j) == flow_init_job(j) \/ flow_exit_job(j)

Next == Expire \/ \E j \in Jobs : Parse(j) \/ Turn(j)

\* The main thread goes on, time passes, and every job is scheduled.
Fairness == /\ WF_vars(Expire \/ \E j \in Jobs : Parse(j))
            /\ \A j \in Jobs : WF_vars(Turn(j))

Spec == Init /\ [][Next]_vars /\ Fairness

-------------------------------------------------------------------------------
\* A record exists exactly while jobs use it, and refs counts them, whatever
\* jobs fail after flow_init_job (flow_get and flow_put).
FlowCounted ==
    \A i \in Ids : LET users == {j \in Jobs : flow[j] = i} IN
        /\ i \in recs <=> users # {}
        /\ i \in recs => refs[i] = Cardinality(users)

\* With one job on each side the unsynchronised counter stays within the
\* watermark and one turn, however the turns interleave
\* (flow_threshold_exceeded).  A third job breaks this: its write of a value
\* read long ago lets a job pass the test that then adds to the older value.
Side(i, up) == {j \in Jobs : flow[j] = i /\ (conf.flow[j] > 0) = up}
FlowBounded ==
    \A i \in recs : \A up \in BOOLEAN : \A j \in Side(i, up) :
        (\A u \in BOOLEAN : Cardinality(Side(i, u)) <= 1) =>
            IF up THEN counter[i] <= conf.watermark + conf.flow[j]
            ELSE counter[i] >= conf.flow[j] - conf.watermark

\* While a job of either side has IO left, not everyone waits for everyone.
SomeoneRuns ==
    \A i \in recs :
        LET at(j) == pc[j] = "loop" /\ done[j] < conf.ios[j] IN
        (\A up \in BOOLEAN : \E j \in Side(i, up) : at(j))
            => \E j \in Jobs : flow[j] = i /\ at(j) /\ ~ Exceeded(j)

\* Every job ends, also one that the others have left behind above the
\* watermark, as the runtime is looked at before the flow.
AllEnded == \A j \in Jobs : pc[j] \in {"ended", "failed"}
===============================================================================
