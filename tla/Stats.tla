------------------------------- MODULE Stats --------------------------------
(***************************************************************************)
(* The statistics of latencies (stat.c): every sample of a job goes into   *)
(* its minimum, maximum, mean and variance, into a bucket for percentiles  *)
(* and into a log that may be averaged; at the end show_run_stats merges   *)
(* the jobs of a group into one report and finds its percentiles.          *)
(*                                                                         *)
(* Doubles are exact: a mean is a number of 1/Unit, a sum of squares one   *)
(* of 1/Unit^2, which is enough for the samples of a report if there are   *)
(* at most four.                                                           *)
(***************************************************************************)
EXTENDS Integers, Sequences, SequencesExt, FiniteSets

CONSTANTS FIO_IO_U_PLAT_BITS,      \* bits of a sample that tell buckets apart (6)
          FIO_IO_U_PLAT_GROUP_NR,  \* groups of buckets (19)
          Percentiles,             \* percentile_list
          MaxTime,                 \* bound: the clock
          MaxSamples,              \* bound: samples of all jobs, at most 4
          Confs                    \* [jobs, ddirs, vals, avg_msec]: the jobs, directions
                                   \* and latencies of their IO, the averaging of logs

VARIABLES conf,
          clock,
          ts,          \* thread_stat of every job
          iolog,       \* clat_log of every job
          samples,     \* the samples of every job, as they came
          report       \* what show_run_stats shows, <<>> before

vars == <<conf, clock, ts, iolog, samples, report>>

Unit == 12
Infinity == 1000000
Ddirs == {"read", "write"}
Jobs == DOMAIN conf.jobs
FIO_IO_U_PLAT_VAL == 2 ^ FIO_IO_U_PLAT_BITS
FIO_IO_U_PLAT_NR == FIO_IO_U_PLAT_GROUP_NR * FIO_IO_U_PLAT_VAL
Lesser(a, b) == IF a < b THEN a ELSE b
Greater(a, b) == IF a > b THEN a ELSE b

----------------------------------------------------------------------------
(* Buckets *)

msb(val) == IF val = 0 THEN 0 ELSE CHOOSE n \in 0 .. val : 2 ^ n <= val /\ val < 2 ^ (n + 1)

plat_val_to_idx(val) ==
    LET error_bits == msb(val) - FIO_IO_U_PLAT_BITS
    IN IF error_bits <= 0 THEN val
       ELSE Lesser((error_bits + 1) * FIO_IO_U_PLAT_VAL
                       + ((val \div 2 ^ error_bits) % FIO_IO_U_PLAT_VAL),
                   FIO_IO_U_PLAT_NR - 1)

\* plat_idx_to_val: the middle of the bucket.
plat_idx_to_val(idx) ==
    LET error_bits == (idx \div FIO_IO_U_PLAT_VAL) - 1
        k == idx % FIO_IO_U_PLAT_VAL
    IN IF idx < 2 * FIO_IO_U_PLAT_VAL THEN idx
       ELSE 2 ^ (error_bits + FIO_IO_U_PLAT_BITS) + ((2 * k + 1) * 2 ^ error_bits) \div 2

\* calc_clat_percentiles: for each the first bucket with which enough samples
\* are passed, -1 for one that is not reached.  plat is the bucket of every
\* sample, nr the samples there should be.
calc_clat_percentiles(plat, nr) ==
    LET Sum(i) == Cardinality({s \in 1 .. Len(plat) : plat[s] <= i})
        Reached(p) == {i \in 0 .. FIO_IO_U_PLAT_NR - 1 : Sum(i) * 100 >= p * nr}
    IN [j \in DOMAIN Percentiles |->
          IF Reached(Percentiles[j]) = {} THEN -1
          ELSE plat_idx_to_val(CHOOSE i \in Reached(Percentiles[j]) :
                                  \A k \in Reached(Percentiles[j]) : i <= k)]

----------------------------------------------------------------------------
(* Samples *)

NoStat == [min_val |-> Infinity, max_val |-> 0, mean |-> 0, S |-> 0, samples |-> 0]

add_stat_sample(is, data) ==
    LET delta == Unit * data - is.mean
        mean == is.mean + delta \div (is.samples + 1)
    IN [min_val |-> Lesser(is.min_val, data), max_val |-> Greater(is.max_val, data),
        mean |-> mean, S |-> is.S + delta * (Unit * data - mean),
        samples |-> is.samples + 1]

\* reset_io_stat
reset_io_stat == [NoStat EXCEPT !.min_val = 0]

__add_log_sample(l, val, ddir) ==
    [l EXCEPT !.log = Append(@, [val |-> val, ddir |-> ddir, time |-> clock]),
              !.avg_last = IF l.log = <<>> THEN clock ELSE @]

\* The mean of a window goes into the log, if there is anything in the window.
LogWindow(l, ddir) ==
    IF l.avg_window[ddir].samples = 0 THEN l
    ELSE __add_log_sample(l, (l.avg_window[ddir].mean + Unit \div 2) \div Unit, ddir)

\* add_log_sample: reads and writes have a window each, and when the time is
\* over both are logged.
add_log_sample(l, val, ddir) ==
    LET sampled == [l EXCEPT !.avg_window[ddir] = add_stat_sample(@, val)] IN
    IF conf.avg_msec = 0 THEN __add_log_sample(l, val, ddir)
    ELSE IF clock - l.avg_last < conf.avg_msec THEN sampled
    ELSE [LogWindow(LogWindow(sampled, "read"), "write")
            EXCEPT !.avg_window = [d \in Ddirs |-> reset_io_stat], !.avg_last = clock]

RECURSIVE Total(_)
Total(s) == IF s = <<>> THEN 0 ELSE Head(s) + Total(Tail(s))
Taken == Total([j \in Jobs |-> Len(samples[j])])

add_clat_sample(j, ddir, usec) ==
    /\ report = <<>> /\ Taken < MaxSamples
    /\ ts' = [ts EXCEPT ![j].clat_stat[ddir] = add_stat_sample(@, usec),
                        ![j].io_u_plat[ddir] = IF conf.jobs[j].clat_percentiles
                                               THEN Append(@, plat_val_to_idx(usec)) ELSE @]
    /\ iolog' = [iolog EXCEPT ![j] = add_log_sample(@, usec, ddir)]
    /\ samples' = [samples EXCEPT ![j] = Append(@, [val |-> usec, ddir |-> ddir])]
    /\ UNCHANGED <<conf, clock, report>>

Wait ==
    /\ report = <<>> /\ clock < MaxTime /\ conf.avg_msec > 0
    /\ clock' = clock + 1
    /\ UNCHANGED <<conf, ts, iolog, samples, report>>

----------------------------------------------------------------------------
(* The report *)

\* Mutant: the distance of the means does not count.
SumStatMeans(dst, src, nr) ==
    IF src.samples = 0 THEN dst
    ELSE LET n == dst.samples + src.samples
         IN [min_val |-> Lesser(dst.min_val, src.min_val),
             max_val |-> Greater(dst.max_val, src.max_val),
             mean |-> (src.mean * src.samples + dst.mean * dst.samples) \div n,
             S |-> src.S + dst.S, samples |-> n]

\* sum_stat: the first one of a report is taken as it is.
sum_stat(dst, src, nr) ==
    IF src.samples = 0 THEN dst
    ELSE LET n == dst.samples + src.samples
             delta == src.mean - dst.mean
         IN [min_val |-> Lesser(dst.min_val, src.min_val),
             max_val |-> Greater(dst.max_val, src.max_val),
             mean |-> IF nr = 1 THEN src.mean
                      ELSE (src.mean * src.samples + dst.mean * dst.samples) \div n,
             S |-> IF nr = 1 THEN src.S
                   ELSE src.S + dst.S + (delta * delta * dst.samples * src.samples) \div n,
             samples |-> n]

NoReport == [groupid |-> -1, members |-> {}, clat_percentiles |-> FALSE,
             clat_stat |-> [d \in Ddirs |-> NoStat], io_u_plat |-> [d \in Ddirs |-> <<>>]]

\* The reports show_run_stats allocates: one for each job, or for each group
\* with group_reporting.
nr_ts ==
    LET Counted[i \in 0 .. Len(conf.jobs)] ==
            IF i = 0 THEN [nr |-> 0, last_ts |-> -1]
            ELSE LET c == Counted[i - 1]
                     td == conf.jobs[i]
                 IN IF ~td.group_reporting THEN [c EXCEPT !.nr = @ + 1]
                    ELSE IF c.last_ts = td.groupid THEN c
                    ELSE [nr |-> c.nr + 1, last_ts |-> td.groupid]
    IN Counted[Len(conf.jobs)].nr

\* sum_thread_stats
sum_thread_stats(dst, i, idx) ==
    [groupid |-> IF dst.groupid = -1 THEN conf.jobs[i].groupid ELSE dst.groupid,
     members |-> dst.members \cup {i},
     clat_percentiles |-> conf.jobs[i].clat_percentiles,
     clat_stat |-> [d \in Ddirs |-> sum_stat(dst.clat_stat[d], ts[i].clat_stat[d], idx)],
     io_u_plat |-> [d \in Ddirs |-> dst.io_u_plat[d] \o ts[i].io_u_plat[d]]]

\* show_run_stats: the next report when a job is not of the last one's group.
show_run_stats ==
    LET Summed[i \in 0 .. Len(conf.jobs)] ==
            IF i = 0 THEN [ts |-> [k \in 1 .. nr_ts |-> NoReport], j |-> 1, idx |-> 0,
                           last_ts |-> -1]
            ELSE LET r == Summed[i - 1]
                     td == conf.jobs[i]
                     new == r.idx > 0 /\ (td.group_reporting => r.last_ts # td.groupid)
                     j == IF new THEN r.j + 1 ELSE r.j
                     idx == IF new THEN 1 ELSE r.idx + 1
                 IN [ts |-> [r.ts EXCEPT ![j] = sum_thread_stats(@, i, idx)], j |-> j,
                     idx |-> idx, last_ts |-> td.groupid]
    IN /\ report = <<>>
       /\ report' = [k \in 1 .. nr_ts |->
                       LET t == Summed[Len(conf.jobs)].ts[k]
                       IN [ts |-> t,
                           percentiles |-> [d \in Ddirs |->
                               IF ~t.clat_percentiles THEN <<>>
                               ELSE calc_clat_percentiles(t.io_u_plat[d],
                                                          t.clat_stat[d].samples)]]]
       /\ UNCHANGED <<conf, clock, ts, iolog, samples>>

Init ==
    /\ conf \in Confs /\ clock = 0 /\ report = <<>>
    /\ ts = [j \in Jobs |-> [clat_stat |-> [d \in Ddirs |-> NoStat],
                             io_u_plat |-> [d \in Ddirs |-> <<>>]]]
    /\ iolog = [j \in Jobs |-> [log |-> <<>>, avg_window |-> [d \in Ddirs |-> reset_io_stat],
                                avg_last |-> 0]]
    /\ samples = [j \in Jobs |-> <<>>]

Next ==
    \/ \E j \in Jobs, ddir \in conf.ddirs, usec \in conf.vals : add_clat_sample(j, ddir, usec)
    \/ Wait \/ show_run_stats

Spec == Init /\ [][Next]_vars

----------------------------------------------------------------------------
(* Properties *)

\* The values that job j sampled in a direction.
ValsOf(j, ddir) ==
    LET of == SelectSeq(samples[j], LAMBDA x : x.ddir = ddir) IN
    [n \in DOMAIN of |-> of[n].val]

RECURSIVE AllOf(_, _)
AllOf(members, ddir) ==
    IF members = {} THEN <<>>
    ELSE LET i == CHOOSE i \in members : \A k \in members : i <= k
         IN ValsOf(i, ddir) \o AllOf(members \ {i}, ddir)

\* Every report is of somebody, every job is in one and in no other, and a
\* report has more than one job only if they are of a group and want it, and
\* then all of the group (show_run_stats).
ReportsRight ==
    report # <<>> =>
        /\ UNION {report[k].ts.members : k \in DOMAIN report} = Jobs
        /\ \A k \in DOMAIN report :
             LET m == report[k].ts.members
             IN /\ m # {}
                /\ \A i \in m : \A j \in Jobs \ {i} :
                      j \in m <=> /\ conf.jobs[i].group_reporting
                                 /\ conf.jobs[j].groupid = conf.jobs[i].groupid
                /\ \A l \in DOMAIN report \ {k} : m \cap report[l].ts.members = {}

\* What a report says of mean, variance and extremes of a direction is what all
\* samples of its jobs taken together have, in whichever order and jobs they came.
MergedTrue ==
    \A k \in DOMAIN report, d \in Ddirs :
        LET all == AllOf(report[k].ts.members, d)
            is == report[k].ts.clat_stat[d]
            n == Len(all)
            sum == Total(all)
        IN /\ is.samples = n
           /\ n > 0 => /\ is.mean * n = Unit * sum
                       /\ is.S * n = Unit * Unit * (n * Total([i \in DOMAIN all |-> all[i] * all[i]])
                                                        - sum * sum)
                       /\ is.min_val \in ToSet(all) /\ is.max_val \in ToSet(all)
                       /\ \A v \in ToSet(all) : is.min_val <= v /\ v <= is.max_val

\* A percentile is, up to the error its buckets have, the sample of that rank:
\* as many samples as it asks for are not above it, fewer are below.
PercentilesTrue ==
    \A k \in DOMAIN report, d \in Ddirs : \A p \in DOMAIN report[k].percentiles[d] :
        LET all == AllOf(report[k].ts.members, d)
            BelowOrIn(v) == Cardinality({i \in DOMAIN all : plat_val_to_idx(all[i]) <= plat_val_to_idx(v)})
            Below(v) == Cardinality({i \in DOMAIN all : plat_val_to_idx(all[i]) < plat_val_to_idx(v)})
            got == report[k].percentiles[d][p]
        IN all # <<>> => /\ got # -1
                         /\ BelowOrIn(got) * 100 >= Percentiles[p] * Len(all)
                         /\ Below(got) * 100 < Percentiles[p] * Len(all)

\* The bucket of a sample stands for a value that is wrong by no more than
\* 1/2^(FIO_IO_U_PLAT_BITS+1) of it, up to the greatest value tracked.
ErrorBounded ==
    \A j \in Jobs : \A n \in DOMAIN samples[j] :
        LET v == samples[j][n].val
            w == plat_idx_to_val(plat_val_to_idx(v))
        IN v < 2 ^ (FIO_IO_U_PLAT_GROUP_NR + FIO_IO_U_PLAT_BITS - 1) =>
               /\ (v - w) * 2 ^ (FIO_IO_U_PLAT_BITS + 1) <= v
               /\ (w - v) * 2 ^ (FIO_IO_U_PLAT_BITS + 1) <= v

\* Every entry of an averaged log is the rounded mean of the samples of its
\* direction since the entry before, none in two and none left out, and entries
\* of a direction are no closer than a window (add_log_sample).
LogTrue ==
    \A j \in Jobs, d \in Ddirs :
        LET vals == ValsOf(j, d)
            log == SelectSeq(iolog[j].log, LAMBDA e : e.ddir = d)
            n == Len(log)
            Mean(s) == (2 * Total(s) + Len(s)) \div (2 * Len(s))
            cuts == {c \in [0 .. n -> 0 .. Len(vals)] :
                        /\ c[0] = 0 /\ c[n] = Len(vals) - iolog[j].avg_window[d].samples
                        /\ \A e \in 1 .. n : c[e - 1] < c[e]}
        IN IF conf.avg_msec = 0 THEN [e \in 1 .. n |-> log[e].val] = vals
           ELSE /\ \E c \in cuts : \A e \in 1 .. n :
                     log[e].val = Mean(SubSeq(vals, c[e - 1] + 1, c[e]))
                /\ \A e \in 1 .. n - 1 : log[e + 1].time - log[e].time >= conf.avg_msec
=============================================================================
