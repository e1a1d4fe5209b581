-------------------------------- MODULE Rate --------------------------------
(***************************************************************************)
(* The direction of every IO of a job and its pace (io_u.c get_rw_ddir,    *)
(* rate_ddir; backend.c check_min_rate): syncs after a number of writes,   *)
(* the mix of reads and writes, the sleep that holds a direction to its    *)
(* rate, and the check that it is not below the least rate.                *)
(*                                                                         *)
(* An IO moves one block.  Rates are blocks in SEC units of the clock.     *)
(* The IO loop is here a number of IOs in flight, which complete in any    *)
(* order and at any time; no signal cuts a sleep short.                    *)
(***************************************************************************)
EXTENDS Integers, FiniteSets

CONSTANTS Confs,        \* the options of a job
          SEC,          \* units of the clock in a second
          WINDOW,       \* rate_ddir: the 100 ms a direction may be ahead
          SETTLE,       \* __check_min_rate: the 2 s before the first sample
          Late,         \* by how much a sleep may last too long
          MaxTime,      \* bound: the clock
          MaxIOs        \* bound: reads and writes issued

VARIABLES conf,
          clock,
          io_issues,
          last_was_sync,
          rwmix_ddir,
          rwmix_issues,
          rate_pending_usleep,
          this_io_blocks,     \* also this_io_bytes
          flight,             \* IOs of each kind that are queued
          sample,             \* rate_bytes, lastrate of each direction
          first,              \* the first of these samples
          unsynced,           \* writes issued since the last sync
          error

vars == <<conf, clock, io_issues, last_was_sync, rwmix_ddir, rwmix_issues,
          rate_pending_usleep, this_io_blocks, flight, sample, first, unsynced, error>>

Ddirs == {"read", "write"}
NoSample == [blocks |-> 0, at |-> 0]
Other(ddir) == IF ddir = "read" THEN "write" ELSE "read"
td_rw == conf.td_ddir = "rw"
usec_for_io(blocks, bps) == (blocks \div bps) * SEC + ((blocks % bps) * SEC) \div bps
InFlight == flight["read"] + flight["write"] + flight["sync"]

\* fixup_options: one kind of rate, and no least rate above it.
RateOptions(c) ==
    /\ ~(\E d, e \in Ddirs : c.rate[d] > 0 /\ c.rate_iops[e] > 0)
    /\ ~(\E d, e \in Ddirs : c.ratemin[d] > 0 /\ c.rate_iops_min[e] > 0)
    /\ \A d \in Ddirs : c.rate[d] >= c.ratemin[d] /\ c.rate_iops[d] >= c.rate_iops_min[d]

setup_rate(ddir) == IF conf.rate[ddir] > 0 THEN conf.rate[ddir] ELSE conf.rate_iops[ddir]

__should_check_rate(ddir) ==
    \E o \in {conf.rate, conf.ratemin, conf.rate_iops, conf.rate_iops_min} : o[ddir] > 0

Init ==
    /\ conf \in {c \in Confs : RateOptions(c)}
    /\ clock = 0
    /\ io_issues = [d \in Ddirs |-> 0]
    /\ last_was_sync = FALSE
    /\ rwmix_ddir = "read"
    /\ rwmix_issues = 0
    /\ rate_pending_usleep = [d \in Ddirs |-> 0]
    /\ this_io_blocks = [d \in Ddirs |-> 0]
    /\ flight = [k \in Ddirs \cup {"sync"} |-> 0]
    /\ sample = [d \in Ddirs |-> NoSample]
    /\ first = [d \in Ddirs |-> NoSample]
    /\ unsynced = 0
    /\ error = FALSE

----------------------------------------------------------------------------
(* Completion *)

\* Mutant: only whole seconds count.
UsleepWholeSeconds(blocks, ddir, now) ==
    IF __should_check_rate(ddir)
    THEN (blocks[ddir] \div setup_rate(ddir)) * SEC - now
    ELSE rate_pending_usleep[ddir]

\* io_completed: how far each direction is ahead of its rate.
UsleepAfter(blocks, ddir, now) ==
    IF __should_check_rate(ddir)
    THEN usec_for_io(blocks[ddir], setup_rate(ddir)) - now
    ELSE rate_pending_usleep[ddir]

\* __check_min_rate.  A rate of IOs below rate_iops_min is only logged.
__check_min_rate(ddir, blocks) ==
    LET spent == clock - sample[ddir].at
        rate == ((blocks - sample[ddir].blocks) * SEC) \div spent
    IN CASE conf.ratemin[ddir] = 0 /\ conf.rate_iops_min[ddir] = 0 -> "quiet"
         [] clock < SETTLE -> "quiet"
         [] sample[ddir].blocks = 0 -> "sample"
         [] spent < conf.ratecycle -> "quiet"
         [] conf.rate[ddir] > 0 -> IF rate < conf.ratemin[ddir] THEN "missed" ELSE "sample"
         [] OTHER -> IF blocks < conf.rate_iops[ddir] THEN "missed" ELSE "sample"

\* io_u_queued_complete of one IO and, for a read or a write, check_min_rate.
io_completed(kind) ==
    /\ ~error /\ flight[kind] > 0
    /\ flight' = [flight EXCEPT ![kind] = @ - 1]
    /\ last_was_sync' = (kind = "sync")
    /\ IF kind = "sync"
       THEN UNCHANGED <<this_io_blocks, rate_pending_usleep, sample, first, error>>
       ELSE LET blocks == [this_io_blocks EXCEPT ![kind] = @ + 1]
                check == __check_min_rate(kind, blocks[kind])
                now == [blocks |-> blocks[kind], at |-> clock]
            IN /\ this_io_blocks' = blocks
               /\ rate_pending_usleep' = [d \in Ddirs |-> UsleepAfter(blocks, d, clock)]
               /\ error' = (check = "missed")
               /\ sample' = IF check = "sample" THEN [sample EXCEPT ![kind] = now] ELSE sample
               /\ first' = IF check = "sample" /\ sample[kind].blocks = 0
                           THEN [first EXCEPT ![kind] = now] ELSE first
    /\ UNCHANGED <<conf, clock, io_issues, rwmix_ddir, rwmix_issues, unsynced>>

----------------------------------------------------------------------------
(* The next IO *)

should_fsync == ~last_was_sync /\ ~conf.odirect /\ conf.td_ddir \in {"write", "rw"}

\* get_rw_ddir: fsync; fdatasync and sync_file_range differ in the call only.
SyncDue ==
    /\ conf.fsync_blocks > 0
    /\ io_issues["write"] % conf.fsync_blocks = 0
    /\ io_issues["write"] > 0
    /\ should_fsync

get_rand_ddir == {d \in Ddirs : conf.rwmix[d] > 0}

\* get_rw_ddir: the direction and rwmix_issues before the rates are seen.
MixedDdirs ==
    CASE conf.td_ddir # "rw" -> {[ddir |-> conf.td_ddir, issues |-> rwmix_issues]}
      [] io_issues[rwmix_ddir] < rwmix_issues ->
             {[ddir |-> rwmix_ddir, issues |-> rwmix_issues]}
      [] OTHER ->
             {[ddir |-> d,
               issues |-> IF d = rwmix_ddir THEN rwmix_issues
                          ELSE (io_issues[rwmix_ddir] * conf.rwmix[Other(rwmix_ddir)]) \div 100]
              : d \in get_rand_ddir}

\* rate_ddir before the sleep: the direction, and the sleep it needs.
rate_ddir(ddir) ==
    LET pending == rate_pending_usleep
        odir == Other(ddir)
    IN CASE pending[ddir] <= 0 -> [ddir |-> ddir, usec |-> 0]
         [] ~td_rw -> [ddir |-> ddir, usec |-> pending[ddir]]
         [] pending[odir] < WINDOW -> [ddir |-> odir, usec |-> 0]
         [] OTHER -> LET least == IF pending[ddir] <= pending[odir] THEN ddir ELSE odir
                     IN [ddir |-> least, usec |-> pending[least]]

Issued(ddir) ==
    /\ io_issues[ddir] < MaxIOs
    /\ io_issues' = [io_issues EXCEPT ![ddir] = @ + 1]
    /\ unsynced' = IF ddir = "write" THEN unsynced + 1 ELSE unsynced

SyncIo ==
    /\ ~error /\ InFlight < conf.iodepth
    /\ SyncDue
    /\ flight' = [flight EXCEPT !["sync"] = @ + 1]
    /\ unsynced' = 0
    /\ UNCHANGED <<conf, clock, io_issues, last_was_sync, rwmix_ddir, rwmix_issues,
                   rate_pending_usleep, this_io_blocks, sample, first, error>>

\* The next read or write, queued at once.
NextIo ==
    /\ ~error /\ InFlight < conf.iodepth
    /\ ~SyncDue
    /\ \E mix \in MixedDdirs :
         LET next == rate_ddir(mix.ddir)
         IN /\ next.usec = 0
            /\ rwmix_ddir' = next.ddir
            /\ rwmix_issues' = mix.issues
            /\ Issued(next.ddir)
            /\ flight' = [flight EXCEPT ![next.ddir] = @ + 1]
    /\ UNCHANGED <<conf, clock, last_was_sync, rate_pending_usleep, this_io_blocks,
                   sample, first, error>>

\* The next read or write after everything in flight is complete and the sleep is
\* over.  The completions here reach neither bytes_done nor check_min_rate.
SleepIo ==
    /\ ~error /\ InFlight < conf.iodepth
    /\ ~SyncDue
    /\ \E mix \in MixedDdirs, late \in 0 .. Late, syncLast \in BOOLEAN :
         LET next == rate_ddir(mix.ddir)
             usec == next.usec + late
             blocks == [d \in Ddirs |-> this_io_blocks[d] + flight[d]]
             flushed == [d \in Ddirs |-> IF flight["read"] + flight["write"] = 0
                                         THEN rate_pending_usleep[d]
                                         ELSE UsleepAfter(blocks, d, clock)]
         IN /\ next.usec > 0
            /\ clock + usec <= MaxTime
            /\ syncLast => flight["sync"] > 0
            /\ ~syncLast => InFlight = 0 \/ flight["read"] + flight["write"] > 0
            /\ last_was_sync' = IF InFlight = 0 THEN last_was_sync ELSE syncLast
            /\ clock' = clock + usec
            /\ this_io_blocks' = blocks
            /\ rate_pending_usleep' =
                 [d \in Ddirs |-> IF d = next.ddir \/ (td_rw /\ __should_check_rate(d))
                                  THEN flushed[d] - usec ELSE flushed[d]]
            /\ rwmix_ddir' = next.ddir
            /\ rwmix_issues' = mix.issues
            /\ Issued(next.ddir)
            /\ flight' = [k \in DOMAIN flight |-> IF k = next.ddir THEN 1 ELSE 0]
    /\ UNCHANGED <<conf, sample, first, error>>

Tick ==
    /\ ~error /\ clock < MaxTime
    /\ clock' = clock + 1
    /\ UNCHANGED <<conf, io_issues, last_was_sync, rwmix_ddir, rwmix_issues, sample, first,
                   rate_pending_usleep, this_io_blocks, flight, unsynced, error>>

Next ==
    \/ \E kind \in DOMAIN flight : io_completed(kind)
    \/ SyncIo \/ NextIo \/ SleepIo
    \/ Tick

Spec == Init /\ [][Next]_vars

----------------------------------------------------------------------------
(* Properties *)

\* A direction with a rate is never ahead of it by more than the IOs that may be in
\* flight and, in a mixed job, the window in which rate_ddir switches to it.
RateKept ==
    \A d \in Ddirs : setup_rate(d) > 0 =>
        usec_for_io(this_io_blocks[d], setup_rate(d)) <=
            clock + usec_for_io(conf.iodepth, setup_rate(d)) + (IF td_rw THEN WINDOW ELSE 0)

\* "fio will sync the file for every 32 writes issued" (HOWTO fsync): get_rw_ddir never
\* lets more than fsync_blocks writes go out between two syncs.
SyncedInTime ==
    conf.fsync_blocks > 0 /\ ~conf.odirect => unsynced <= conf.fsync_blocks

\* "Failing to meet this requirement, will cause the job to exit" (HOWTO ratemin, the
\* same of rate_iops_min): as long as the job runs, what it did between the first and
\* the last sample of check_min_rate is at least the least rate.
MinRateMet ==
    \A d \in Ddirs : ~error =>
        LET least == IF conf.ratemin[d] > 0 THEN conf.ratemin[d] ELSE conf.rate_iops_min[d]
        IN (sample[d].blocks - first[d].blocks) * SEC >= least * (sample[d].at - first[d].at)
=============================================================================
