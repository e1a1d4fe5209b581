------------------------------- MODULE MCData -------------------------------
(* The components whose state must stay exact over long sequences of calls: *)
(* offsets, layout and sharing of files, contents and history of what was    *)
(* written, its replay, memory, rates, statistics and disk utilisation.      *)
(* They share nothing here: one of them, chosen at the start, takes all the  *)
(* steps, and its variables are the first of v1 .. v13, in the order of its  *)
(* VARIABLES.                                                                *)
EXTENDS Integers

VARIABLES focus, v1, v2, v3, v4, v5, v6, v7, v8, v9, v10, v11, v12, v13

vars == <<focus, v1, v2, v3, v4, v5, v6, v7, v8, v9, v10, v11, v12, v13>>

-----------------------------------------------------------------------------
(* The instances.                                                          *)

\* A random job that writes its file with one block size, and variations
OfRandom ==
    [random |-> TRUE, norandommap |-> FALSE, randomagain |-> FALSE,
     time_based |-> FALSE, rw_seq |-> "sequential", ddir_seq_nr |-> 1,
     ddir_seq_add |-> 0, rw_min_bs |-> 1, min_bs |-> 1, max_bs |-> 1, ba |-> 1,
     start_offset |-> 0, io_size |-> 6, real_file_size |-> 6,
     zone_size |-> 6, zone_range |-> 0, zone_skip |-> 0, covers |-> TRUE]
OfSequential == [OfRandom EXCEPT !.random = FALSE]
OfConfs ==
    {OfRandom,
     [OfRandom EXCEPT !.max_bs = 3, !.real_file_size = 8],
     [OfRandom EXCEPT !.start_offset = 2, !.real_file_size = 8],
     [OfRandom EXCEPT !.time_based = TRUE, !.io_size = 4, !.real_file_size = 4],
     [OfRandom EXCEPT !.norandommap = TRUE, !.max_bs = 2, !.covers = FALSE],
     [OfRandom EXCEPT !.randomagain = TRUE, !.max_bs = 2, !.covers = FALSE],
     [OfRandom EXCEPT !.randomagain = TRUE, !.ddir_seq_nr = 2, !.rw_seq = "identical",
                      !.covers = FALSE],
     [OfRandom EXCEPT !.ddir_seq_nr = 2, !.covers = FALSE],
     OfSequential,
     [OfSequential EXCEPT !.max_bs = 3, !.start_offset = 1, !.real_file_size = 7],
     [OfSequential EXCEPT !.io_size = 7, !.rw_min_bs = 2, !.min_bs = 2, !.max_bs = 2,
                          !.ba = 2, !.real_file_size = 7],
     [OfSequential EXCEPT !.io_size = 5, !.rw_min_bs = 2, !.min_bs = 2, !.max_bs = 2,
                          !.ba = 2, !.real_file_size = 8],
     [OfRandom EXCEPT !.io_size = 5, !.rw_min_bs = 2, !.min_bs = 2, !.max_bs = 2,
                      !.ba = 2, !.real_file_size = 8],
     [OfSequential EXCEPT !.ddir_seq_add = 1, !.covers = FALSE],
     [OfSequential EXCEPT !.ddir_seq_add = -2, !.covers = FALSE],
     [OfSequential EXCEPT !.time_based = TRUE, !.covers = FALSE],
     [OfSequential EXCEPT !.zone_size = 2, !.zone_range = 2, !.zone_skip = 1, !.covers = FALSE]}
Of == INSTANCE Offsets
    WITH BLOCKS_PER_MAP <- 2, RAND_MAX <- 12, FAILED_RANDS <- 3, MaxIOs <- 10,
         Confs <- OfConfs, conf <- v1, f <- v2, td <- v3, io <- v4,
         times <- v5, pc <- v6

\* Files of some size, or -1 when there is none, and the jobs set up on them
SeJob ==
    [files |-> <<"f">>, ddirs |-> {"read"}, filetype |-> "file", size |-> 3,
     size_percent |-> 0, file_size_low |-> 0, file_size_high |-> 0, offset |-> 0,
     overwrite |-> FALSE, noextend |-> FALSE, fill_device |-> FALSE, fallocate |-> "posix",
     create_on_open |-> FALSE, diskless |-> FALSE, random |-> FALSE, softrandommap |-> FALSE,
     pre_read |-> FALSE, rw_min_bs |-> 1, max_bs |-> 2]

SeConf(f, g, jobs) == [disk |-> [f |-> f, g |-> g], jobs |-> jobs, read_only |-> FALSE]
SeConfs ==
    {SeConf(-1, -1, <<[SeJob EXCEPT !.pre_read = TRUE, !.offset = 1]>>),
     SeConf(2, -1, <<[SeJob EXCEPT !.files = <<"f", "g">>, !.size = 5, !.random = TRUE]>>),
     SeConf(3, -1, <<[SeJob EXCEPT !.size = 0, !.offset = 2, !.pre_read = TRUE, !.fallocate = "none"]>>),
     SeConf(5, 1, <<[SeJob EXCEPT !.files = <<"f", "g">>, !.size = 0, !.offset = 1,
                              !.file_size_low = 2, !.file_size_high = 4]>>),
     SeConf(1, 0, <<[SeJob EXCEPT !.size = 0, !.file_size_low = 3, !.file_size_high = 3,
                              !.files = <<"f", "g">>, !.fallocate = "none"]>>),
     SeConf(-1, 2, <<SeJob, [SeJob EXCEPT !.ddirs = {"write"}, !.overwrite = TRUE, !.size = 4,
                                      !.fallocate = "none"]>>),
     SeConf(-1, 2, <<[SeJob EXCEPT !.ddirs = {"write"}, !.fallocate = "none", !.size = 2], SeJob,
                     [SeJob EXCEPT !.ddirs = {"read", "write"}, !.size = 4]>>),
     SeConf(2, -1, <<SeJob, [SeJob EXCEPT !.ddirs = {"write"}, !.size = 4]>>),
     SeConf(4, 4, <<[SeJob EXCEPT !.size_percent = 50],
                [SeJob EXCEPT !.ddirs = {"write"}, !.files = <<"g">>, !.size = 6]>>),
     SeConf(-1, -1, <<[SeJob EXCEPT !.fill_device = TRUE, !.size = 0]>>),
     SeConf(-1, -1, <<[SeJob EXCEPT !.create_on_open = TRUE], [SeJob EXCEPT !.size = 0],
                      [SeJob EXCEPT !.filetype = "pipe"]>>),
     SeConf(5, -1, <<[SeJob EXCEPT !.size = 0, !.offset = 4, !.file_size_low = 2,
                                 !.file_size_high = 3]>>),
     [SeConf(-1, 2, <<SeJob, [SeJob EXCEPT !.files = <<"g">>, !.size = 2]>>)
        EXCEPT !.read_only = TRUE]}
Se == INSTANCE FileSetup
    WITH Wrap <- 16, BLOCKS_PER_MAP <- 2, Confs <- SeConfs, conf <- v1,
         disk <- v2, cur <- v3, pc <- v4, files <- v5, size <- v6, at <- v7,
         left <- v8, error <- v9, short <- v10, state <- v11, terminate <- v12

\* Two jobs: exclusively, and a reader with a writer
ShConf(mode, batch, ddirs) == [mode |-> mode, batch |-> batch, ddirs |-> ddirs]
ShConfs == {ShConf("exclusive", b, <<{"write"}, {"write"}>>) : b \in 0 .. 1} \cup
           {ShConf("readwrite", b, <<{"read"}, {"write"}>>) : b \in 0 .. 1}
Sh == INSTANCE FileShare
    WITH Jobs <- {1, 2}, MaxIOs <- 2, MaxOpens <- 2, Confs <- ShConfs,
         conf <- v1, f <- v2, hash <- v3, value <- v4, pc <- v5, todo <- v6
\* Three jobs, of which two may have different locks.
ShThreeConfs == {ShConf("exclusive", b, <<{"write"}, {"write"}, {"write"}>>) : b \in 0 .. 1}
ShThree == INSTANCE FileShare
    WITH Jobs <- {1, 2, 3}, MaxIOs <- 1, MaxOpens <- 2, Confs <- ShThreeConfs,
         conf <- v1, f <- v2, hash <- v3, value <- v4, pc <- v5, todo <- v6

VbMC == INSTANCE MCVerifyBlock
    WITH min_bs <- 4, Sector <- 2, NBlocks <- 2, MaxWrites <- 3, MaxFaults <-
         2, Confs <- {}, conf <- v1, cells <- v2, want <- v3, pieces <- v4,
         unique <- v5, writes <- v6, faults <- v7, verified <- v8, terminate
         <- v9
Vb == INSTANCE VerifyBlock
    WITH min_bs <- 4, Sector <- 2, NBlocks <- 2, MaxWrites <- 3, MaxFaults <-
         2, Confs <- VbMC!PassConfs, conf <- v1, cells <- v2, want <- v3,
         pieces <- v4, unique <- v5, writes <- v6, faults <- v7, verified <-
         v8, terminate <- v9

\* A random job that writes every block once, and variations
IhRandom ==
    [td_random |-> TRUE, norandommap |-> FALSE, overwrite |-> FALSE, randomagain |-> FALSE,
     variable_bs |-> FALSE, ddir_seq_nr |-> 1, verifysort |-> FALSE,
     verify_backlog |-> 0, trim_backlog |-> 0, trim_zero |-> FALSE, unidir |-> FALSE]
IhConfs ==
    {\* segments of any length written over each other
     [IhRandom EXCEPT !.randomagain = TRUE, !.variable_bs = TRUE],
     \* fixed blocks written over each other, with trims
     [IhRandom EXCEPT !.overwrite = TRUE, !.randomagain = TRUE, !.trim_backlog = 1,
                      !.trim_zero = TRUE],
     [IhRandom EXCEPT !.norandommap = TRUE, !.verify_backlog = 2, !.trim_backlog = 1],
     \* every block once
     [IhRandom EXCEPT !.variable_bs = TRUE, !.verify_backlog = 2, !.trim_backlog = 2,
                      !.trim_zero = TRUE],
     [IhRandom EXCEPT !.verifysort = TRUE, !.trim_backlog = 2],
     \* a sequential job, one whose engine only writes, and runs of blocks
     [IhRandom EXCEPT !.td_random = FALSE, !.verify_backlog = 2, !.trim_backlog = 2,
                      !.trim_zero = TRUE],
     [IhRandom EXCEPT !.td_random = FALSE, !.unidir = TRUE, !.trim_backlog = 2],
     [IhRandom EXCEPT !.ddir_seq_nr = 2]}
Ih == INSTANCE IoHistory
    WITH BLKS_PER_MAP2 <- 2, INT_BLKS <- 2, num_maps <- 2, Lens <- {1, 2, 3},
         MaxWrites <- 3, Confs <- IhConfs, conf <- v1, map2 <- v2, list
         <- v3, tree <- v4, td <- v5, content <- v6, verified <- v7, phase <-
         v8, ok <- v9

Rb == INSTANCE RbTree
    WITH Keys <- 1 .. 7, t <- v1, at <- v2

ReMC == INSTANCE MCReplay
    WITH Names <- <<"a", "b">>, Offsets <- {0, 1}, MaxLines <- 4, Confs <- {},
         conf <- v1, phase <- v2, open <- v3, log <- v4, pos <- v5, cur <- v6,
         files <- v7, list <- v8, replayed <- v9
Re == INSTANCE Replay
    WITH Names <- <<"a", "b">>, Offsets <- {0, 1}, MaxLines <- 4, Confs <-
         ReMC!PassConfs, conf <- v1, phase <- v2, open <- v3, log <- v4, pos
         <- v5, cur <- v6, files <- v7, list <- v8, replayed <- v9

\* One device; the trace cut off and without stalls, with a second device that
\* this machine has not; and both redirected
BlConf ==
    [devs |-> {1}, found |-> {1}, redirect |-> FALSE, earlier |-> FALSE, cut |-> 0,
     read_only |-> FALSE, no_stall |-> FALSE, cpus |-> {0, 1}, steps |-> {0, 3}]
BlConfs ==
    {BlConf,
     [BlConf EXCEPT !.devs = {1, 2}, !.cut = 1, !.read_only = TRUE, !.no_stall = TRUE,
                    !.cpus = {0}, !.steps = {0}],
     [BlConf EXCEPT !.devs = {1, 2}, !.found = {1, 2}, !.redirect = TRUE,
                    !.no_stall = TRUE, !.cpus = {0}, !.steps = {0}]}
Bl == INSTANCE Blktrace
    WITH HEADER <- 2, TRACE_FIFO_SIZE <- 4, NSEC <- 2,
         MaxEntries <- 3, Confs <- BlConfs, conf <- v1, phase <- v2,
         trace <- v3, fifo <- v4, rd <- v5, nr <- v6, ttime <- v7, cpu <- v8,
         last <- v9, files <- v10, list <- v11

\* Requests up to a word in pools of three words, and requests over several
\* words, the largest more than a pool has at first.
Sm == INSTANCE Smalloc
    WITH Threads <- {1, 2}, SMALLOC_BPI <- 3, INITIAL_SIZE <- 3, MAX_POOLS <- 2,
         Sizes <- {1, 2, 3}, MaxLive <- 3, mp <- v1, nr_pools <- v2,
         last_pool <- v3, lock <- v4, live <- v5, call <- v6
SmLarge == INSTANCE Smalloc
    WITH Threads <- {1, 2}, SMALLOC_BPI <- 3, INITIAL_SIZE <- 2, MAX_POOLS <- 2,
         Sizes <- {1, 2, 4, 7}, MaxLive <- 2, mp <- v1, nr_pools <- v2,
         last_pool <- v3, lock <- v4, live <- v5, call <- v6

RaPair(r, w) == [read |-> r, write |-> w]
RaWrites ==
    [td_ddir |-> "write", odirect |-> FALSE, iodepth |-> 1, fsync_blocks |-> 0,
     rwmix |-> RaPair(50, 50), ratecycle |-> 4, rate |-> RaPair(0, 0), ratemin |-> RaPair(0, 0),
     rate_iops |-> RaPair(0, 0), rate_iops_min |-> RaPair(0, 0)]
RaConfs ==
    {[RaWrites EXCEPT !.fsync_blocks = 2],
     [RaWrites EXCEPT !.fsync_blocks = 2, !.td_ddir = "rw"],
     [RaWrites EXCEPT !.rate = RaPair(0, 10), !.iodepth = 2],
     [RaWrites EXCEPT !.rate = RaPair(7, 10), !.td_ddir = "rw"],
     [RaWrites EXCEPT !.rate = RaPair(0, 10), !.td_ddir = "rw", !.iodepth = 2],
     [RaWrites EXCEPT !.rate = RaPair(10, 0), !.ratemin = RaPair(5, 0), !.td_ddir = "read"]}
Ra == INSTANCE Rate
    WITH SEC <- 20, WINDOW <- 2, SETTLE <- 3, Late <- 1, MaxTime <- 14, MaxIOs
         <- 6, Confs <- RaConfs, conf <- v1, clock <- v2, io_issues <-
         v3, last_was_sync <- v4, rwmix_ddir <- v5, rwmix_issues <- v6,
         rate_pending_usleep <- v7, this_io_blocks <- v8, flight <- v9, sample
         <- v10, first <- v11, unsynced <- v12, error <- v13

\* A group reported together, jobs reported alone, and an averaged log of reads
\* and writes
StJob(groupid, group_reporting, clat_percentiles) ==
    [groupid |-> groupid, group_reporting |-> group_reporting,
     clat_percentiles |-> clat_percentiles]
StConf(jobs) ==
    [jobs |-> jobs, ddirs |-> {"read"}, vals |-> {0, 5, 23, 40}, avg_msec |-> 0]
StConfs ==
    {StConf(<<StJob(0, TRUE, TRUE), StJob(0, TRUE, TRUE)>>),
     StConf(<<StJob(0, FALSE, TRUE), StJob(0, FALSE, TRUE), StJob(1, TRUE, TRUE)>>),
     StConf(<<StJob(0, TRUE, FALSE), StJob(0, TRUE, FALSE), StJob(1, TRUE, TRUE)>>),
     [jobs |-> <<StJob(0, TRUE, TRUE)>>, ddirs |-> {"read", "write"}, vals |-> {0, 5},
      avg_msec |-> 2]}
St == INSTANCE Stats
    WITH FIO_IO_U_PLAT_BITS <- 1, FIO_IO_U_PLAT_GROUP_NR <- 5, MaxTime <- 4,
         MaxSamples <- 4, Confs <- StConfs, Percentiles <- <<1, 50, 99>>, conf <- v1, clock <- v2, ts <- v3, iolog
         <- v4, samples <- v5, report <- v6

\* md0 is made of the first partitions, md1 of md0 or of the second ones
DuRun(files, md1, ticks) ==
    [files |-> files, fails |-> {}, ticks |-> ticks,
     dir |-> [sda1 |-> "sda", sda2 |-> "sda", sdb1 |-> "sdb", sdb2 |-> "sdb",
              md0 |-> "md0", md1 |-> "md1", tmpfs |-> "NULL"],
     slaves |-> [sda |-> <<>>, sdb |-> <<>>, md0 |-> <<"sda1", "sdb1">>, md1 |-> md1]]
DuSecond == <<"sda2", "sdb2">>
DuConfs ==
    {DuRun(<<"sda1", "tmpfs", "sda2">>, DuSecond, 1),
     DuRun(<<"tmpfs", "tmpfs", "sda1">>, DuSecond, 1), DuRun(<<"md0", "sda1">>, <<>>, 1),
     DuRun(<<"md0", "md1">>, DuSecond, 1), DuRun(<<"md1">>, <<"md0">>, 1),
     [DuRun(<<"sda1", "sdb1">>, <<>>, 1) EXCEPT !.fails = {1}]}
Du == INSTANCE DiskUtil
    WITH MaxIo <- 2, MaxOpens <- 2, Confs <- DuConfs,
         conf <- v1, pc <- v2, next <- v3, disk_list <- v4, du <- v5, last <-
         v6, f_du <- v7, job <- v8, stat <- v9, tick <- v10, count <- v11

-----------------------------------------------------------------------------
(* One of them runs; From<n> and Keep<n> are of the variables it leaves out. *)

From13 == v13 = "off"
From12 == v12 = "off" /\ From13
From10 == v10 = "off" /\ v11 = "off" /\ From12
From7 == v7 = "off" /\ v8 = "off" /\ v9 = "off" /\ From10
From3 == v3 = "off" /\ v4 = "off" /\ v5 = "off" /\ v6 = "off" /\ From7

Keep13 == UNCHANGED <<v13>>
Keep12 == UNCHANGED <<v12>> /\ Keep13
Keep10 == UNCHANGED <<v10, v11>> /\ Keep12
Keep7 == UNCHANGED <<v7, v8, v9>> /\ Keep10
Keep3 == UNCHANGED <<v3, v4, v5, v6>> /\ Keep7

Init ==
    \/ focus = "offsets" /\ Of!Init /\ From7
    \/ focus = "file_setup" /\ Se!Init /\ From13
    \/ focus = "file_share" /\ Sh!Init /\ From7
    \/ focus = "file_share_three" /\ ShThree!Init /\ From7
    \/ focus = "verify_block" /\ Vb!Init /\ From10
    \/ focus = "io_history" /\ Ih!Init /\ From10
    \/ focus = "rbtree" /\ Rb!Init /\ From3
    \/ focus = "replay" /\ Re!Init /\ From10
    \/ focus = "blktrace" /\ Bl!Init /\ From12
    \/ focus = "smalloc" /\ Sm!sinit /\ From7
    \/ focus = "smalloc_large" /\ SmLarge!sinit /\ From7
    \/ focus = "rate" /\ Ra!Init
    \/ focus = "stats" /\ St!Init /\ From7
    \/ focus = "disk_util" /\ Du!Init /\ From12

Next ==
    /\ \/ focus = "offsets" /\ Of!Next /\ Keep7
       \/ focus = "file_setup" /\ Se!Next /\ Keep13
       \/ focus = "file_share" /\ Sh!Next /\ Keep7
       \/ focus = "file_share_three" /\ ShThree!Next /\ Keep7
       \/ focus = "verify_block" /\ Vb!Next /\ Keep10
       \/ focus = "io_history" /\ Ih!Next /\ Keep10
       \/ focus = "rbtree" /\ Rb!Next /\ Keep3
       \/ focus = "replay" /\ Re!Next /\ Keep10
       \/ focus = "blktrace" /\ Bl!Next /\ Keep12
       \/ focus = "smalloc" /\ Sm!Next /\ Keep7
       \/ focus = "smalloc_large" /\ SmLarge!Next /\ Keep7
       \/ focus = "rate" /\ Ra!Next
       \/ focus = "stats" /\ St!Next /\ Keep7
       \/ focus = "disk_util" /\ Du!Next /\ Keep12
    /\ UNCHANGED focus

Spec == Init /\ [][Next]_vars

-----------------------------------------------------------------------------
(* Properties.                                                             *)

\* No IO lies outside the part of the file, or the zones, the job was given, but for
\* less than a block when blocks of a fixed size do not divide it; a job with a
\* random map, and a sequential one, does every block once and all of them; and an
\* IO to what was written before is known to be one (get_next_offset,
\* get_next_buflen, mark_random_map and mark_bit_map).
OffsetsRight ==
    focus = "offsets" => /\ Of!InsideFile /\ Of!InsideZones
                         /\ Of!CoversEachOnce /\ Of!AgainKnown

\* A job that runs for a time starts over (fio_file_reset) only after a complete pass.
PassComplete ==
    [][(focus = "offsets" /\ v1.covers /\ Of!StartedOver(v2, v2'))
            => \A b \in Of!Wanted : v5[b] = 1]_vars

\* When jobs start, setup_files has laid out the whole range each of them reads,
\* but for files that a job which only writes had to extend and created anew; none
\* is told to do more IO than its ranges hold, and a file taken for one with a
\* random map has all of it.
RangeOnDisk == focus = "file_setup" => Se!RangeOnDisk /\ Se!SizeHeld /\ Se!MapsAgree

\* A write to a locked file is alone, over all opens and closes of it; a file in
\* the hash has a descriptor and is alone of its name; after the last close all
\* locks are free, and never do all jobs wait (lock_file, unlock_file_all).
SharedRight ==
    /\ focus = "file_share" => /\ Sh!IoExclusive /\ Sh!HashedOpen
                               /\ Sh!LocksFreed /\ Sh!SomeoneProceeds
    /\ focus = "file_share_three" => /\ ShThree!IoExclusive /\ ShThree!HashedOpen
                                     /\ ShThree!LocksFreed /\ ShThree!SomeoneProceeds

\* verify_io_u tells right: what reads back as it was written verifies, and what is
\* spoiled, torn, misplaced or stale does not.
VerdictTrue == focus = "verify_block" => Vb!NoFalseAlarm /\ Vb!DamageSeen

\* What a logged piece says of its blocks is what was last written to them, through
\* overlaps, trims and backlogs, and before the next loop the last write to every
\* block has been verified; no assertion fails (log_io_piece, get_next_verify).
HistoryTrue ==
    focus = "io_history" => /\ Ih!NeverAsserts /\ Ih!PiecesCurrent
                            /\ Ih!HistoryCounted /\ Ih!AllVerified

\* The tree loses no node and keeps its order, no red node has a red child, all
\* ways down meet as many black nodes, and rb_insert_color and __rb_erase_color
\* take no more turns than the tree has levels.
TreeRight == focus = "rbtree" => Rb!Sorted /\ Rb!Balanced /\ Rb!TurnsBounded

\* A replay issues the logged IO, each on its file and in order, uses and opens
\* files only as their state allows, and leaves them as the log does
\* (read_iolog2, read_iolog_get, td_io_close_file).
ReplayRight == focus = "replay" => Re!ReplaysLog /\ Re!ReplayedOpen /\ Re!FilesLeft

\* The ring holds the next bytes of the trace, every queued IO of it is replayed in
\* order, on its device when that is the only one with such IO, and the delays are
\* no longer than the trace.
TraceRight == focus = "blktrace" => Bl!RingExact /\ Bl!EachOnItsDevice /\ Bl!NotSlower

\* Live allocations share no block, bitmaps and counts of a pool are those of its
\* live allocations, and memory that is freed is found again by requests that are
\* no larger than a word of the bitmap.
MemoryExact ==
    /\ focus = "smalloc" => /\ Sm!Disjoint /\ Sm!MarkedExactly
                            /\ Sm!FreeCounted /\ Sm!NothingForgotten
    /\ focus = "smalloc_large" => /\ SmLarge!Disjoint /\ SmLarge!MarkedExactly
                                  /\ SmLarge!FreeCounted

\* A direction is ahead of its rate by no more than IOs may be in flight, no more
\* than fsync_blocks writes go out between syncs, and a job that does not meet its
\* least rate does not run on.
RatesKept == focus = "rate" => Ra!RateKept /\ Ra!SyncedInTime /\ Ra!MinRateMet

\* Every job is in one report; a report's mean, variance and extremes are those of
\* all its samples, a percentile is the sample of that rank up to the error of its
\* bucket, and an averaged log has the mean of the samples since the last entry.
ReportsTrue ==
    focus = "stats" => /\ St!ReportsRight /\ St!MergedTrue /\ St!PercentilesTrue
                       /\ St!ErrorBounded /\ St!LogTrue

\* A file has the disk_util of its disk; a disk in use is counted as such, and
\* slaves outlive their RAIDs; what one thread at a time reports of a disk is
\* what it did.
DisksRight ==
    focus = "disk_util" => /\ Du!DiskOfFile /\ Du!UsersKept
                           /\ Du!TicksTrue /\ Du!SlavesLive
=============================================================================
