# A TLA+ model of fio

fio runs *jobs*: threads or forked processes that generate I/O as a job file
describes it. This directory models fio in TLA+, checks the model with TLC on small
instances, and proves some results with TLAPS for instances of any size.
`PROJECT.json` lists the parts with their status, the runs, the lines each definition
models, and the hazards with the line where each bites.

## The system and its modules

A main thread creates, starts and reaps the jobs. A job sets up its files, then its IO
loop chooses for each *io_u* (a request) a direction, a file, an offset and a length,
gives it to an *engine*, collects completions, counts them and, if told to, logs what
it wrote and verifies it later, itself or with helper threads. Jobs share files, memory
and flow counters; they can be driven by a recorded log, paced, and run on servers that
a client controls.

| Module | Source | What it models |
|---|---|---|
| `FioMutex`, `FioRwLock` | mutex.c | fio_mutex as a lock, as a counter posted to with a timeout, and as a reader/writer lock |
| `Backend` | backend.c, libfio.c | life of the jobs: run_threads, reap_threads, thread_main, fio_terminate_threads, sig_int |
| `AsyncVerify` | verify.c, io_u.c, backend.c | a job and its verify_async threads over io_u_lock and two conditions |
| `IoLoop` | backend.c, io_u.c, ioengines.c | do_io, do_verify, fio_io_sync, cleanup_pending_aio over any engine |
| `IoEngine` | ioengine.h, engines/ | what the engines share, and the device or kernel below them |
| `AioEngines` | engines/libaio.c, posixaio.c, solarisaio.c, windowsaio.c | the hooks of the engines over a system's asynchronous IO |
| `SyscallEngines`, `CommandEngines` | engines/guasi.c, syslet-rw.c, sg.c, binject.c | those that have system calls done in the background, and those that send commands to a device |
| `SyncEngines` | engines/sync.c, mmap.c, splice.c, cpu.c | those that transfer before queue returns |
| `IoService` | ioengine.h, engines/skeleton_external.c | abstract specification: what core and engine promise for every io_u |
| `FileService` | ioengines.c, filesetup.c, io_u.c | opening, closing, references, choice of the next file |
| `FileSetup` | filesetup.c | sizes, laying out of files, random maps, for jobs that share files |
| `FileShare` | filehash.c, filesetup.c | files shared by jobs: hash, inherited descriptors and locks |
| `Offsets` | io_u.c | offset and length of each IO, the random map, zones |
| `Rate` | io_u.c, backend.c | direction and pace: rates, least rates, syncs |
| `VerifyBlock` | verify.c | contents, headers and checksums of blocks on a faulty device |
| `IoHistory`, `RbTree` | iolog.c, seg_2bitsmap.c, iohist_hash.c, trim.c, rbtree.c | the history of writes that verification and trims read |
| `Replay`, `Blktrace` | iolog.c, blktrace.c, fifo.c | replay of iologs and of block traces |
| `Smalloc` | smalloc.c | the shared memory allocator |
| `Flow` | flow.c | flow counters shared by jobs |
| `NetLink`, `Rdma` | engines/net.c, engines/rdma.c | both ends of a link |
| `Stats`, `DiskUtil` | stat.c, diskutil.c | statistics and their reports; utilisation of disks |
| `ClientServer` | client.c, server.c | fio --client with its servers |

`FioMutexProofs`, `FioRwLockProofs`, `BackendProofs`, `BackendEndProofs`,
`AsyncVerifyProofs`, `SmallocProofs`, `FlowProofs` and `FileShareProofs` hold the
theorems. `MC...` modules hold the instances. Operators whose comment begins with
"Mutant" are deliberate mistakes that show a property can fail; no specification uses
them.

### How state and actions correspond to the code

Variables keep the names of the fields or locals they stand for; `pc` (`jpc`, `vpc`,
`cpc`) is a thread's place in its function. A step is a stretch of code that nobody
can observe in the middle: up to the next lock, wait, system call, hook of an engine or
access to memory others use without a lock. Where code tests shared memory without the
lock, the test is a step of its own. Unsigned counters wrap. In more detail:

- *FioMutex.* A step is the code under the pthread mutex; a condition wait ends it.
  Threads are lockers, posters or waiters, as in the source. `lock` is a variable
  because a timeout returns with the mutex held. Wakeups without a signal happen.
- *Backend.* `pc` and `i` are the main thread's place in `run_threads` and the job its
  scans look at; one look at one job is a step, so signals, jobs and crashes come
  between any two. `jpc[j]` is the job's place in `thread_main`, `proc[j]` what waitpid
  would say of its process. Shared memory is read and written directly.
  `fio_terminate_threads` is one step, and so is a job's work, during which its runstate
  moves. Left out: waitpid failing with ECHILD, sums of rates, output, and that the exit
  status is `exit_value` modulo 256.
- *AsyncVerify.* `list[u]` is the list io_u u is on; a thread stands for the list it has
  spliced for itself. The unlocked test of `IO_U_F_FREE_DEF`, after which the job may put
  an io_u a verify thread has put already, is a step, and so is that of
  `verify_thread_exit`. It starts after `verify_async_init`.
- *IoLoop* and the engines. A hook of an engine is a relation between the engine's
  variables before and after a call; a hook that is not enabled blocks. `kernel[u]` is
  what the device does with io_u u, `owed` what it has moved and fio has not counted.
  `IoLoop` calls the hook of the configured engine and goes on with what it returns.
  The device completes, shortens, fails or refuses requests in any order. `IoLoop`
  implements `IoService` under the mapping `ServiceState` (property `Implements`).
- *FileSetup*, *Offsets*, *IoHistory* count in blocks. Every system call of a layout is a
  step that can fail. A random number is any number; the map has words of a few bits.
- *VerifyBlock.* A file is a row of cells: header, checksum, data. The device may lose a
  write, keep its beginning, put it elsewhere or spoil a cell. Checksums do not collide.
- *Smalloc.* One iteration of the search is one step; the global lock is a variable.
- *Flow.* Test, read and write of the counter are three steps, as it has no lock.
- *NetLink*, *Rdma.* A byte is its number in what is sent. Sockets and pipes hold a few
  bytes; datagrams can be lost. The verbs of RDMA are external: queues in order, and one
  event each time the completion queue was armed.
- *FioRwLock.* As FioMutex; an unlock signals one thread, reader or writer, so that of
  several waiting readers the next is woken by the up_read of the one before.
- *FileService.* Completions count `this_io_bytes` and `io_bytes`, by which
  `io_bytes_exceeded` ends a loop and `keep_running` adds one; the end of the ramp time
  sets them back to 0.
- *Blktrace.* A device is found on this machine, is not, or is redirected; the list of
  IO is what `read_blktrace` stores, with the file number it stores.
- *Stats.* Doubles are exact fractions. Samples, windows and reports are kept for each
  direction.
- *DiskUtil.* Jobs open and close files beside each other and beside the disk thread.
  `users` is loaded and stored in two steps, as only the lock of the disk that was opened
  is held. The walk over the slaves of `disk_util_mod` passes the head of a list, where
  it writes to a word that is no disk's: `past`.
- *ClientServer.* Connections are streams of packets that may break at any packet;
  commands can get old before they are answered.

## Runs

Every part is checked with the hazards in `PROJECT.json` in mind. `MCFioMutex`,
`MCWaiting` and `MCData` hold several components that share nothing: a variable (`used`,
`focus`) chooses one at the start, whose variables are mapped onto common ones, and each
property is about the component it names.

| Run | Instances | Shows |
|---|---|---|
| mutex | 4 lockers; 3 posters, a waiter and early timeouts; 3 readers or writers | holders exclude each other, no thread sleeps with nobody left to wake it, every post is taken unless the waiter gave up, every reader and writer is served |
| jobs_failures | 2 jobs of a group, exitall, every kind of failure | `nr_running` exact, at the end all jobs are reaped and errors told, life cycle kept |
| jobs_end | 3 jobs: processes with stone walls anywhere that fail, or are killed or interrupted; threads with delays or cpuio | `todo` exact, walls wait, fio ends |
| verify_all | 2 io_us, 2 verify threads, 2 blocks, both kinds of engine, every failure | depth, references and flags agree with the lists; what is handed over is taken, and who waits for an io_u gets one |
| io_loop | 24 jobs over 14 engines, depth up to 3, 4 transfers and a sync or trim per phase, one fault | lists, depth and flights agree, no assertion fails, bytes are true, each engine implements `IoService`, the job ends |
| client_server | 2 hosts, of which one fails, dies, refuses or is slow; ctrl-c; up to two rounds of ETAs | clients and rounds counted right though answers come late, nobody is dropped early, errors are told, the client ends |
| waiting | file service, smalloc, flow, network and RDMA links | references, counts and bytes are right while somebody waits, and everyone comes to an end |
| data | offsets, file setup and sharing, block contents, write history, red-black tree, replays, smalloc, rates, statistics, disks | what each of them keeps is right after every sequence of calls |
| jobs_delay_interrupt | 2 threads | *violated* `Finishes`: after ctrl-c during a start_delay `todo` wraps and fio does not end |
| jobs_exitall_groups | 3 processes, 2 groups | *violated* `ExitallEndsTheRest`: only the last group is terminated |
| verify_segments | blocks of 2 segments | *violated* `DamageSeen`: the last segment's result replaces that of a bad one |
| replay_files | 2 files open at once | *violated* `ReplaysLog`: IO is replayed on the file named last |

**Bounds.** Two jobs give every interleaving of a job with another and with the main
thread; three add one on each side of a wall and a third party for `exitall`. `UINT_MAX`
is 7: more than the number of jobs, so that a counter wraps only by going below 0, and
odd like the real one, so that a `todo` that wrapped and falls by 2 in every pass misses 0.
Two io_us and two blocks let one io_u be verified while another is in flight, the
job wait for a free one, and an io_u be used twice. In `io_loop` three io_us are enough
for a batch, a low water mark and a requeue at the same time, and four transfers reuse
them; one fault at any place meets every error path. Words of two or three bits make
random maps, segment maps and bitmaps of several words in files and pools of a few
blocks, so that runs cross words and pools get full. The tree has seven keys: erasing
meets every case of recolouring. Pipes and sockets hold less than two blocks, so that
writers wait for room. Histograms have one bit of mantissa and five groups, so that four
values fall on both sides of each boundary. A server's idle loop turns once beside a
running job, and a client asks for at most two ETAs: enough for an answer to come after
its round, and for a round to start with an answer outstanding. MaxWrites, MaxIOs, MaxLines and their like
end a run of calls after enough of them for overlaps, a second pass or a second open.

**Deadlock** is checked for `io_loop` and `client_server`, whose specifications have a
step for being at the end. Elsewhere fio stops when it is done, and in `AsyncVerify` the
code really can deadlock (verify.c:1174).

**Fairness.** The main thread, jobs, the delivery of signals and the device are weakly
fair, and start delays elapse: threads of the operating system run, and none of these
steps waits for anything but its guard. Interrupts, crashes, failures, lost datagrams and
wakeups without a signal are never required. In `AsyncVerify` job and verify threads are
strongly fair: one that can take `io_u_lock` again and again does, as it is held for a
few instructions. `FreeArrives` and `HandedIsTaken` end where no verify thread is left,
because a thread leaves for good when its last block was bad. In `FileService` random
choice of a file is strongly fair: a file that can be drawn again and again is drawn.
In `Rdma` only "some step is taken" is assumed.
`RwServed` assumes that a thread which has the lock unlocks it and that a signalled one
runs; it excuses only threads that take the lock again and again for ever.

**What the passing instances leave out.** Some properties hold only of some options or
faults, because the code does not keep them for others. The passing runs check those for
which they hold. The rest was met with the same modules, by giving them the options or
faults named here, or by reading the code where it says so; most have no promise of a
document to be measured by.

- *Backend:* a stone wall does not wait for a job whose start_delay is not over
  (`DelayStonewallFiles`; backend.c:1448); a process that dies while another job waits
  for its delay makes `nr_running` wrap (`LateFiles`; backend.c:1331); after a round that
  failed to start, the jobs left behind are not reaped (backend.c:1530).
- *AsyncVerify:* with one verify thread the job can end with blocks unverified
  (`EntireContents`; verify.c:1078).
- *IoLoop:* a queue of five drained to one in batches of three waits for a third event
  with two in flight (`LowWaterConfigs`; `Ends`; backend.c:694). The engines do not keep
  their promises under these:
  - *libaio:* an io_submit that takes a part of a batch and then fails (`QueueExact`,
    `Implements`, `Ends`; libaio.c:215); io_getevents interrupted by a signal at depth 3,
    after which it is asked for all events again (`Ends`; the run has depth 2).
  - *posixaio* with a rate: quiescing looks at the io_u just taken, which was never
    given to the system (`QueueExact`, `Ends`).
  - *solarisaio, syslet, guasi, binject, sg:* trims and syncs that are queued are not in
    `io_u_queued` (`QueueExact`).
  - *guasi:* a cancel that always reports success (`Implements`; guasi.c:203) and a
    failing guasi_fetch (`QueueExact`, `BytesTrue`).
  - *syslet:* a short or empty transfer takes the errno of an earlier call (`BytesTrue`,
    `Implements`).
  - *binject* and *sg* on a character device: a failed or short command is counted whole
    (`BytesTrue`, `Implements`); a sync or verify on binject fails an assertion in prep;
    sg in batches, or deeper than two, loses events (`QueueExact`, `Ends`; sg.c:141).
  - *vsync:* a short or failed readv or writev (`BytesTrue`, `Implements`; sync.c:262),
    and iodepth_batch below iodepth, a rate, interrupts, iodepth_batch_complete=0 or
    verify, in which io_us gathered and not yet sent are left behind (`QueueExact`,
    `BytesTrue`).
  - *splice:* a poll that fails returns a positive errno, taken for a length
    (`BytesTrue`, `Implements`; splice.c:183). At the end of a file it loops for ever,
    which is not modelled.
  - *mmap:* a block larger than mmap_map_size of which the whole cannot be mapped, with
    verify, uses a mapping that is not there (`QueueExact`, `Ends`).
  - *windowsaio:* the completion thread skips the packet of an IO that failed (`Ends`);
    a sync or verify keeps its overlapped slot until an assertion fails (`QueueExact`,
    `Ends`); a rate, which quiesces over an io_u without a slot; a time limit that
    expires at depth 3 and leaves IO in flight (`QueueExact`, `BytesTrue`; the run has
    depth 2); and CancelIoEx, which only asks (`Implements`).
- *ClientServer:* with remote arguments and a job file the server is dropped before the
  job file is run (`RemoteArgsConfs`; server.c:394). When sending a job file fails, the
  client is freed and then written to (client.c:514), and a write to a server that died
  may end the client with SIGPIPE: both are left out, and so are a signal between two
  packets of a message, and more than one job file. FIO_NET_CMD_EXIT is sent by nobody.
- *FileService:* in the last of two loops, with two requests in flight, files are left
  undone, as nr_done_files is not reset (libfio.c:82); so several loops are checked with
  round robin and one request at a time. Random choice draws for ever when an open was
  refused, or when a ramp time ends with loops left (io_u.c:960). Pipes are not modelled.
- *FileSetup:* softrandommap leaves a map of 0 words in place (filesetup.c:879). A job
  that only writes, without overwrite, unlinks a file that it has to extend, also when
  another job has laid it out (`RangeOnDisk`; filesetup.c:51).
- *FileShare:* two jobs that both read and write with lockfile=readwrite and a batch
  write beside each other (filesetup.c:1079). With three jobs, even with
  lockfile=exclusive, a job that opens the file when its first user has just closed it
  finds the hash empty and locks its own mutex, not the one that the second user has
  inherited (filesetup.c:443), and both do IO at a time, though HOWTO:294 has "Only one
  thread/process may do IO". `IoExclusive` is therefore about two jobs, and about more
  that use the same lock.
- *Offsets:* in a file that ends within a word of the map blocks are left out
  (io_u.c:190); bs=4k,8k gives an IO of length 0; a block size that does not divide the
  size goes past the size by less than a block, and `OffsetsRight` allows for it.
- *IoHistory:* where long is wider than int an assertion fails (seg_2bitsmap.c:35). A
  sequential or norandommap job with a variable block size (or a sequential one with
  ddir_seq_nr above 1) inserts into a map that was not made; with a variable block size
  and neither randomagain nor norandommap there is no hash, which ddir_seq_nr above 1
  uses and iohist_hash_exit walks (backend.c:1201).
- *VerifyBlock:* a verify_offset not behind the checksum's own header (`SwapConfs`;
  options.c:642) and a pattern whose length does not divide the segments
  (`PatternConfs`; verify.c:338) make good blocks fail.
- *Replay:* trims are logged and refused when read (`TrimConfs`; iolog.c:390). A file
  that is opened again while IO is in flight on it fails an assertion of td_io_open_file
  (`ReopenConfs`).
- *Blktrace:* a second thread with the same trace gets no file, and all devices are
  replayed on the first (blktrace.c:188). The IO of a device that this machine has not
  is replayed on the first file there is, and a trace that goes back to a device opens
  its file twice. `EachOnItsDevice` asks for the order of all IO, and for the device
  where all of it is on one that is found or redirected.
- *Smalloc:* a request of more than a word of the bitmap (32 blocks) leaps over an empty
  word that has too little room, and when the next one is full `next_non_full` moves past
  both (smalloc.c:380); the empty word is not searched again until something in front of
  it is freed. `NothingForgotten` is about requests of up to a word.
- *Flow:* of two equal jobs without a runtime one waits for ever when the other is done.
- *NetLink:* a reader whose closing datagram is lost waits for ever, as does a UDP reader
  with splice that asks for more than was sent; a TCP reader with larger blocks than the
  writer's calls recv again and again at the end. Links that lose data or are terminated
  are therefore only in `LinkTrue`.
- *Rdma:* without issue times (gtod_reduce) what is committed is not taken to be in
  flight and never found again (rdma.c:701); a server that wants more than the client sends waits for
  ever in SEND mode; events are acknowledged by the number of completions (rdma.c:574),
  so ibv_destroy_cq may wait for ever: `EveryoneEnds` asks for the way to
  rdma_disconnect. Failing calls of verbs are not modelled.
- *Rate:* with two writes in flight a sync can be left out (io_u.c:609);
  rate_iops_min is only logged.
- *Stats:* a job without group_reporting before one with it gives a wrong number of
  reports and writes in front of the array (stat.c:969); of jobs with different
  clat_percentiles in a group, a percentile is never set (`ReportsTrue`).
- *DiskUtil:* the lookup cache returns a disk nobody set (diskutil.c:424), so the second
  file on the second partition of a disk has none. Jobs that open files on two disks of a
  RAID each change the other's users under their own lock (diskutil.h:78). A file whose
  open failed behind disk_util_inc is counted out there and again when it is closed
  (ioengines.c:455); `UsersKept` leaves out such disks. Two threads in
  update_io_tick_disk can count an interval twice, and a get_io_ticks that fails in
  disk_util_add leaves the last values at 0. That the disk thread may walk over a disk
  that main frees is not modelled.

## Proofs

TLAPS checks these for all values of the constants that satisfy the assumptions named
in the modules.

*FioMutex* (`FioMutexAssumption`, and `UsageAssumption`: a lock, or one waiter).
`NoLostWakeup` is not inductive: a signal is skipped when `value` is not 0, which is
right only because some woken thread is then on its way. `IInv` adds that `waiters`
counts exactly the threads inside the wait loop and who may hold `value`. From it
follow `MutexExcludes` and `MutexLosesNoWakeup`.

*FioRwLock* (finitely many threads). `IInv` is exclusion, the counts (`value` is the
number of readers, or -1 with a writer; `waiters` counts those who wait) and
`FreeIsSignalled`: when the lock is free and threads sleep on it, one that waits is awake.
None of the three is inductive alone: whether an up signals depends on the counts, and
the counts are right only while writers exclude. `RwNoLostWakeup`, that a thread sleeps
only while another holds the lock or is awake to take it, follows from the last two. Each step changes one set of threads by
one, and the counts follow by a lemma on cardinalities. This gives `RwLockExcludes` and
`RwLockWakes`.

*Backend* (`BackendAssumption`). `NrRunningExact` is not inductive: reaping a job
that was never started would break it. `JobStates` ties a job's place in
`thread_main` to its runstate; `MainStates` says that starting jobs are in the map
and that none is left when `run_threads` reaps, unless starting failed. With these,
each step either leaves the sets of working and unstarted jobs alone or moves one
job, and the counter follows by a lemma on cardinalities. This gives
`BackendTypes`, `RunningIsCounted`, `TodoIsCounted` and `RunstatesFollowLifeCycle`.
The restriction to `~start_failed` is needed, as the `LateFiles` above show.

*How Backend ends* (`BackendEndProofs`, on top of the above). That `run_threads` leaves
its loop only when every job is reaped rests on `todo`, and `todo` is not exact: a job
terminated before it was created is counted down again in every round of the creating
loop. `EndInv` says why that does no harm: `todo` is exact or no job is left to create
(`TodoTells`), because jobs are terminated from some job up to the last
(`TerminatedRest`), or all together (`TerminatedAll`), and the creating scan leaves
nothing behind it (`ScanPassed`). It adds that `nr_started` counts the jobs on their
way up unless the round is bound to fail (`StartedExact`), and that a reaped job's error
is in `exit_value` (`ErrorsCounted`). `EndInvariance` needs no hypothesis, as the parts
that do carry it. From it follow

- `ErrorsAreTold`: at the end no error of a reaped job is missing from the exit value;
- `EndIsAlwaysTold`, if no job has a start_delay (`DelayFree`) or whoever terminates a
  job terminates all (`EndsWhole`: no exitall, or one group). Without either it is false:
  with exitall and two groups, jobs of the last group that were never created are
  counted again in every round while a job of the first group waits for its delay, so
  that `todo` falls to 0 and fio ends without that job (backend.c:1448);
- `StonewallsWait`, if no job has a start_delay; the other case is `DelayStonewallFiles`.

*AsyncVerify* (`AsyncVerifyAssumption`: finitely many io_us and threads). `IoUsExact`
is not inductive, as it does not say what a thread that holds an io_u will do to it.
`IInv` of `AsyncVerifyProofs` adds which flags go with which list (`Shape`), that nothing
on the free or the requeue list is in flight until the job is cancelled (`Quiet`), what
the job knows of the io_us in its hands between two steps (`JobPlace`: above all, that an
io_u it handed over is at a verify thread or freed already when it looks at its flags
without the lock), and that `nr_verify_threads` counts the threads that have not left.
`AsyncVerifyInvariance` and `IoUsStayExact` hold for any number of io_us, blocks and
verify threads and for both kinds of engine.

*Smalloc* (`SmallocConstants`: sizes from 1, and words and pools that are not empty). `MarkedExactly` and its like say nothing of a thread between two looks at the
pools. `IInv` of `SmallocProofs` adds where a call is (`CallRight`: the pool it searches
exists, what it frees is live and freed by nobody else) and that `next_non_full` and the
index of a search have moved only while an allocation has the first word of the pool
(`Anchored`). `MemoryStaysExact` is that allocations are disjoint, the bitmaps mark
exactly them and `free_blocks` counts the rest; `NothingIsForgotten` that with nothing
allocated every pool is searched from its start, for requests of up to a word. Both hold
for any pools, threads and sizes.

*Flow* (`FlowConstants`: finitely many jobs, a watermark that is not negative).
`FlowBounded` says nothing of the value a job has read and not yet written back. `Kept`
of `FlowProofs` does: from its test to its write a job alone on its side has the
counter on its side of the watermark, and what it is about to write is further out than
the counter, whatever the other did since its read. So the write of a stale value never
brings the counter back over the other's bound. `FlowStaysBounded`, `FlowStaysCounted`
and `SomeoneAlwaysRuns` hold for any flows, ids, watermark and jobs that fail to parse.

*FileShare* (`FileShareConstants`: finitely many jobs, lockfile=exclusive). `IInv` of
`FileShareProofs` says when a fio_file tells the truth about its lock: it names its own
job exactly while the job has the lock, although opening copies the owner from another
job's file (`OwnersOwn`, which needs that a file is closed only after IO to it), the lock
is 0 exactly while somebody has it (`LocksRight`), the hash has the one open file that
was not found in it (`HashRight`), and of two jobs one that found the other's file uses
its lock (`OneLock`). `ExclusiveExcludes` and `ClosingFreesLocks` hold for any number of
jobs, opens and IOs and any batch.

Only model-checked:

- everything temporal under fairness (`Finishes`, `PostsAreTaken`, `RwServed`,
  `HandedIsTaken`, `FreeArrives`, `Ends`, `EveryoneEnds`), which is out of the prover's reach;
- `ClientServer`, where the packets of a stream are handled by folds over sequences,
  and what folds and searches compute in the components of `data`: these need
  induction over data;
- `IoLoop` and that it implements `IoService`: the mapping goes through the state of
  fourteen engines, and an inductive invariant needs one for each of them.
- the other components of `waiting` and `data` (file service, network and RDMA links,
  offsets, file setup, block contents, write history, red-black tree, replays, rates,
  statistics, disks): several of them are operators over sequences and maps that are
  compared with a reference definition, which again needs induction;
- `SomeoneProceeds` of `FileShare`, which is about ENABLED, and `FileShare` with
  lockfile=readwrite.

## Not modelled

Options, their parsing and profiles (text to `td->o` without interaction); output, JSON
of results and debugging; ETA estimates (eta.c); buffers and cgroups (memory.c, cgroup.c:
system calls with one error path each); checksums and random number generators (pure
functions on words of 32 and 64 bits, of which the model uses only that they are
functions); clocks and their calibration; platform headers (os/, arch/). Of modelled
parts: setting up of devices and address resolution in the engines, red zones of
smalloc, byte order in block traces, the text of sysfs and of protocol messages.
