----------------------------- MODULE MCIoLoop -------------------------------
(* The instances of IoLoop that TLC checks.                                *)
EXTENDS IoLoop

\* A job with the default options: iodepth_batch and iodepth_batch_complete
\* 1, iodepth_low as deep as the queue.
Job(engine, depth) ==
    [engine |-> engine, iodepth |-> depth, iodepth_batch |-> 1,
     iodepth_batch_complete |-> 1, iodepth_low |-> depth,
     continue_on_error |-> FALSE, fill_device |-> FALSE, end_fsync |-> FALSE,
     verify |-> FALSE, userspace_reap |-> FALSE, bs |-> 1,
     mmap_map_size |-> BufLen, blockdev |-> FALSE, sync_io |-> FALSE,
     rate |-> FALSE, interrupted |-> FALSE, ddirs |-> {}, faults |-> {}]

\* Two or three io_us deep, in batches, at low water marks, with syncs and
\* trims, with a rate, filling the device, going on after errors; with the
\* faults after which the engine keeps its promises.
PassConfigs ==
    {[Job("libaio", 3) EXCEPT !.ddirs = {"sync", "trim"}, !.verify = TRUE,
        !.faults = {"error", "short", "zero"}],
     [Job("libaio", 3) EXCEPT !.iodepth_batch = 2, !.iodepth_low = 1,
        !.iodepth_batch_complete = 2, !.faults = {"error", "nospace", "submit"},
        !.fill_device = TRUE, !.end_fsync = TRUE],
     [Job("libaio", 3) EXCEPT !.iodepth_batch_complete = 0, !.rate = TRUE,
        !.userspace_reap = TRUE, !.interrupted = TRUE],
     [Job("libaio", 2) EXCEPT !.faults = {"signal", "submit"}],
     [Job("posixaio", 2) EXCEPT !.iodepth_batch_complete = 2,
        !.ddirs = {"sync", "trim"}, !.end_fsync = TRUE,
        !.faults = {"error", "short", "zero", "starved", "submit"}],
     [Job("solarisaio", 3) EXCEPT !.ddirs = {"sync"}, !.end_fsync = TRUE,
        !.faults = {"error", "short", "zero", "submit"}],
     [Job("guasi", 2) EXCEPT !.iodepth_batch = 2, !.end_fsync = TRUE,
        !.faults = {"short", "zero"}],
     [Job("guasi", 3) EXCEPT !.iodepth_batch = 3, !.iodepth_batch_complete = 3,
        !.faults = {"error", "submit"}],
     [Job("syslet", 2) EXCEPT !.end_fsync = TRUE, !.faults = {"error", "nospace"}],
     [Job("null", 3) EXCEPT !.iodepth_batch = 2],
     [Job("null", 1) EXCEPT !.ddirs = {"trim"}],
     [Job("sg", 2) EXCEPT !.blockdev = TRUE, !.ddirs = {"sync"},
        !.faults = {"error"}, !.verify = TRUE],
     [Job("sg", 2) EXCEPT !.ddirs = {"sync"}, !.faults = {"submit"}],
     [Job("sg", 1) EXCEPT !.sync_io = TRUE, !.faults = {"error"}],
     [Job("binject", 3) EXCEPT !.iodepth_batch_complete = 2,
        !.faults = {"submit"}],
     [Job("sync", 2) EXCEPT !.ddirs = {"sync", "trim"}, !.verify = TRUE,
        !.end_fsync = TRUE, !.faults = {"error", "short", "zero", "seek"}],
     [Job("sync", 1) EXCEPT !.fill_device = TRUE, !.continue_on_error = TRUE,
        !.faults = {"error", "nospace", "short"}],
     [Job("vsync", 2) EXCEPT !.iodepth_batch = 2, !.ddirs = {"sync"},
        !.faults = {"seek"}],
     [Job("mmap", 1) EXCEPT !.ddirs = {"sync", "trim"}, !.verify = TRUE,
        !.faults = {"error", "map", "unmap"}],
     [Job("mmap", 1) EXCEPT !.ddirs = {"sync"}, !.faults = {"map", "nomap"}],
     [Job("mmap", 1) EXCEPT !.mmap_map_size = 1, !.end_fsync = TRUE,
        !.faults = {"map"}],
     [Job("splice", 1) EXCEPT !.ddirs = {"sync", "trim"}, !.verify = TRUE,
        !.faults = {"error", "efault", "ebadf"}],
     Job("cpuio", 1),
     [Job("windowsaio", 2) EXCEPT !.ddirs = {"trim"}, !.interrupted = TRUE,
        !.faults = {"short", "zero", "submit", "slow"}]}

\* A queue of five drained to one in batches of three.
LowWaterConfigs ==
    {[Job("libaio", 5) EXCEPT !.iodepth_batch_complete = 3, !.iodepth_low = 1]}
=============================================================================
