----------------------------- MODULE FileSetup ------------------------------
(***************************************************************************)
(* The files of the jobs before they run (filesetup.c setup_files): their  *)
(* sizes are read, the range of each file that the job works on is set,    *)
(* and files that are too short are laid out, for one job after another by *)
(* the main thread (create_serialize).  Then the job makes its random maps *)
(* and reads its files ahead.                                              *)
(*                                                                         *)
(* Sizes are in blocks, modulo Wrap for the 64 bits of the code; -1ULL is  *)
(* Wrap - 1.  Every system call of a layout is a step.                     *)
(***************************************************************************)
EXTENDS Integers, Sequences, FiniteSets

CONSTANTS Wrap,             \* 2^64
          BLOCKS_PER_MAP,
          Confs             \* disk: size of the files, jobs: their options

VARIABLES conf,
          disk,       \* of every file: size, blocks written, and whether it was
                      \* created anew without a layout
          cur,        \* the job that is set up
          pc,
          files,      \* fio_file of the files of every job
          size,       \* o.size of every job
          at,         \* the file that is laid out
          left,       \* blocks it still needs
          error,      \* td->error of every job
          short,      \* files that ENOSPC left short
          state,      \* of every job: "new", "ready", "failed"
          terminate

vars == <<conf, disk, cur, pc, files, size, at, left, error, short, state, terminate>>

U(n) == n % Wrap
Unknown == Wrap - 1
Absent == -1      \* the size of a file that does not exist
Jobs == DOMAIN conf.jobs
job == conf.jobs[cur]
td_read(j) == "read" \in conf.jobs[j].ddirs
td_write(j) == "write" \in conf.jobs[j].ddirs
NoFile == [real_file_size |-> 0, io_size |-> 0, file_offset |-> 0, extend |-> FALSE,
           maps |-> 0, num_maps |-> 0]

Sum(seq) == LET sum[i \in 0 .. Len(seq)] == IF i = 0 THEN 0 ELSE U(sum[i - 1] + seq[i])
            IN sum[Len(seq)]

Init ==
    /\ conf \in Confs
    /\ disk = [n \in DOMAIN conf.disk |-> [size |-> conf.disk[n], written |-> conf.disk[n],
                                       anew |-> FALSE]]
    /\ cur = 1 /\ pc = "sizes"
    /\ files = [j \in Jobs |-> [i \in DOMAIN conf.jobs[j].files |-> NoFile]]
    \* init.c fixup_options
    /\ size = [j \in Jobs |-> IF conf.jobs[j].fill_device /\ conf.jobs[j].size = 0
                              THEN Unknown ELSE conf.jobs[j].size]
    /\ at = 0 /\ left = 0
    /\ error = [j \in Jobs |-> FALSE]
    /\ short = {}
    /\ state = [j \in Jobs |-> "new"]
    /\ terminate = FALSE

----------------------------------------------------------------------------
(* Sizes *)

\* get_file_sizes.  A file that does not exist has no size yet.
RealSize(name) ==
    LET nr == Len(job.files)
        real == CASE job.filetype = "pipe" -> Unknown
                  [] disk[name].size = Absent -> 0
                  [] OTHER -> disk[name].size
    IN IF real = Unknown /\ size[cur] > 0 THEN size[cur] \div nr ELSE real

\* The random sizes get_rand_file_size may return.
get_rand_file_size ==
    {n \in job.file_size_low .. job.file_size_high - 1 : n % job.rw_min_bs = 0}

\* setup_files: how much of a file the job works on.
IoSizes(real, offset) ==
    CASE job.file_size_low = 0 /\ size[cur] \div Len(job.files) > 0 ->
             {size[cur] \div Len(job.files)}
      [] job.file_size_low > 0 /\ (real < job.file_size_low \/ real > job.file_size_high) ->
             IF job.file_size_low = job.file_size_high THEN {U(job.file_size_low - offset)}
             ELSE {U(n - offset) : n \in get_rand_file_size}
      [] OTHER -> {U(real - offset)}

err_offset(real) ==
    /\ job.file_size_low > 0
    /\ real < job.file_size_low \/ real > job.file_size_high
    /\ job.offset > job.file_size_low

\* Mutant: a file is extended only if its IO alone is larger.
ExtendIoOnly(real, io, offset) ==
    job.filetype = "file" /\ io > real /\ ~job.diskless

NeedsExtend(real, io, offset) ==
    job.filetype = "file" /\ U(io + offset) > real /\ ~job.diskless

SetFile(real, io) ==
    LET extend == NeedsExtend(real, io, job.offset)
    IN [NoFile EXCEPT !.file_offset = job.offset, !.io_size = io, !.extend = extend,
          !.real_file_size = IF extend /\ job.create_on_open THEN U(io + job.offset) ELSE real]

Total(sizes) == IF \E i \in DOMAIN sizes : sizes[i] = Unknown THEN Unknown ELSE Sum(sizes)

TotalSize(j, sizes) ==
    LET total == Total(sizes)
        part == IF conf.jobs[j].size_percent > 0
                THEN (total * conf.jobs[j].size_percent) \div 100 ELSE total
    IN IF size[j] = 0 \/ size[j] > part THEN part ELSE size[j]

Goto(j, outcome) ==
    /\ state' = [state EXCEPT ![j] = outcome]
    /\ IF j < Len(conf.jobs) THEN cur' = j + 1 /\ pc' = "sizes"
       ELSE cur' = 1 /\ pc' = "run"

\* setup_files up to the layout.
Sized ==
    /\ pc = "sizes"
    /\ LET real == [i \in DOMAIN job.files |-> RealSize(job.files[i])]
           bad == \/ Total(real) \in {0, Unknown} /\ size[cur] = 0 /\ ~job.fill_device
                  \/ \E i \in DOMAIN real : err_offset(real[i])
       IN \/ /\ bad
             /\ error' = [error EXCEPT ![cur] = TRUE]
             /\ Goto(cur, "failed")
             /\ UNCHANGED <<files, size, at>>
          \/ /\ ~bad
             /\ \E io \in [DOMAIN real -> 0 .. Wrap - 1] :
                  /\ \A i \in DOMAIN real : io[i] \in IoSizes(real[i], job.offset)
                  /\ files' = [files EXCEPT ![cur] =
                                 [i \in DOMAIN real |-> SetFile(real[i], io[i])]]
                  /\ size' = [size EXCEPT ![cur] = TotalSize(cur, io)]
             /\ pc' = "next" /\ at' = 0
             /\ UNCHANGED <<error, state, cur>>
    /\ UNCHANGED <<conf, disk, left, short, terminate>>

----------------------------------------------------------------------------
(* Layout *)

File == files[cur][at]
Name == job.files[at]
new_layout == td_read(cur) \/ (td_write(cur) /\ (job.overwrite \/ job.noextend))
unlink_file == td_write(cur) /\ ~job.overwrite

\* The next file that was too short; none is extended with create_on_open.
NextFile ==
    /\ pc = "next"
    /\ LET todo == {i \in DOMAIN files[cur] : i > at /\ files[cur][i].extend}
       IN IF todo = {} \/ job.create_on_open
          THEN Goto(cur, "ready") /\ UNCHANGED <<at, files>>
          ELSE /\ at' = CHOOSE i \in todo : \A k \in todo : i <= k
               /\ files' = [files EXCEPT ![cur][at'].extend = FALSE,
                              ![cur][at'].real_file_size =
                                  U(files[cur][at'].io_size + files[cur][at'].file_offset)]
               /\ pc' = "open"
               /\ UNCHANGED <<cur, state>>
    /\ UNCHANGED <<conf, disk, size, left, error, short, terminate>>

Fail ==
    /\ error' = [error EXCEPT ![cur] = TRUE]
    /\ Goto(cur, "failed")

\* extend_file: unlink, open, fallocate and ftruncate.
OpenLayout ==
    LET fallocated == job.fallocate = "posix" /\ ~job.fill_device
        truncated == new_layout /\ ~job.fill_device
        was == IF unlink_file \/ new_layout \/ disk[Name].size = Absent
               THEN [size |-> 0, written |-> 0, anew |-> ~new_layout]
               ELSE disk[Name]
    IN [was EXCEPT !.size = IF truncated \/ (fallocated /\ @ < File.real_file_size)
                            THEN File.real_file_size ELSE @]

\* extend_file up to the writes: refused in read-only mode, and then
\* __file_invalidate_cache fails for want of a descriptor.
Open ==
    /\ pc = "open"
    /\ \/ /\ Fail
          /\ UNCHANGED <<disk, left>>
       \/ /\ ~conf.read_only
          /\ disk' = [disk EXCEPT ![Name] = OpenLayout]
          /\ left' = IF new_layout THEN File.real_file_size ELSE 0
          /\ pc' = IF new_layout THEN "write" ELSE "close"
          /\ UNCHANGED <<error, cur, state>>
    /\ UNCHANGED <<conf, files, size, at, short, terminate>>

\* extend_file: one write.
Write ==
    /\ pc = "write" /\ left > 0 /\ ~terminate
    /\ LET bs == IF job.max_bs > left THEN left ELSE job.max_bs
       IN \/ \E n \in 1 .. bs :
               /\ left' = left - n
               /\ disk' = [disk EXCEPT
                             ![Name].written = @ + n,
                             ![Name].size = IF disk[Name].written + n > @
                                            THEN disk[Name].written + n ELSE @]
               /\ UNCHANGED <<pc, error, short>>
          \/ /\ pc' = "close"                                    \* ENOSPC
             /\ short' = short \cup {Name}
             /\ UNCHANGED <<left, disk, error>>
          \/ /\ pc' = "close"                                    \* any other error
             /\ error' = [error EXCEPT ![cur] = TRUE]
             /\ UNCHANGED <<left, disk, short>>
    /\ UNCHANGED <<conf, cur, files, size, at, state, terminate>>

WritesOver ==
    /\ pc = "write" /\ (left = 0 \/ terminate)
    /\ pc' = "close"
    /\ UNCHANGED <<conf, disk, cur, files, size, at, left, error, short, state, terminate>>

\* The end of extend_file, __file_invalidate_cache and close.
Close ==
    LET filled == new_layout /\ job.fill_device /\ ~td_write(cur)
        now == disk[Name].size
    IN /\ pc = "close"
       /\ \/ Fail /\ UNCHANGED <<files, disk>>                   \* fsync, fadvise
          \/ /\ disk' = IF terminate /\ new_layout
                        THEN [disk EXCEPT ![Name] = [size |-> Absent, written |-> 0,
                                                   anew |-> FALSE]]
                        ELSE disk
             /\ filled => ~terminate
             /\ files' = IF ~filled THEN files
                         ELSE [files EXCEPT ![cur][at].real_file_size = now,
                                ![cur][at].io_size = IF @ > now THEN now ELSE @]
             /\ pc' = "next"
             /\ UNCHANGED <<error, cur, state>>
       /\ UNCHANGED <<conf, size, at, left, short, terminate>>

----------------------------------------------------------------------------
(* The job *)

Blocks(j, f) == (f.real_file_size + conf.jobs[j].rw_min_bs - 1) \div conf.jobs[j].rw_min_bs

file_randommap(f) == f.maps > 0

MapsRefused(j, got) ==
    ~conf.jobs[j].softrandommap /\ \E i \in DOMAIN got : got[i] < 2

\* init_random_map: smalloc may find no room for either map of a file.
init_random_map(j) ==
    /\ pc = "run" /\ state[j] = "ready"
    /\ \/ /\ ~conf.jobs[j].random
          /\ state' = [state EXCEPT ![j] = "mapped"]
          /\ UNCHANGED files
       \/ /\ conf.jobs[j].random
          /\ \E got \in [DOMAIN files[j] -> 0 .. 2] :
               LET maps(f) == (Blocks(j, f) + BLOCKS_PER_MAP - 1) \div BLOCKS_PER_MAP
                   with(f, n) == [f EXCEPT !.maps = n, !.num_maps = IF n = 2 THEN maps(f) ELSE 0]
               IN /\ files' = [files EXCEPT ![j] = [i \in DOMAIN @ |-> with(@[i], got[i])]]
                  /\ state' = [state EXCEPT ![j] =
                                 IF MapsRefused(j, got) THEN "failed" ELSE "mapped"]
    /\ UNCHANGED <<conf, disk, cur, pc, size, at, left, error, short, terminate>>

\* pre_read_file of every file: a short read is an error.
pre_read_files(j) ==
    /\ pc = "run" /\ state[j] = "mapped"
    /\ LET ends(i) == files[j][i].file_offset + files[j][i].io_size
           name(i) == conf.jobs[j].files[i]
       IN error' = [error EXCEPT ![j] =
                      @ \/ (conf.jobs[j].pre_read /\ ~terminate
                            /\ \E i \in DOMAIN files[j] : ends(i) > disk[name(i)].size)]
    /\ state' = [state EXCEPT ![j] = "running"]
    /\ UNCHANGED <<conf, disk, cur, pc, files, size, at, left, short, terminate>>

Interrupt ==
    /\ ~terminate /\ pc # "run"
    /\ terminate' = TRUE
    /\ UNCHANGED <<conf, disk, cur, pc, files, size, at, left, error, short, state>>

Next ==
    \/ Sized \/ NextFile \/ Open \/ Write \/ WritesOver \/ Close
    \/ \E j \in Jobs : init_random_map(j) \/ pre_read_files(j)
    \/ Interrupt

Spec == Init /\ [][Next]_vars

----------------------------------------------------------------------------
(* Properties *)

Runs(j) == state[j] \in {"mapped", "running"} /\ \A k \in Jobs : ~error[k]

\* What setup_files is for: when the jobs start, the whole range that a job reads is in
\* its files and was written, unless the layout was interrupted, failed or found no space,
\* or the file was last created by a job that only writes, which removes what is there and
\* lays nothing out (extend_file, without overwrite).
RangeOnDisk ==
    \A j \in Jobs : Runs(j) /\ ~terminate /\ td_read(j) /\ conf.jobs[j].filetype = "file"
                      /\ ~conf.jobs[j].create_on_open /\ ~conf.jobs[j].diskless =>
        \A i \in DOMAIN files[j] :
            LET now == disk[conf.jobs[j].files[i]]
                end == files[j][i].file_offset + files[j][i].io_size
            IN ~now.anew => /\ now.size # Absent /\ now.size >= end
                            /\ conf.jobs[j].files[i] \notin short => now.written >= end

\* A job is not told to do more IO than the ranges of its files hold (o.size, from which
\* do_io's total_io_size comes), whatever size=, size percent and nr_files say.
SizeHeld ==
    \A j \in Jobs : Runs(j) /\ ~conf.jobs[j].fill_device =>
        /\ size[j] <= Sum([i \in DOMAIN files[j] |-> files[j][i].io_size])
        /\ conf.jobs[j].size > 0 => size[j] <= conf.jobs[j].size

\* "failed allocating random map. Running job without." (filesetup.c:874): a file that
\* get_next_rand_block takes for one with a map has one of num_maps words.
MapsAgree ==
    \A j \in Jobs : Runs(j) =>
        \A i \in DOMAIN files[j] : file_randommap(files[j][i]) =>
            files[j][i].num_maps * BLOCKS_PER_MAP >= Blocks(j, files[j][i])
=============================================================================
