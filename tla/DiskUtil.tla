------------------------------ MODULE DiskUtil ------------------------------
(***************************************************************************)
(* Disk utilisation (diskutil.c, diskutil.h): the list of the disks the    *)
(* files of all jobs are on, with the disks a RAID is made of as its       *)
(* slaves; the users of each; the thread that adds up, every 250 ms, what  *)
(* the kernel counts for a disk with users; showing and freeing it all.    *)
(*                                                                         *)
(* A device is what major and minor stand for, a disk its directory under  *)
(* /sys/block: the one of the whole disk for a partition.  The counters of *)
(* a disk are one counter of its IOs.  Every file is of a job of its own.  *)
(***************************************************************************)
EXTENDS Integers, Sequences, SequencesExt, FiniteSets

CONSTANTS MaxIo,      \* bound: IOs done to a disk
          MaxOpens,   \* bound: files opened
          Confs       \* files and disks of a run, the files that fail to open after
                      \* they are counted (fails), and the bound on the rounds of the
                      \* disk thread (ticks)

VARIABLES conf,
          pc,         \* the main thread: "run", "ticks", "free", "end"
          next,       \* files that init_disk_util has done
          disk_list,  \* the disks, in order
          du,         \* struct disk_util of those in the list
          last,       \* last_majdev and last_mindev
          f_du,       \* f->du of every file
          job,        \* where the job of every file is: opening and closing it
          stat,       \* what the kernel has counted
          tick,       \* update_io_ticks of the disk thread and of the main one
          count       \* opens, rounds; whether both updated at a time; the files
                      \* that failed to open

vars == <<conf, pc, next, disk_list, du, last, f_du, job, stat, tick, count>>

NULL == "NULL"
disk_thread == "disk_thread"
main == "main"

Files == DOMAIN conf.files
Disks == DOMAIN conf.slaves
Disk(dev) == conf.dir[dev]     \* find_block_dir and the way up from a partition

----------------------------------------------------------------------------
(* Adding disks *)

\* disk_util_exists
disk_util_exists(L, dev) ==
    IF \E d \in ToSet(L.list) : L.du[d].dev = dev
    THEN CHOOSE d \in ToSet(L.list) : L.du[d].dev = dev ELSE NULL

Fresh(d, dev) ==
    [dev |-> dev, users |-> 0, past |-> 0, slaves |-> <<>>, dus |-> 0, last |-> stat[d],
     base |-> stat[d]]

RECURSIVE disk_util_add(_, _), FindSlaves(_, _, _)

\* find_add_disk_slaves: those not known yet become slaves of the master.
FindSlaves(L, master, devs) ==
    IF devs = <<>> THEN L
    ELSE IF disk_util_exists(L, Head(devs)) # NULL THEN FindSlaves(L, master, Tail(devs))
    ELSE LET added == disk_util_add(L, Head(devs))
             slave == disk_util_exists(added, Head(devs))
             hooked == [added EXCEPT !.du[slave].users = @ + 1,
                                     !.du[master].slaves = Append(@, slave)]
         IN FindSlaves(IF slave = NULL THEN added ELSE hooked, master, Tail(devs))

\* disk_util_add: the one of that name, or a new one with its slaves.
disk_util_add(L, dev) ==
    LET d == Disk(dev)
    IN IF d \in ToSet(L.list) THEN L
       ELSE FindSlaves([list |-> Append(L.list, d), du |-> [L.du EXCEPT ![d] = Fresh(d, dev)]],
                       d, conf.slaves[d])

\* init_per_file_disk_util: last_du, which nothing sets, is NULL.
init_per_file_disk_util(dev) ==
    LET L == [list |-> disk_list, du |-> du]
        d == disk_util_exists(L, dev)
    IN IF d # NULL THEN [L |-> L, last |-> last, du |-> d]
       ELSE IF dev = last THEN [L |-> L, last |-> last, du |-> NULL]
       ELSE IF Disk(dev) = NULL THEN [L |-> L, last |-> dev, du |-> NULL]
       ELSE [L |-> disk_util_add(L, dev), last |-> dev, du |-> Disk(dev)]

\* init_disk_util, for the file of the next job that starts; others are running.
init_disk_util ==
    LET r == init_per_file_disk_util(conf.files[next + 1])
    IN /\ pc = "run" /\ next < Len(conf.files)
       /\ disk_list' = r.L.list /\ du' = r.L.du /\ last' = r.last
       /\ f_du' = [f_du EXCEPT ![next + 1] = r.du]
       /\ next' = next + 1
       /\ UNCHANGED <<conf, pc, job, stat, tick, count>>

----------------------------------------------------------------------------
(* Users *)

Users(d) == [of |-> d, word |-> "users"]
Masters(d) == {m \in ToSet(disk_list) : d \in ToSet(du[m].slaves)}

\* Mutant: the slaves of the disk are told, not the ones it is hooked to.
ModSlaves(d) ==
    IF d = NULL THEN <<>>
    ELSE <<Users(d)>> \o [i \in DOMAIN du[d].slaves |-> Users(du[d].slaves[i])]
             \o [i \in 1 .. Cardinality(Masters(d)) |-> Users(CHOOSE m \in Masters(d) : TRUE)]

\* What disk_util_mod adds to, in this order: the users of the disk, and then
\* those along the slave list that the disk itself is hooked into.  They are
\* its master's other slaves, and the head of the list, from which a word past
\* the master's struct is taken for users.
disk_util_mod(d) ==
    IF d = NULL THEN <<>>
    ELSE IF Masters(d) = {} THEN <<Users(d)>>
    ELSE LET m == CHOOSE m \in Masters(d) : TRUE
             list == du[m].slaves
             i == CHOOSE i \in DOMAIN list : list[i] = d
             Words(l) == [k \in DOMAIN l |-> Users(l[k])]
         IN <<Users(d)>> \o Words(SubSeq(list, i + 1, Len(list)))
              \o <<[of |-> m, word |-> "past"]>> \o Words(SubSeq(list, 1, i - 1))

\* How a job goes on after disk_util_mod: a failing td_io_open_file takes the
\* user off again, yet the file stays marked open.
Then(f) ==
    CASE job[f].at = "inc" /\ f \in conf.fails ->
             [at |-> "err", todo |-> disk_util_mod(f_du[f]), locked |-> FALSE, got |-> <<>>]
      [] job[f].at = "inc" /\ f \notin conf.fails -> [job[f] EXCEPT !.at = "open", !.locked = FALSE]
      [] job[f].at = "err" -> [job[f] EXCEPT !.at = "failed", !.locked = FALSE]
      [] job[f].at = "dec" -> [job[f] EXCEPT !.at = "closed", !.locked = FALSE]

Begin(f, at) ==
    job' = [job EXCEPT ![f] = [at |-> at, todo |-> disk_util_mod(f_du[f]), locked |-> FALSE,
                               got |-> <<>>]]

td_io_open_file(f) ==
    /\ pc = "run" /\ f <= next /\ job[f].at = "closed"
    /\ f \notin count.failed /\ count.opens < MaxOpens
    /\ count' = [count EXCEPT !.opens = @ + 1,
                              !.failed = IF f \in conf.fails THEN @ \cup {f} ELSE @]
    /\ Begin(f, "inc")
    /\ UNCHANGED <<conf, pc, next, disk_list, du, last, f_du, stat, tick>>

\* td_io_close_file, of close_files for a file that failed to open as well
td_io_close_file(f) ==
    /\ job[f].at \in {"open", "failed"}
    /\ Begin(f, "dec")
    /\ UNCHANGED <<conf, pc, next, disk_list, du, last, f_du, stat, tick, count>>

Busy(f) == job[f].at \in {"inc", "dec", "err"}
Locked(d) == \E f \in Files : Busy(f) /\ job[f].locked /\ f_du[f] = d

\* A step of disk_util_mod, with the lock of its own disk: it loads the next
\* word it is to add to.
ModLoad(f) ==
    LET t == Head(job[f].todo)
    IN /\ Busy(f) /\ job[f].todo # <<>> /\ job[f].got = <<>>
       /\ ~job[f].locked => ~Locked(f_du[f])
       /\ job' = [job EXCEPT ![f].locked = TRUE, ![f].got = <<du[t.of][t.word]>>]
       /\ UNCHANGED <<conf, pc, next, disk_list, du, last, f_du, stat, tick, count>>

\* It stores the word.
ModStore(f) ==
    LET t == Head(job[f].todo)
        val == IF job[f].at = "inc" THEN 1 ELSE -1
    IN /\ Busy(f) /\ job[f].got # <<>>
       /\ du' = [du EXCEPT ![t.of][t.word] = Head(job[f].got) + val]
       /\ job' = [job EXCEPT ![f].todo = Tail(@), ![f].got = <<>>]
       /\ UNCHANGED <<conf, pc, next, disk_list, last, f_du, stat, tick, count>>

\* It is done, and gives up the lock.
ModDone(f) ==
    /\ Busy(f) /\ job[f].todo = <<>>
    /\ job' = [job EXCEPT ![f] = Then(f)]
    /\ UNCHANGED <<conf, pc, next, disk_list, du, last, f_du, stat, tick, count>>

\* Somebody does IO to a disk.
DoIo(d) ==
    /\ pc = "run" /\ d \in ToSet(disk_list) /\ stat[d] < MaxIo
    /\ stat' = [stat EXCEPT ![d] = @ + 1]
    /\ UNCHANGED <<conf, pc, next, disk_list, du, last, f_du, job, tick, count>>

----------------------------------------------------------------------------
(* Counting *)

Idle == [at |-> NULL, step |-> "idle", new |-> 0]
InUpdate(t) == tick[t].step # "idle"

\* update_io_ticks begins: the disk thread's next round, or the main thread's
\* when no job is running any more.
update_io_ticks(t) ==
    /\ ~InUpdate(t) /\ disk_list # <<>>
    /\ \/ /\ t = main /\ pc = "run" /\ next = Len(conf.files)
          /\ \A f \in Files : job[f].at = "closed"
          /\ pc' = "ticks" /\ UNCHANGED count
       \/ /\ t = disk_thread /\ count.rounds < conf.ticks
          /\ count' = [count EXCEPT !.rounds = @ + 1] /\ UNCHANGED pc
    /\ tick' = [tick EXCEPT ![t] = [at |-> Head(disk_list), step |-> "read", new |-> 0]]
    /\ UNCHANGED <<conf, next, disk_list, du, last, f_du, job, stat>>

\* To the next disk of the list, which may have got longer; from one that the
\* main thread has freed there is no way on.
Advance(T) ==
    LET after == SelectInSeq(disk_list, LAMBDA d : d = T.at) + 1
    IN IF after = 1 \/ after > Len(disk_list) THEN Idle
       ELSE [T EXCEPT !.at = disk_list[after], !.step = "read"]

\* update_io_tick_disk: a disk without users, or whose counters cannot be read,
\* is left out.
ReadTicks(t) ==
    LET d == tick[t].at
    IN /\ tick[t].step = "read"
       /\ \/ tick' = [tick EXCEPT ![t] = Advance(@)]
          \/ /\ du[d].users # 0
             /\ tick' = [tick EXCEPT ![t] = [@ EXCEPT !.step = "add", !.new = stat[d]]]
       /\ UNCHANGED <<conf, pc, next, disk_list, du, last, f_du, job, stat, count>>

\* What is new is added; when both threads are at it, what the other one has
\* added is not known yet.
AddTicks(t) ==
    LET d == tick[t].at
    IN /\ tick[t].step = "add"
       /\ du' = [du EXCEPT ![d].dus = @ + tick[t].new - du[d].last]
       /\ tick' = [tick EXCEPT ![t].step = "store"]
       /\ count' = [count EXCEPT !.overlap = @ \/ \A u \in {disk_thread, main} : InUpdate(u)]
       /\ UNCHANGED <<conf, pc, next, disk_list, last, f_du, job, stat>>

StoreTicks(t) ==
    LET d == tick[t].at
    IN /\ tick[t].step = "store"
       /\ du' = [du EXCEPT ![d].last = tick[t].new]
       /\ tick' = [tick EXCEPT ![t] = Advance(@)]
       /\ UNCHANGED <<conf, pc, next, disk_list, last, f_du, job, stat, count>>

----------------------------------------------------------------------------
(* The end *)

\* show_disk_util, when the main thread has counted what there is.
show_disk_util ==
    /\ pc = "ticks" /\ ~InUpdate(main)
    /\ pc' = "free"
    /\ UNCHANGED <<conf, next, disk_list, du, last, f_du, job, stat, tick, count>>

\* disk_util_free takes the slaves off the disk.
disk_util_free(d) ==
    du' = [e \in DOMAIN du |->
             IF e \in ToSet(du[d].slaves) THEN [du[e] EXCEPT !.users = @ - 1]
             ELSE IF e = d THEN [du[d] EXCEPT !.slaves = <<>>] ELSE du[e]]

\* free_disk_util: the disk thread may be at that disk, it is not waited for.
free_disk_util ==
    LET d == Head(disk_list)
    IN /\ pc = "free" /\ disk_list # <<>>
       /\ disk_list' = Tail(disk_list)
       /\ disk_util_free(d)
       /\ pc' = IF Len(disk_list) = 1 THEN "end" ELSE "free"
       /\ last' = IF Len(disk_list) = 1 THEN NULL ELSE last
       /\ UNCHANGED <<conf, next, f_du, job, stat, tick, count>>

Init ==
    /\ conf \in Confs
    /\ pc = "run" /\ next = 0 /\ disk_list = <<>>
    /\ du = [d \in Disks |-> [dev |-> NULL, users |-> 0, past |-> 0, slaves |-> <<>>,
                              dus |-> 0, last |-> 0, base |-> 0]]
    /\ last = "0:0"
    /\ f_du = [f \in Files |-> NULL]
    /\ job = [f \in Files |-> [at |-> "closed", todo |-> <<>>, locked |-> FALSE, got |-> <<>>]]
    /\ stat = [d \in Disks |-> 1]
    /\ tick = [t \in {disk_thread, main} |-> Idle]
    /\ count = [opens |-> 0, rounds |-> 0, overlap |-> FALSE, failed |-> {}]

Next ==
    \/ init_disk_util \/ show_disk_util \/ free_disk_util
    \/ \E f \in Files : \/ td_io_open_file(f) \/ td_io_close_file(f)
                       \/ ModLoad(f) \/ ModStore(f) \/ ModDone(f)
    \/ \E d \in Disks : DoIo(d)
    \/ \E t \in {disk_thread, main} :
          update_io_ticks(t) \/ ReadTicks(t) \/ AddTicks(t) \/ StoreTicks(t)

Spec == Init /\ [][Next]_vars

----------------------------------------------------------------------------
(* Properties *)

\* A file on a disk has the disk_util of that disk, also when the disk is
\* known by another of its partitions, and a disk is in the list once.
DiskOfFile ==
    /\ \A f \in Files : f <= next => f_du[f] = Disk(conf.files[f])
    /\ IsInjective(disk_list)

\* A disk that a file is open on, or that is hooked into a RAID, is not left
\* out of the counting, and when all files are closed only RAIDs use disks and
\* what disk_util_mod put past a RAID's struct is taken back.  This is said of
\* disks without a file that failed to open on them or on their siblings.
UsersKept ==
    \A d \in ToSet(disk_list) :
        LET with == {d} \cup UNION {ToSet(du[m].slaves) : m \in Masters(d) \cup {d}}
        IN (\A f \in count.failed : f_du[f] \notin with) =>
             /\ du[d].users >= Cardinality({f \in Files : job[f].at = "open" /\ f_du[f] = d})
                                  + Cardinality(Masters(d))
             /\ (\A f \in Files : job[f].at = "closed") =>
                   du[d].users = Cardinality(Masters(d)) /\ du[d].past = 0

\* As long as one thread at a time updates it, what is reported of a disk is
\* what it did from one reading of its counters to another: every IO between
\* them is counted, and once.
TicksTrue ==
    ~count.overlap =>
        \A d \in ToSet(disk_list) :
            (\A t \in DOMAIN tick : ~(tick[t].step = "store" /\ tick[t].at = d)) =>
                du[d].dus = du[d].last - du[d].base

\* disk_util_free finds the slaves it takes off still there: a RAID is freed
\* before the disks it is made of.
SlavesLive ==
    \A d \in ToSet(disk_list) : ToSet(du[d].slaves) \subseteq ToSet(disk_list)
=============================================================================
