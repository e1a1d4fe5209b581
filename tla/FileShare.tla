----------------------------- MODULE FileShare ------------------------------
(***************************************************************************)
(* Jobs that run as threads and do IO to one file name, each through a     *)
(* fio_file of its own: the hash of open files (filehash.c), opening and   *)
(* closing through it, and the lock of lockfile= (filesetup.c) taken for   *)
(* every IO of a synchronous engine.  A lock is named by the job whose     *)
(* add_file made it; what waiting for it does inside is FioMutex and       *)
(* FioRwLock.                                                              *)
(***************************************************************************)
EXTENDS Integers, FiniteSets

CONSTANTS Jobs,       \* the jobs, from 1
          Confs,      \* file_lock_mode, lockfile_batch and the jobs' ddirs
          MaxIOs,     \* IOs of a job each time it has the file open
          MaxOpens    \* times a job opens the file

VARIABLES conf,
          f,          \* the fio_file of every job
          hash,       \* the jobs whose fio_file is in the hash
          value,      \* of every lock, fio_mutex.value
          pc,         \* where a job is
          todo        \* of every job, the opens and IOs it has left

vars == <<conf, f, hash, value, pc, todo>>

None == 0
FILE_LOCK_READWRITE == "readwrite"
FILE_LOCK_EXCLUSIVE == "exclusive"

----------------------------------------------------------------------------
(* The hash of open files *)

\* file_lookup_open up to open(2): the lock of a file found is shared.  What
\* its owner is doing to it meanwhile is read without a lock.
Lookup(j) ==
    /\ pc[j] = "closed" /\ todo[j].opens > 0
    /\ IF hash = {}
       THEN f' = [f EXCEPT ![j].from_hash = FALSE]
       ELSE \E k \in hash :
              f' = [f EXCEPT ![j] = [f[k] EXCEPT !.from_hash = TRUE,
                                                 !.fd = f[j].fd]]
    /\ pc' = [pc EXCEPT ![j] = "lookup"]
    /\ UNCHANGED <<conf, hash, value, todo>>

\* The rest of generic_open_file: open(2), and a file not found is added to
\* the hash, unless another one has been added meanwhile: then it is closed
\* and the lookup repeated.
Open(j) ==
    LET alias == ~f[j].from_hash /\ hash # {} IN
    /\ pc[j] = "lookup"
    /\ f' = [f EXCEPT ![j].fd = ~alias]
    /\ hash' = IF f[j].from_hash \/ alias THEN hash ELSE {j}
    /\ pc' = [pc EXCEPT ![j] = IF alias THEN "closed" ELSE "open"]
    /\ todo' = IF alias THEN todo
               ELSE [todo EXCEPT ![j] = [opens |-> @.opens - 1, ios |-> MaxIOs]]
    /\ UNCHANGED <<conf, value>>

----------------------------------------------------------------------------
(* The lock of a file *)

\* fio_mutex_down, down_read, down_write: the value they wait for, and leave.
Down(l, ddir) ==
    IF conf.mode = FILE_LOCK_EXCLUSIVE
    THEN value[l] > 0 /\ value' = [value EXCEPT ![l] = @ - 1]
    ELSE IF ddir = "read"
    THEN value[l] >= 0 /\ value' = [value EXCEPT ![l] = @ + 1]
    ELSE value[l] = 0 /\ value' = [value EXCEPT ![l] = -1]

\* fio_mutex_up, up_read, up_write.
Up(l, ddir) ==
    IF conf.mode = FILE_LOCK_READWRITE /\ ddir = "read"
    THEN [value EXCEPT ![l] = @ - 1]
    ELSE [value EXCEPT ![l] = @ + 1]

\* Mutant: the lock is held by whoever was the last to take it.
LockOfLast(j, ddir) ==
    /\ IF f[j].lock_owner # None /\ f[j].lock_batch > 0
       THEN /\ f' = [f EXCEPT ![j].lock_batch = @ - 1]
            /\ UNCHANGED value
       ELSE /\ Down(f[j].lock, ddir)
            /\ f' = [f EXCEPT ![j].lock_owner = j, ![j].lock_ddir = ddir,
                              ![j].lock_batch = conf.batch]

\* lock_file: an owner with IOs left in its batch has the lock already.
lock_file(j, ddir) ==
    /\ IF f[j].lock_owner = j /\ f[j].lock_batch > 0
       THEN /\ f' = [f EXCEPT ![j].lock_batch = @ - 1]
            /\ UNCHANGED value
       ELSE /\ Down(f[j].lock, ddir)
            /\ f' = [f EXCEPT ![j].lock_owner = j, ![j].lock_ddir = ddir,
                              ![j].lock_batch = conf.batch]

\* unlock_file: once the batch is used up; the owner is forgotten if no one
\* else has the lock.
unlock_file(fj) ==
    LET val == value[fj.lock]
        last == IF conf.mode = FILE_LOCK_EXCLUSIVE THEN val = 0
                ELSE val = IF fj.lock_ddir = "read" THEN 1 ELSE -1
    IN IF fj.lock_batch > 0
       THEN [file |-> fj, value |-> value]
       ELSE [file |-> IF last THEN [fj EXCEPT !.lock_owner = None] ELSE fj,
             value |-> Up(fj.lock, fj.lock_ddir)]

\* td_io_prep, with the whole of the IO still to do.
td_io_prep(j) ==
    /\ pc[j] = "open" /\ todo[j].ios > 0
    /\ \E ddir \in conf.ddirs[j] :
         /\ lock_file(j, ddir)
         /\ pc' = [pc EXCEPT ![j] = ddir]
    /\ todo' = [todo EXCEPT ![j].ios = @ - 1]
    /\ UNCHANGED <<conf, hash>>

\* td_io_queue after ->queue, when the IO has been done.
td_io_queue(j) ==
    LET u == unlock_file(f[j]) IN
    /\ pc[j] \in {"read", "write"}
    /\ f' = [f EXCEPT ![j] = u.file]
    /\ value' = u.value
    /\ pc' = [pc EXCEPT ![j] = "open"]
    /\ UNCHANGED <<conf, hash, todo>>

\* td_io_close_file: unlock_file_all, and generic_close_file takes the file
\* out of the hash.  A file is opened when there is IO to do to it.
td_io_close_file(j) ==
    LET u == IF f[j].lock_owner = j THEN unlock_file([f[j] EXCEPT !.lock_batch = 0])
             ELSE [file |-> f[j], value |-> value]
    IN /\ pc[j] = "open" /\ todo[j].ios < MaxIOs
       /\ f' = [f EXCEPT ![j] = [u.file EXCEPT !.fd = FALSE]]
       /\ value' = u.value
       /\ hash' = hash \ {j}
       /\ pc' = [pc EXCEPT ![j] = "closed"]
       /\ UNCHANGED <<conf, todo>>

----------------------------------------------------------------------------
Init ==
    /\ conf \in Confs
    /\ f = [j \in Jobs |-> [fd |-> FALSE, from_hash |-> FALSE, lock |-> j,
                            lock_owner |-> None, lock_batch |-> 0,
                            lock_ddir |-> "read"]]
    /\ hash = {}
    /\ value = [j \in Jobs |-> IF conf.mode = FILE_LOCK_EXCLUSIVE THEN 1 ELSE 0]
    /\ pc = [j \in Jobs |-> "closed"]
    /\ todo = [j \in Jobs |-> [opens |-> MaxOpens, ios |-> 0]]

Step(j) == \/ Lookup(j) \/ Open(j)
           \/ td_io_prep(j) \/ td_io_queue(j) \/ td_io_close_file(j)

AllEnded == \A j \in Jobs : pc[j] = "closed" /\ todo[j].opens = 0

Next == \E j \in Jobs : Step(j)

Spec == Init /\ [][Next]_vars

----------------------------------------------------------------------------
(* Properties *)

\* A write to a locked file is alone, and in exclusive mode every IO is, over
\* all the times the jobs open and close the file: with two jobs always, with
\* more among those that use the same lock.  Of three jobs the second may have
\* inherited the lock of the first; when the first closes the file the hash is
\* empty, and the third opens the file with the lock of its own
\* (file_lookup_open).
SameLock(j, k) == Cardinality(Jobs) <= 2 \/ f[j].lock = f[k].lock
IoExclusive ==
    \A j, k \in Jobs :
        /\ j # k /\ pc[j] \in {"read", "write"} /\ pc[k] \in {"read", "write"}
        /\ SameLock(j, k)
        => conf.mode = FILE_LOCK_READWRITE /\ pc[j] = "read" /\ pc[k] = "read"

\* A file in the hash has a descriptor, as the assertion of __lookup_file_hash
\* demands, and no other fio_file of the name is in the hash.
HashedOpen == (\A j \in hash : f[j].fd) /\ Cardinality(hash) <= 1

\* When the last job has closed the file all locks are free and no fio_file
\* is left in the hash.
LocksFreed ==
    AllEnded =>
        /\ hash = {}
        /\ \A j \in Jobs : value[j] = IF conf.mode = FILE_LOCK_EXCLUSIVE THEN 1 ELSE 0

\* Not all jobs wait for a lock that none of them will give back: as long as one
\* has something to do one of them can go on.
SomeoneProceeds == AllEnded \/ \E j \in Jobs : ENABLED Step(j)
=============================================================================
