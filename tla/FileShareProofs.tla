--------------------------- MODULE FileShareProofs ---------------------------
(***************************************************************************)
(* Proofs about FileShare: jobs that share a file locked with               *)
(* lockfile=exclusive, for any number of jobs, opens, IOs and any batch.    *)
(***************************************************************************)
EXTENDS FileShare, FiniteSetTheorems, TLAPS

\* What the theorems assume of the constants: jobs are numbered from 1, and
\* the lock mode is exclusive.
FileShareConstants ==
    /\ IsFiniteSet(Jobs) /\ None \notin Jobs
    /\ MaxIOs \in Nat /\ MaxOpens \in Nat
    /\ \A c \in Confs : /\ c.mode = FILE_LOCK_EXCLUSIVE
                        /\ c.batch \in Nat
                        /\ \A j \in Jobs : c.ddirs[j] \subseteq {"read", "write"}

Ddirs == {"read", "write"}
IsOpen(j) == pc[j] \in {"open", "read", "write"}

File == [fd : BOOLEAN, from_hash : BOOLEAN, lock : Jobs,
         lock_owner : Jobs \cup {None}, lock_batch : Nat, lock_ddir : Ddirs]

Types ==
    /\ conf \in Confs
    /\ f \in [Jobs -> File]
    /\ hash \subseteq Jobs
    /\ value \in [Jobs -> {0, 1}]
    /\ pc \in [Jobs -> {"closed", "lookup", "open", "read", "write"}]
    /\ todo \in [Jobs -> [opens : Nat, ios : 0 .. MaxIOs]]
    /\ \A j \in Jobs : pc[j] = "lookup" => todo[j].opens > 0

\* The hash has the open files that were not found in it, and one at most.
HashRight ==
    /\ \A j \in Jobs : j \in hash <=> IsOpen(j) /\ ~f[j].from_hash
    /\ \A j \in hash : f[j].fd
    /\ \A j, k \in hash : j = k

\* A fio_file names its own job as the owner of the lock, if it names one,
\* except from when the name was copied from another file to the first IO.
OwnersOwn ==
    /\ \A j \in Jobs : ~f[j].from_hash => f[j].lock_owner \in {j, None}
    /\ \A j \in Jobs : pc[j] = "closed" => f[j].lock_owner = None
    /\ \A j \in Jobs : pc[j] = "lookup" => f[j].lock_owner # j
    /\ \A j \in Jobs : pc[j] = "open" /\ todo[j].ios < MaxIOs =>
                           f[j].lock_owner \in {j, None}
    /\ \A j \in Jobs : pc[j] \in Ddirs => f[j].lock_owner = j

\* A job has a lock exactly while its fio_file names it as the owner.
Holds(j, l) == f[j].lock_owner = j /\ f[j].lock = l
LocksRight ==
    /\ \A j, k, l \in Jobs : Holds(j, l) /\ Holds(k, l) => j = k
    /\ \A j, l \in Jobs : Holds(j, l) => value[l] = 0
    /\ \A l \in Jobs : value[l] = 0 => \E j \in Jobs : Holds(j, l)

\* Of two jobs, one that found the file of the other uses its lock.
OneLock ==
    \A a, b \in Jobs : Jobs = {a, b} /\ pc[a] # "closed" /\ f[a].from_hash
                           => f[a].lock = f[b].lock

IInv == Types /\ HashRight /\ OwnersOwn /\ LocksRight /\ OneLock

-----------------------------------------------------------------------------
(* What the calls do to the lock, in exclusive mode.                        *)

\* In exclusive mode a lock is taken from 1 to 0 and given back to 1; who holds
\* it finds 0 when it gives it back, so it is no longer the owner.
LEMMA LockFile ==
    ASSUME FileShareConstants, Types, NEW j \in Jobs, NEW ddir \in Ddirs,
           LocksRight, lock_file(j, ddir)
    PROVE  /\ \A k \in Jobs \ {j} : f'[k] = f[k]
           /\ f' \in [Jobs -> File]
           /\ value' \in [Jobs -> {0, 1}]
           /\ f'[j].lock_owner = j
           /\ f'[j].lock = f[j].lock
           /\ f'[j].fd = f[j].fd
           /\ f'[j].from_hash = f[j].from_hash
           /\ \/ f[j].lock_owner = j /\ value' = value
              \/ /\ value[f[j].lock] = 1
                 /\ value' = [value EXCEPT ![f[j].lock] = 0]
<1>1. conf.mode = FILE_LOCK_EXCLUSIVE /\ conf.batch \in Nat
  BY DEF FileShareConstants, Types
<1>2. f[j] \in File /\ f \in [Jobs -> File] /\ value \in [Jobs -> {0, 1}]
  BY DEF Types
<1>3. CASE f[j].lock_owner = j /\ f[j].lock_batch > 0
  <2>1. f' = [f EXCEPT ![j] = [f[j] EXCEPT !.lock_batch = f[j].lock_batch - 1]] /\ value' = value
    BY <1>3 DEF lock_file
  <2>2. [f[j] EXCEPT !.lock_batch = f[j].lock_batch - 1] \in File
    BY <1>2, <1>3 DEF File
  <2> QED BY <2>1, <2>2, <1>2, <1>3 DEF File
<1>4. CASE ~(f[j].lock_owner = j /\ f[j].lock_batch > 0)
  <2>1. /\ value[f[j].lock] > 0
        /\ value' = [value EXCEPT ![f[j].lock] = value[f[j].lock] - 1]
    BY <1>1, <1>2, <1>4 DEF lock_file, Down, File
  <2>2. f' = [f EXCEPT ![j] = [f[j] EXCEPT !.lock_owner = j, !.lock_ddir = ddir,
                                           !.lock_batch = conf.batch]]
    BY <1>4, <1>2 DEF lock_file
  <2>3. f[j].lock \in Jobs /\ value[f[j].lock] = 1
    BY <1>2, <2>1 DEF File
  <2>4. [f[j] EXCEPT !.lock_owner = j, !.lock_ddir = ddir, !.lock_batch = conf.batch] \in File
    BY <1>1, <1>2 DEF File
  <2> QED BY <2>1, <2>2, <2>3, <2>4, <1>2 DEF File
<1> QED BY <1>3, <1>4

\* unlock_file of the one who has the lock: it keeps it while the batch lasts,
\* and is otherwise no longer the owner.
LEMMA UnlockFile ==
    ASSUME FileShareConstants, Types, NEW j \in Jobs, NEW fj \in File,
           fj.lock_owner = j, value[fj.lock] = 0
    PROVE  LET u == unlock_file(fj) IN
           /\ u.file \in File
           /\ u.file.lock = fj.lock
           /\ u.file.fd = fj.fd
           /\ u.file.from_hash = fj.from_hash
           /\ u.value \in [Jobs -> {0, 1}]
           /\ \/ fj.lock_batch > 0 /\ u.file.lock_owner = j /\ u.value = value
              \/ /\ fj.lock_batch = 0 /\ u.file.lock_owner = None
                 /\ u.value = [value EXCEPT ![fj.lock] = 1]
<1>1. conf.mode = FILE_LOCK_EXCLUSIVE /\ FILE_LOCK_EXCLUSIVE # FILE_LOCK_READWRITE
  BY DEF FileShareConstants, Types, FILE_LOCK_EXCLUSIVE, FILE_LOCK_READWRITE
<1>2. value \in [Jobs -> {0, 1}] /\ fj.lock \in Jobs /\ fj.lock_batch \in Nat
  BY DEF Types, File
<1>3. CASE fj.lock_batch > 0
  <2>1. unlock_file(fj) = [file |-> fj, value |-> value]
    BY <1>3 DEF unlock_file
  <2> QED BY <2>1, <1>2, <1>3
<1>4. CASE ~(fj.lock_batch > 0)
  <2>1. Up(fj.lock, fj.lock_ddir) = [value EXCEPT ![fj.lock] = 1]
    BY <1>1, <1>2 DEF Up
  <2>2. unlock_file(fj) = [file |-> [fj EXCEPT !.lock_owner = None],
                           value |-> [value EXCEPT ![fj.lock] = 1]]
    BY <1>1, <1>4, <2>1 DEF unlock_file
  <2>3. [fj EXCEPT !.lock_owner = None] \in File
    BY DEF File, None
  <2>4. /\ [fj EXCEPT !.lock_owner = None].lock_owner = None
        /\ [fj EXCEPT !.lock_owner = None].lock = fj.lock
        /\ [fj EXCEPT !.lock_owner = None].fd = fj.fd
        /\ [fj EXCEPT !.lock_owner = None].from_hash = fj.from_hash
    BY DEF File
  <2>5. [value EXCEPT ![fj.lock] = 1] \in [Jobs -> {0, 1}]
    BY <1>2
  <2>6. fj.lock_batch = 0
    BY <1>2, <1>4
  <2> DEFINE left == [fj EXCEPT !.lock_owner = None]
             freed == [value EXCEPT ![fj.lock] = 1]
  <2> HIDE DEF None, left, freed
  <2>7. unlock_file(fj) = [file |-> left, value |-> freed]
    BY <2>2 DEF left, freed
  <2>8. /\ left \in File /\ left.lock_owner = None /\ left.lock = fj.lock
        /\ left.fd = fj.fd /\ left.from_hash = fj.from_hash
        /\ freed \in [Jobs -> {0, 1}]
    BY <2>3, <2>4, <2>5 DEF left, freed
  <2>9. unlock_file(fj).file = left /\ unlock_file(fj).value = freed
    BY <2>7
  <2> QED BY <2>6, <2>8, <2>9 DEF freed
<1> QED BY <1>3, <1>4

-----------------------------------------------------------------------------
(* Every step keeps the invariant.                                          *)

\* file_lookup_open copies the lock and the owner of a file in the hash, which
\* is not the job that looks it up.
LEMMA LookupKeeps ==
    ASSUME FileShareConstants, IInv, NEW j \in Jobs, Lookup(j)
    PROVE  IInv'
<1> USE DEF Ddirs
<1>1. Types /\ HashRight /\ OwnersOwn /\ LocksRight /\ OneLock
  BY DEF IInv
<1>2. /\ pc[j] = "closed" /\ todo[j].opens > 0
      /\ pc' = [pc EXCEPT ![j] = "lookup"]
      /\ UNCHANGED <<conf, hash, value, todo>>
  BY DEF Lookup
<1>3. /\ f' \in [Jobs -> File]
      /\ \A k \in Jobs \ {j} : f'[k] = f[k]
      /\ \/ /\ hash = {} /\ ~f'[j].from_hash
            /\ f'[j].lock = f[j].lock /\ f'[j].lock_owner = f[j].lock_owner
         \/ \E k \in hash : /\ f'[j].lock = f[k].lock
                            /\ f'[j].lock_owner = f[k].lock_owner
                            /\ f'[j].from_hash
  <2>1. f \in [Jobs -> File] /\ hash \subseteq Jobs
    BY <1>1 DEF Types
  <2>2. CASE hash = {}
    <3> DEFINE found == FALSE
    <3>1. f' = [f EXCEPT ![j] = [f[j] EXCEPT !.from_hash = found]] /\ found \in BOOLEAN /\ ~found
      BY <2>2, <2>1 DEF Lookup
    <3> HIDE DEF found
    <3>2. [f[j] EXCEPT !.from_hash = found] \in File
      BY <2>1, <3>1 DEF File
    <3>3. f'[j] = [f[j] EXCEPT !.from_hash = found]
      BY <2>1, <3>1
    <3>4. /\ f'[j].from_hash = found
          /\ f'[j].lock = f[j].lock /\ f'[j].lock_owner = f[j].lock_owner
      BY <2>1, <3>3 DEF File
    <3> QED BY <2>1, <2>2, <3>1, <3>2, <3>4
  <2>3. CASE hash # {}
    <3> DEFINE found == TRUE
    <3>1. PICK k \in hash : f' = [f EXCEPT ![j] = [f[k] EXCEPT !.from_hash = found,
                                                             !.fd = f[j].fd]]
      BY <2>1, <2>3 DEF Lookup
    <3>2. f[k] \in File /\ f[j].fd \in BOOLEAN /\ found \in BOOLEAN /\ found
      BY <2>1 DEF File
    <3> DEFINE fd == f[j].fd
    <3> HIDE DEF found, fd
    <3>3. fd \in BOOLEAN
      BY <3>2 DEF fd
    <3>4. [f[k] EXCEPT !.from_hash = found, !.fd = fd] \in File
      BY <3>2, <3>3 DEF File
    <3>5. f'[j] = [f[k] EXCEPT !.from_hash = found, !.fd = fd]
      BY <2>1, <3>1 DEF fd
    <3>6. /\ f'[j].from_hash = found
          /\ f'[j].lock = f[k].lock /\ f'[j].lock_owner = f[k].lock_owner
      BY <3>2, <3>3, <3>5 DEF File
    <3>7. f' \in [Jobs -> File] /\ \A i \in Jobs \ {j} : f'[i] = f[i]
      BY <2>1, <3>1, <3>4 DEF fd
    <3> QED BY <3>2, <3>6, <3>7
  <2> QED BY <2>2, <2>3
<1>4. f[j].lock_owner = None /\ j \notin hash /\ None # j
  BY <1>1, <1>2 DEF OwnersOwn, HashRight, IsOpen, FileShareConstants
<1>5. \A k \in hash : k \in Jobs /\ k # j /\ f[k].lock_owner \in {k, None} /\ f'[k] = f[k]
  BY <1>1, <1>3, <1>4 DEF HashRight, OwnersOwn, Types
<1>6. f'[j].lock_owner # j
  BY <1>3, <1>4, <1>5
<1>7. /\ pc'[j] = "lookup" /\ \A k \in Jobs \ {j} : pc'[k] = pc[k]
      /\ pc' \in [Jobs -> {"closed", "lookup", "open", "read", "write"}]
  BY <1>1, <1>2 DEF Types
<1>8. Types'
  BY <1>1, <1>2, <1>3, <1>7 DEF Types
<1>9. HashRight'
  BY <1>1, <1>2, <1>3, <1>4, <1>5, <1>7 DEF HashRight, IsOpen
<1>10. OwnersOwn'
  <2>1. ~f'[j].from_hash => f'[j].lock_owner = None
    BY <1>3, <1>4
  <2> QED BY <1>1, <1>2, <1>3, <1>6, <1>7, <2>1 DEF OwnersOwn
<1>11. LocksRight'
  <2>1. \A k, l \in Jobs : Holds(k, l)' <=> Holds(k, l)
    BY <1>3, <1>4, <1>6 DEF Holds
  <2> QED BY <1>1, <1>2, <2>1 DEF LocksRight
<1>12. OneLock'
  <2> SUFFICES ASSUME NEW a \in Jobs, NEW b \in Jobs, Jobs = {a, b},
                      pc'[a] # "closed", f'[a].from_hash
               PROVE  f'[a].lock = f'[b].lock
    BY DEF OneLock
  <2>1. CASE a = j
    BY <1>3, <1>5, <2>1
  <2>2. CASE a # j
    <3>1. pc[a] # "closed" /\ f[a].from_hash /\ f'[a] = f[a] /\ b = j
      BY <2>2, <1>3, <1>7
    <3>2. hash = {}
      BY <3>1, <1>1, <1>4 DEF HashRight, Types
    <3> QED BY <3>1, <3>2, <1>1, <1>3 DEF OneLock
  <2> QED BY <2>1, <2>2
<1> QED BY <1>8, <1>9, <1>10, <1>11, <1>12 DEF IInv

\* generic_open_file puts a file in the hash only when no other one is there.
LEMMA OpenKeeps ==
    ASSUME FileShareConstants, IInv, NEW j \in Jobs, Open(j)
    PROVE  IInv'
<1> USE DEF Ddirs
<1> DEFINE alias == ~f[j].from_hash /\ hash # {}
<1>1. Types /\ HashRight /\ OwnersOwn /\ LocksRight /\ OneLock
  BY DEF IInv
<1>2. /\ pc[j] = "lookup" /\ pc' = [pc EXCEPT ![j] = IF alias THEN "closed" ELSE "open"]
      /\ hash' = IF f[j].from_hash \/ alias THEN hash ELSE {j}
      /\ UNCHANGED <<conf, value>>
  BY DEF Open
<1>3. /\ f' \in [Jobs -> File]
      /\ \A k \in Jobs \ {j} : f'[k] = f[k]
      /\ f'[j].lock = f[j].lock /\ f'[j].lock_owner = f[j].lock_owner
      /\ (f'[j].from_hash <=> f[j].from_hash) /\ (~alias => f'[j].fd)
  <2> DEFINE got == ~alias
  <2>1. f \in [Jobs -> File]
    BY <1>1 DEF Types
  <2>2. f' = [f EXCEPT ![j] = [f[j] EXCEPT !.fd = got]]
    BY DEF Open
  <2>3. got \in BOOLEAN /\ (~alias => got)
    OBVIOUS
  <2> HIDE DEF got
  <2>4. [f[j] EXCEPT !.fd = got] \in File
    BY <2>1, <2>3 DEF File
  <2>5. f'[j] = [f[j] EXCEPT !.fd = got]
    BY <2>1, <2>2
  <2>6. /\ f'[j].lock = f[j].lock /\ f'[j].lock_owner = f[j].lock_owner
        /\ f'[j].from_hash = f[j].from_hash /\ f'[j].fd = got
    BY <2>1, <2>5 DEF File
  <2>7. f' \in [Jobs -> File] /\ \A k \in Jobs \ {j} : f'[k] = f[k]
    BY <2>1, <2>2, <2>4
  <2> HIDE DEF alias
  <2> QED BY <2>3, <2>6, <2>7
<1>4. /\ todo' \in [Jobs -> [opens : Nat, ios : 0 .. MaxIOs]]
      /\ \A k \in Jobs \ {j} : todo'[k] = todo[k]
      /\ ~alias => todo'[j].ios = MaxIOs
  <2>1. CASE alias
    BY <2>1, <1>1 DEF Open, Types
  <2>2. CASE ~alias
    <3>1. todo' = [todo EXCEPT ![j] = [opens |-> todo[j].opens - 1, ios |-> MaxIOs]]
      BY <2>2 DEF Open
    <3>2. todo[j].opens - 1 \in Nat
      BY <1>1, <1>2 DEF Types
    <3> QED BY <3>1, <3>2, <1>1 DEF Types, FileShareConstants
  <2> QED BY <2>1, <2>2
<1>5. /\ pc'[j] = IF alias THEN "closed" ELSE "open"
      /\ \A k \in Jobs \ {j} : pc'[k] = pc[k]
      /\ pc' \in [Jobs -> {"closed", "lookup", "open", "read", "write"}]
  BY <1>1, <1>2 DEF Types
<1>6. j \notin hash /\ hash \subseteq Jobs /\ f[j].lock_owner # j
  BY <1>1, <1>2 DEF HashRight, IsOpen, OwnersOwn, Types
<1>7. ~f[j].from_hash => f[j].lock_owner = None
  BY <1>1, <1>6 DEF OwnersOwn
<1>8. Types'
  BY <1>1, <1>2, <1>3, <1>4, <1>5, <1>6 DEF Types
<1>9. HashRight'
  <2>1. CASE alias
    <3>1. pc'[j] = "closed" /\ hash' = hash
      BY <2>1, <1>2, <1>5
    <3> QED BY <3>1, <1>1, <1>2, <1>3, <1>5, <1>6 DEF HashRight, IsOpen
  <2>2. CASE f[j].from_hash
    <3>1. pc'[j] = "open" /\ hash' = hash /\ f'[j].from_hash
      BY <2>2, <1>2, <1>3, <1>5
    <3> HIDE DEF alias
    <3> QED BY <3>1, <1>1, <1>3, <1>5, <1>6 DEF HashRight, IsOpen
  <2>3. CASE ~f[j].from_hash /\ hash = {}
    <3>1. pc'[j] = "open" /\ hash' = {j} /\ ~f'[j].from_hash /\ f'[j].fd
      BY <2>3, <1>2, <1>3, <1>5
    <3> HIDE DEF alias
    <3> QED BY <2>3, <3>1, <1>1, <1>3, <1>5, <1>6 DEF HashRight, IsOpen
  <2> QED BY <2>1, <2>2, <2>3
<1>10. OwnersOwn'
  <2>1. pc'[j] \in {"closed", "open"} /\ (pc'[j] = "closed" => ~f[j].from_hash)
        /\ (pc'[j] = "open" => todo'[j].ios = MaxIOs)
    BY <1>4, <1>5
  <2>2. \A k \in Jobs \ {j} : todo'[k] = todo[k] /\ pc'[k] = pc[k] /\ f'[k] = f[k]
    BY <1>3, <1>4, <1>5
  <2>3. f'[j].lock_owner = f[j].lock_owner /\ (f'[j].from_hash <=> f[j].from_hash)
    BY <1>3
  <2> HIDE DEF alias
  <2>4. MaxIOs \in Nat
    BY DEF FileShareConstants
  <2> QED BY <1>1, <1>6, <1>7, <2>1, <2>2, <2>3, <2>4 DEF OwnersOwn
<1>11. LocksRight'
  <2>1. \A k, l \in Jobs : Holds(k, l)' <=> Holds(k, l)
    BY <1>3, <1>6 DEF Holds
  <2> QED BY <1>1, <1>2, <2>1 DEF LocksRight
<1>12. OneLock'
  BY <1>1, <1>2, <1>3, <1>5 DEF OneLock
<1> QED BY <1>8, <1>9, <1>10, <1>11, <1>12 DEF IInv

\* The lock is the job's when td_io_prep is done, and was free or its own.
LEMMA PrepKeeps ==
    ASSUME FileShareConstants, IInv, NEW j \in Jobs, td_io_prep(j)
    PROVE  IInv'
<1> USE DEF Ddirs
<1>1. Types /\ HashRight /\ OwnersOwn /\ LocksRight /\ OneLock
  BY DEF IInv
<1>2. PICK ddir \in Ddirs : lock_file(j, ddir) /\ pc' = [pc EXCEPT ![j] = ddir]
  BY <1>1 DEF td_io_prep, FileShareConstants, Types
<1>3. /\ pc[j] = "open" /\ todo[j].ios > 0
      /\ todo' = [todo EXCEPT ![j] = [todo[j] EXCEPT !.ios = todo[j].ios - 1]]
      /\ UNCHANGED <<conf, hash>>
  BY DEF td_io_prep
<1>4. /\ \A k \in Jobs \ {j} : f'[k] = f[k]
      /\ f' \in [Jobs -> File]
      /\ value' \in [Jobs -> {0, 1}]
      /\ f'[j].lock_owner = j
      /\ f'[j].lock = f[j].lock
      /\ f'[j].fd = f[j].fd
      /\ f'[j].from_hash = f[j].from_hash
      /\ \/ f[j].lock_owner = j /\ value' = value
         \/ /\ value[f[j].lock] = 1
            /\ value' = [value EXCEPT ![f[j].lock] = 0]
  BY <1>1, <1>2, LockFile
<1>5. /\ todo' \in [Jobs -> [opens : Nat, ios : 0 .. MaxIOs]]
      /\ \A k \in Jobs \ {j} : todo'[k] = todo[k]
  <2>1. todo[j].ios - 1 \in 0 .. MaxIOs
    BY <1>1, <1>3 DEF Types, FileShareConstants
  <2> QED BY <1>1, <1>3, <2>1 DEF Types
<1>6. /\ pc'[j] \in Ddirs
      /\ \A k \in Jobs \ {j} : pc'[k] = pc[k]
      /\ pc' \in [Jobs -> {"closed", "lookup", "open", "read", "write"}]
  BY <1>1, <1>2 DEF Types
<1>7. Types'
  BY <1>1, <1>3, <1>4, <1>5, <1>6 DEF Types
<1>8. HashRight'
  <2>1. hash' = hash /\ IsOpen(j) /\ IsOpen(j)'
    BY <1>3, <1>6 DEF IsOpen
  <2>2. \A k \in Jobs : IsOpen(k)' <=> IsOpen(k)
    BY <1>6, <2>1 DEF IsOpen
  <2>3. \A k \in Jobs : f'[k].fd = f[k].fd /\ f'[k].from_hash = f[k].from_hash
    BY <1>4
  <2> QED BY <1>1, <2>1, <2>2, <2>3 DEF HashRight, Types
<1>9. OwnersOwn'
  <2>1. \A k \in Jobs \ {j} : todo'[k] = todo[k] /\ pc'[k] = pc[k] /\ f'[k] = f[k]
    BY <1>4, <1>5, <1>6
  <2>2. pc'[j] \in Ddirs /\ f'[j].lock_owner = j
    BY <1>4, <1>6
  <2> QED BY <1>1, <2>1, <2>2 DEF OwnersOwn
<1>10. LocksRight'
  <2>1. f[j].lock \in Jobs /\ value \in [Jobs -> {0, 1}]
    BY <1>1 DEF Types, File
  <2>2. \A k, l \in Jobs : k # j => (Holds(k, l)' <=> Holds(k, l))
    BY <1>4 DEF Holds
  <2>3. \A l \in Jobs : Holds(j, l)' <=> l = f[j].lock
    BY <1>4 DEF Holds
  <2>4. CASE f[j].lock_owner = j /\ value' = value
    <3>1. \A k, l \in Jobs : Holds(k, l)' <=> Holds(k, l)
      BY <2>2, <2>3, <2>4 DEF Holds
    <3> QED BY <3>1, <2>4, <1>1 DEF LocksRight
  <2>5. CASE value[f[j].lock] = 1 /\ value' = [value EXCEPT ![f[j].lock] = 0]
    <3>1. \A k \in Jobs : ~Holds(k, f[j].lock)
      BY <1>1, <2>1, <2>5 DEF LocksRight
    <3>2. \A l \in Jobs : l # f[j].lock => value'[l] = value[l] /\ ~Holds(j, l)
      BY <2>1, <2>5 DEF Holds
    <3>3. value'[f[j].lock] = 0
      BY <2>1, <2>5
    <3>4. \A k, l \in Jobs : l # f[j].lock => (Holds(k, l)' <=> Holds(k, l))
      BY <2>2, <2>3, <3>2
    <3>5. \A k, l \in Jobs : l = f[j].lock => (Holds(k, l)' <=> k = j)
      BY <2>2, <2>3, <3>1
    <3> QED BY <1>1, <2>1, <3>2, <3>3, <3>4, <3>5 DEF LocksRight
  <2> QED BY <1>4, <2>4, <2>5
<1>11. OneLock'
  <2>1. \A k \in Jobs : f'[k].lock = f[k].lock /\ f'[k].from_hash = f[k].from_hash
    BY <1>4
  <2>2. \A k \in Jobs : pc'[k] # "closed" => pc[k] # "closed"
    BY <1>3, <1>6
  <2> QED BY <1>1, <2>1, <2>2 DEF OneLock
<1> QED BY <1>7, <1>8, <1>9, <1>10, <1>11 DEF IInv

\* When a job gives its lock back no one has it, and value is 1.
LEMMA GivenBack ==
    ASSUME FileShareConstants, Types, LocksRight, NEW j \in Jobs,
           f[j].lock_owner = j,
           f' \in [Jobs -> File],
           \A k \in Jobs \ {j} : f'[k] = f[k],
           f'[j].lock = f[j].lock,
           \/ f'[j].lock_owner = j /\ value' = value
           \/ f'[j].lock_owner = None /\ value' = [value EXCEPT ![f[j].lock] = 1]
    PROVE  LocksRight'
<1>1. f[j].lock \in Jobs /\ value \in [Jobs -> {0, 1}] /\ None # j
  BY DEF Types, File, FileShareConstants
<1>2. \A k, l \in Jobs : k # j => (Holds(k, l)' <=> Holds(k, l))
  BY DEF Holds
<1>3. CASE f'[j].lock_owner = j /\ value' = value
  <2>1. \A k, l \in Jobs : Holds(k, l)' <=> Holds(k, l)
    BY <1>2, <1>3 DEF Holds
  <2> QED BY <1>3, <2>1 DEF LocksRight
<1>4. CASE f'[j].lock_owner = None /\ value' = [value EXCEPT ![f[j].lock] = 1]
  <2>1. \A l \in Jobs : ~Holds(j, l)'
    BY <1>1, <1>4 DEF Holds
  <2>2. Holds(j, f[j].lock)
    BY DEF Holds
  <2>3. \A k \in Jobs : Holds(k, f[j].lock) => k = j
    BY <1>1, <2>2 DEF LocksRight
  <2>4. \A l \in Jobs : l # f[j].lock => value'[l] = value[l] /\ ~Holds(j, l)
    BY <1>1, <1>4 DEF Holds
  <2>5. value'[f[j].lock] = 1
    BY <1>1, <1>4
  <2> QED BY <1>1, <1>2, <2>1, <2>3, <2>4, <2>5 DEF LocksRight
<1> QED BY <1>3, <1>4

\* td_io_queue gives the lock back when the batch is used up.
LEMMA QueueKeeps ==
    ASSUME FileShareConstants, IInv, NEW j \in Jobs, td_io_queue(j)
    PROVE  IInv'
<1> USE DEF Ddirs
<1> DEFINE u == unlock_file(f[j])
<1>1. Types /\ HashRight /\ OwnersOwn /\ LocksRight /\ OneLock
  BY DEF IInv
<1>2. /\ pc[j] \in Ddirs /\ pc' = [pc EXCEPT ![j] = "open"]
      /\ f' = [f EXCEPT ![j] = u.file] /\ value' = u.value
      /\ UNCHANGED <<conf, hash, todo>>
  BY DEF td_io_queue
<1>3. f \in [Jobs -> File] /\ f[j] \in File /\ f[j].lock_owner = j /\ value[f[j].lock] = 0
  BY <1>1, <1>2 DEF Types, OwnersOwn, LocksRight, Holds, File
<1>4. /\ u.file \in File
      /\ u.file.lock = f[j].lock
      /\ u.file.fd = f[j].fd
      /\ u.file.from_hash = f[j].from_hash
      /\ u.value \in [Jobs -> {0, 1}]
      /\ \/ u.file.lock_owner = j /\ u.value = value
         \/ u.file.lock_owner = None /\ u.value = [value EXCEPT ![f[j].lock] = 1]
  BY <1>1, <1>3, UnlockFile
<1> HIDE DEF u
<1>5. /\ f' \in [Jobs -> File]
      /\ \A k \in Jobs \ {j} : f'[k] = f[k]
      /\ f'[j] = u.file
  BY <1>2, <1>3, <1>4
<1>6. /\ pc'[j] = "open"
      /\ \A k \in Jobs \ {j} : pc'[k] = pc[k]
      /\ pc' \in [Jobs -> {"closed", "lookup", "open", "read", "write"}]
  BY <1>1, <1>2 DEF Types
<1>7. Types'
  BY <1>1, <1>2, <1>4, <1>5, <1>6 DEF Types
<1>8. HashRight'
  <2>1. \A k \in Jobs : IsOpen(k)' <=> IsOpen(k)
    BY <1>2, <1>6 DEF IsOpen
  <2>2. \A k \in Jobs : f'[k].fd = f[k].fd /\ f'[k].from_hash = f[k].from_hash
    BY <1>4, <1>5
  <2> QED BY <1>1, <1>2, <2>1, <2>2 DEF HashRight, Types
<1>9. OwnersOwn'
  BY <1>1, <1>2, <1>4, <1>5, <1>6 DEF OwnersOwn
<1>10. LocksRight'
  BY <1>1, <1>2, <1>3, <1>4, <1>5, GivenBack
<1>11. OneLock'
  <2>1. \A k \in Jobs : f'[k].lock = f[k].lock /\ f'[k].from_hash = f[k].from_hash
    BY <1>4, <1>5
  <2>2. \A k \in Jobs : pc'[k] # "closed" => pc[k] # "closed"
    BY <1>2, <1>6
  <2> QED BY <1>1, <2>1, <2>2 DEF OneLock
<1> QED BY <1>7, <1>8, <1>9, <1>10, <1>11 DEF IInv

\* td_io_close_file gives back what the job has; it closes no file that it has
\* done no IO to, so it is nobody's owner afterwards.
LEMMA CloseKeeps ==
    ASSUME FileShareConstants, IInv, NEW j \in Jobs, td_io_close_file(j)
    PROVE  IInv'
<1> USE DEF Ddirs
<1> DEFINE u == IF f[j].lock_owner = j THEN unlock_file([f[j] EXCEPT !.lock_batch = 0])
                ELSE [file |-> f[j], value |-> value]
<1>1. Types /\ HashRight /\ OwnersOwn /\ LocksRight /\ OneLock
  BY DEF IInv
<1>2. /\ pc[j] = "open" /\ todo[j].ios < MaxIOs /\ pc' = [pc EXCEPT ![j] = "closed"]
      /\ f' = [f EXCEPT ![j] = [u.file EXCEPT !.fd = FALSE]] /\ value' = u.value
      /\ hash' = hash \ {j}
      /\ UNCHANGED <<conf, todo>>
  BY DEF td_io_close_file
<1>3. /\ f \in [Jobs -> File] /\ f[j] \in File /\ value \in [Jobs -> {0, 1}]
      /\ f[j].lock_owner \in {j, None} /\ None # j
  BY <1>1, <1>2 DEF Types, OwnersOwn, FileShareConstants
<1>4. /\ u.file \in File
      /\ u.file.lock = f[j].lock
      /\ u.file.from_hash = f[j].from_hash
      /\ u.file.lock_owner = None
      /\ u.value \in [Jobs -> {0, 1}]
      /\ f[j].lock_owner = j => u.value = [value EXCEPT ![f[j].lock] = 1]
      /\ f[j].lock_owner # j => u.value = value
  <2>1. CASE f[j].lock_owner = j
    <3> DEFINE fj == [f[j] EXCEPT !.lock_batch = 0]
    <3>1. /\ fj \in File /\ fj.lock_owner = j /\ fj.lock = f[j].lock
          /\ fj.from_hash = f[j].from_hash /\ fj.lock_batch = 0
      BY <1>3, <2>1 DEF File
    <3>2. value[f[j].lock] = 0
      BY <1>1, <1>3, <2>1 DEF LocksRight, Holds, File
    <3>3. u = unlock_file(fj)
      BY <2>1
    <3> HIDE DEF u, fj
    <3>4. /\ u.file \in File /\ u.file.lock = fj.lock /\ u.file.from_hash = fj.from_hash
          /\ u.value \in [Jobs -> {0, 1}]
          /\ \/ fj.lock_batch > 0
             \/ u.file.lock_owner = None /\ u.value = [value EXCEPT ![fj.lock] = 1]
      BY <1>1, <3>1, <3>2, <3>3, UnlockFile
    <3> QED BY <2>1, <3>1, <3>4
  <2>2. CASE f[j].lock_owner # j
    <3>1. u.file = f[j] /\ u.value = value
      BY <2>2
    <3> HIDE DEF u
    <3> QED BY <2>2, <3>1, <1>3
  <2> QED BY <2>1, <2>2
<1> HIDE DEF u
<1>5. /\ f' \in [Jobs -> File]
      /\ \A k \in Jobs \ {j} : f'[k] = f[k]
      /\ f'[j].lock = f[j].lock
      /\ f'[j].from_hash = f[j].from_hash
      /\ f'[j].lock_owner = None
  <2> DEFINE no == FALSE
             file == u.file
  <2>1. f' = [f EXCEPT ![j] = [file EXCEPT !.fd = no]] /\ no \in BOOLEAN
    BY <1>2
  <2>2. file \in File
    BY <1>4
  <2>3. file.lock = f[j].lock /\ file.from_hash = f[j].from_hash /\ file.lock_owner = None
    BY <1>4
  <2> HIDE DEF no, file
  <2>4. [file EXCEPT !.fd = no] \in File
    BY <2>1, <2>2 DEF File
  <2>5. f'[j] = [file EXCEPT !.fd = no]
    BY <1>3, <2>1
  <2>6. f'[j].lock = file.lock /\ f'[j].from_hash = file.from_hash
        /\ f'[j].lock_owner = file.lock_owner
    BY <2>2, <2>5 DEF File
  <2>7. f' \in [Jobs -> File] /\ \A k \in Jobs \ {j} : f'[k] = f[k]
    BY <1>3, <2>1, <2>4
  <2> QED BY <2>3, <2>6, <2>7
<1>6. /\ pc'[j] = "closed"
      /\ \A k \in Jobs \ {j} : pc'[k] = pc[k]
      /\ pc' \in [Jobs -> {"closed", "lookup", "open", "read", "write"}]
  BY <1>1, <1>2 DEF Types
<1>7. Types'
  BY <1>1, <1>2, <1>4, <1>5, <1>6 DEF Types
<1>8. HashRight'
  <2>1. \A k \in Jobs : k # j => (IsOpen(k)' <=> IsOpen(k)) /\ f'[k] = f[k]
    BY <1>5, <1>6 DEF IsOpen
  <2>2. ~IsOpen(j)' /\ hash' = hash \ {j}
    BY <1>2, <1>6 DEF IsOpen
  <2> QED BY <1>1, <2>1, <2>2 DEF HashRight, Types
<1>9. OwnersOwn'
  <2>1. \A k \in Jobs \ {j} : todo'[k] = todo[k] /\ pc'[k] = pc[k] /\ f'[k] = f[k]
    BY <1>2, <1>5, <1>6
  <2>2. pc'[j] = "closed" /\ f'[j].lock_owner = None /\ None # j
    BY <1>3, <1>5, <1>6
  <2> QED BY <1>1, <2>1, <2>2 DEF OwnersOwn
<1>10. LocksRight'
  <2>1. CASE f[j].lock_owner = j
    BY <2>1, <1>1, <1>2, <1>4, <1>5, GivenBack
  <2>2. CASE f[j].lock_owner # j
    <3>1. \A k, l \in Jobs : Holds(k, l)' <=> Holds(k, l)
      BY <2>2, <1>3, <1>5 DEF Holds
    <3>2. value' = value
      BY <2>2, <1>2, <1>4
    <3> QED BY <3>1, <3>2, <1>1 DEF LocksRight
  <2> QED BY <2>1, <2>2
<1>11. OneLock'
  <2>1. \A k \in Jobs : f'[k].lock = f[k].lock /\ f'[k].from_hash = f[k].from_hash
    BY <1>5
  <2>2. \A k \in Jobs : pc'[k] # "closed" => pc[k] # "closed"
    BY <1>2, <1>6
  <2> QED BY <1>1, <2>1, <2>2 DEF OneLock
<1> QED BY <1>7, <1>8, <1>9, <1>10, <1>11 DEF IInv

-----------------------------------------------------------------------------
(* The theorems.                                                            *)

\* IInv is an inductive invariant of jobs that share a file in exclusive mode
\* (generic_open_file, lock_file, unlock_file, td_io_close_file).
THEOREM FileShareInvariance ==
    ASSUME FileShareConstants
    PROVE  Spec => []IInv
<1>1. ASSUME Init PROVE IInv
  <2> USE <1>1 DEF Ddirs
  <2>1. conf \in Confs /\ conf.mode = FILE_LOCK_EXCLUSIVE
    BY DEF Init, FileShareConstants
  <2> DEFINE no == FALSE
             new(j) == [fd |-> no, from_hash |-> no, lock |-> j,
                        lock_owner |-> None, lock_batch |-> 0, lock_ddir |-> "read"]
  <2>2. f = [j \in Jobs |-> new(j)] /\ no \in BOOLEAN /\ ~no
    BY DEF Init
  <2> HIDE DEF no
  <2>3. \A j \in Jobs : new(j) \in File
    BY <2>2 DEF File
  <2>4. \A j \in Jobs : new(j).from_hash = no /\ new(j).lock_owner = None
    OBVIOUS
  <2> HIDE DEF new
  <2>5. \A j \in Jobs : f[j] = new(j) /\ ~f[j].from_hash /\ f[j].lock_owner = None /\ None # j
    BY <2>2, <2>4 DEF FileShareConstants
  <2>6. /\ pc = [j \in Jobs |-> "closed"] /\ hash = {}
        /\ value = [j \in Jobs |-> 1]
        /\ todo = [j \in Jobs |-> [opens |-> MaxOpens, ios |-> 0]]
    BY <2>1 DEF Init
  <2>7. Types
    BY <2>1, <2>2, <2>3, <2>6 DEF Types, FileShareConstants
  <2>8. HashRight /\ OwnersOwn /\ OneLock
    BY <2>5, <2>6 DEF HashRight, IsOpen, OwnersOwn, OneLock
  <2>9. LocksRight
    BY <2>5, <2>6 DEF LocksRight, Holds
  <2> QED BY <2>7, <2>8, <2>9 DEF IInv
<1>2. ASSUME IInv, [Next]_vars PROVE IInv'
  <2>1. ASSUME NEW j \in Jobs, Step(j) PROVE IInv'
    BY <1>2, <2>1, LookupKeeps, OpenKeeps, PrepKeeps, QueueKeeps, CloseKeeps DEF Step
  <2>2. CASE UNCHANGED vars
    BY <1>2, <2>2 DEF vars, IInv, Types, HashRight, OwnersOwn, LocksRight, OneLock, IsOpen,
                      Holds
  <2> QED BY <1>2, <2>1, <2>2 DEF Next
<1> QED BY <1>1, <1>2, PTL DEF Spec

\* For any number of jobs of lockfile=exclusive, whatever the batch and however
\* often they open and close the file: two jobs that use the same lock never do
\* IO at a time, and of two jobs in all never both (lock_file).
THEOREM ExclusiveExcludes ==
    ASSUME FileShareConstants
    PROVE  Spec => []IoExclusive
<1>1. ASSUME IInv PROVE IoExclusive
  <2> SUFFICES ASSUME NEW j \in Jobs, NEW k \in Jobs, j # k, pc[j] \in Ddirs,
                      pc[k] \in Ddirs, SameLock(j, k)
               PROVE  FALSE
    BY DEF IoExclusive, Ddirs
  <2>1. Types /\ HashRight /\ OwnersOwn /\ LocksRight /\ OneLock
    BY <1>1 DEF IInv
  <2>2. f[j].lock_owner = j /\ f[k].lock_owner = k /\ f[j].lock \in Jobs
    BY <2>1 DEF OwnersOwn, Types, File
  <2>3. f[j].lock # f[k].lock
    BY <2>1, <2>2 DEF LocksRight, Holds
  <2>4. Cardinality(Jobs) <= 2
    BY <2>3 DEF SameLock
  <2>5. Jobs = {j, k}
    <3>1. IsFiniteSet(Jobs)
      BY DEF FileShareConstants
    <3>2. SUFFICES ASSUME NEW l \in Jobs, l # j, l # k PROVE FALSE
      OBVIOUS
    <3> DEFINE three == {j, k, l}
    <3>3. IsFiniteSet(three) /\ Cardinality(three) = 3
      <4> DEFINE one == {j}
                 two == one \cup {k}
      <4>1. IsFiniteSet(one) /\ Cardinality(one) = 1 /\ k \notin one
        BY FS_Singleton
      <4> HIDE DEF one
      <4>2. IsFiniteSet(two) /\ Cardinality(two) = 2
        BY <4>1, FS_AddElement
      <4>3. l \notin two
        BY <3>2 DEF one
      <4> HIDE DEF two
      <4>4. IsFiniteSet(two \cup {l}) /\ Cardinality(two \cup {l}) = 3
        BY <4>2, <4>3, FS_AddElement
      <4>5. three = two \cup {l}
        BY DEF one, two
      <4> QED BY <4>4, <4>5
    <3>4. three \subseteq Jobs
      OBVIOUS
    <3> HIDE DEF three
    <3>5. Cardinality(three) <= Cardinality(Jobs) /\ Cardinality(Jobs) \in Nat
      BY <3>1, <3>4, FS_Subset, FS_CardinalityType
    <3> QED BY <2>4, <3>3, <3>5
  <2>6. ~f[j].from_hash /\ ~f[k].from_hash
    BY <2>1, <2>3, <2>5 DEF OneLock, Ddirs
  <2>7. j \in hash /\ k \in hash
    BY <2>1, <2>6 DEF HashRight, IsOpen, Ddirs
  <2> QED BY <2>1, <2>7 DEF HashRight
<1> QED BY <1>1, FileShareInvariance, PTL

\* For any number of jobs: a file in the hash has a descriptor, as
\* __lookup_file_hash asserts, and is the only one; and when the last job has
\* closed the file the hash is empty and all locks are free (unlock_file_all).
THEOREM ClosingFreesLocks ==
    ASSUME FileShareConstants
    PROVE  Spec => [](HashedOpen /\ LocksFreed)
<1>1. ASSUME IInv PROVE HashedOpen
  <2>1. HashRight /\ hash \subseteq Jobs
    BY <1>1 DEF IInv, Types
  <2>2. CASE hash = {}
    <3>1. Cardinality(hash) = 0
      BY <2>2, FS_EmptySet
    <3> QED BY <2>1, <3>1 DEF HashedOpen, HashRight
  <2>3. CASE hash # {}
    <3>1. PICK j \in hash : hash = {j}
      BY <2>1, <2>3 DEF HashRight
    <3>2. Cardinality({j}) = 1
      BY FS_Singleton
    <3>3. Cardinality(hash) <= 1
      BY <3>1, <3>2
    <3> QED BY <2>1, <3>3 DEF HashedOpen, HashRight
  <2> QED BY <2>2, <2>3
<1>2. ASSUME IInv PROVE LocksFreed
  <2> SUFFICES ASSUME AllEnded
               PROVE  /\ hash = {}
                      /\ \A l \in Jobs : value[l] = 1
    BY <1>2 DEF LocksFreed, IInv, Types, FileShareConstants
  <2>1. Types /\ HashRight /\ OwnersOwn /\ LocksRight
    BY <1>2 DEF IInv
  <2>2. \A j \in Jobs : pc[j] = "closed" /\ f[j].lock_owner = None /\ j # None
    BY <2>1 DEF AllEnded, OwnersOwn, FileShareConstants
  <2>3. hash = {}
    BY <2>1, <2>2 DEF HashRight, IsOpen, Types
  <2>4. \A j, l \in Jobs : ~Holds(j, l)
    BY <2>2 DEF Holds
  <2> QED BY <2>1, <2>3, <2>4 DEF LocksRight, Types
<1> QED BY <1>1, <1>2, FileShareInvariance, PTL
=============================================================================
