---------------------------- MODULE FileService -----------------------------
(***************************************************************************)
(* The files of one job: opening and closing (ioengines.c, filesetup.c),   *)
(* references held by io_us (get_file, put_file), and the choice of the    *)
(* file of the next io_u (io_u.c).                                         *)
(*                                                                         *)
(* left[f] stands for what fill_io_u still finds to do on a file.          *)
(***************************************************************************)
EXTENDS Integers, FiniteSets, Sequences, FiniteSetsExt

CONSTANTS Files,     \* td->files, 0 .. nr_files - 1
          IoUs,      \* the io_us, from 1
          Jobs,      \* the jobs: service type, iodepth, loops, ramp, faults,
                     \* td->done, is it the loop keep_running adds, files refused
          Size       \* transfers there are to a file

VARIABLES td,        \* the job
          file,      \* the fio_files
          count,     \* nr_open_files, nr_done_files, users of the disk_util,
                     \* this_io_bytes and io_bytes
          service,   \* next_file, file_service_file and file_service_left
          left,      \* of every file, the transfers still to do
          iofile,    \* of every io_u in use, its file
          pc,        \* where the job is
          old_next_file,
          td_error   \* is td->error set?

vars == <<td, file, count, service, left, iofile, pc, old_next_file, td_error>>

NoFile == -1
nr_files == Cardinality(Files)
o_size == nr_files * Size

----------------------------------------------------------------------------
(* Opening and closing *)

\* The state of the job that opening and closing change.
State == [file |-> file, count |-> count]

\* put_file: the last reference closes the file; generic_close_file leaves
\* fd at -1.
put_file(s, f) ==
    IF ~s.file[f].open THEN s
    ELSE IF s.file[f].references > 1
    THEN [s EXCEPT !.file[f].references = @ - 1]
    ELSE [s EXCEPT !.file[f].references = 0, !.file[f].fd = FALSE,
                   !.file[f].open = FALSE, !.count.nr_open_files = @ - 1]

get_file(s, f) == [s EXCEPT !.file[f].references = @ + 1]

\* Mutant: the file is closed although io_us are in flight on it.
CloseAtOnce(s, f) ==
    [s EXCEPT !.file[f].closing = TRUE, !.count.du_users = @ - 1,
              !.file[f].references = 0, !.file[f].fd = FALSE,
              !.file[f].open = FALSE, !.count.nr_open_files = @ - 1]

td_io_close_file(s, f) ==
    put_file([s EXCEPT !.file[f].closing = TRUE, !.count.du_users = @ - 1], f)

\* The file is open, with one reference of its own.
Opened(s, f, fd) ==
    get_file([s EXCEPT !.file[f].fd = fd, !.file[f].open = TRUE,
                       !.file[f].closing = FALSE,
                       !.count.du_users = @ + 1,
                       !.count.nr_open_files = @ + 1], f)

\* The err path, after invalidating the cache, fadvise or fio_set_odirect has
\* failed: the file is closed, but it stays open to fio.
OpenFailed(s, f) ==
    [Opened(s, f, FALSE) EXCEPT !.count.du_users = @ - 1]

\* The open_file of an engine may refuse the file, with td->error set or not.
\* generic_open_file returns 0 also when open has failed: fd is then -1 and
\* td->error set.
td_io_open_file(f, s, err) ==
    \/ "refuse" \in td.faults /\ s = State /\ err = 1
       /\ td_error' \in {td_error, TRUE}
    \/ s = Opened(State, f, TRUE) /\ err = 0 /\ UNCHANGED td_error
    \/ "open" \in td.faults /\ s = Opened(State, f, FALSE) /\ err = 0
       /\ td_error' = TRUE
    \/ "advise" \in td.faults /\ s = OpenFailed(State, f) /\ err = 1
       /\ td_error' = TRUE

Becomes(s) == file' = s.file /\ count' = s.count

----------------------------------------------------------------------------
(* The file of the next io_u *)

FIO_FSERVICE_RANDOM == 1
FIO_FSERVICE_RR == 2
FIO_FSERVICE_SEQ == 3

Free == {u \in 1 .. td.iodepth : iofile[u] = NoFile}
Idle == Free = 1 .. td.iodepth

\* do_io leaves its loop without looking at the files again.
io_bytes_exceeded == count.this_io >= o_size

\* __get_next_file up to the search: no file left, the file that was served
\* last, or another one.
__get_next_file ==
    LET f == service.file_service_file
        usable == f # NoFile /\ file[f].open /\ ~file[f].closing
        same == usable /\ \/ td.service_type = FIO_FSERVICE_SEQ
                          \/ service.file_service_left > 0
    IN /\ pc = "next" /\ Free # {}
       /\ IF io_bytes_exceeded \/ count.nr_done_files >= nr_files
          THEN pc' = "drain" /\ UNCHANGED <<service, old_next_file>>
          ELSE IF same
          THEN /\ pc' = "fill" /\ UNCHANGED old_next_file
               /\ service' = [service EXCEPT !.file_service_left =
                    IF td.service_type = FIO_FSERVICE_SEQ THEN @ ELSE @ - 1]
          ELSE /\ pc' = "choose" /\ old_next_file' = service.next_file
               /\ UNCHANGED service
       /\ UNCHANGED <<td, file, count, left, iofile, td_error>>

\* The search has come to an end, with a file or without.
Found(f) ==
    /\ service' = [next_file |-> IF td.service_type = FIO_FSERVICE_RANDOM
                                 THEN service.next_file
                                 ELSE (service.next_file + 1) % nr_files,
                   file_service_file |-> f,
                   file_service_left |-> td.service_nr - 1]
    /\ pc' = IF f = NoFile THEN "drain" ELSE "fill"

\* One turn of the loop of get_next_file_rr, or of get_next_file_rand for
\* the file it has drawn.
TryFile(f) ==
    LET random == td.service_type = FIO_FSERVICE_RANDOM
        next == (service.next_file + 1) % nr_files
        GoOn == IF random THEN UNCHANGED <<service, pc>>
                ELSE IF next = old_next_file THEN Found(NoFile)
                ELSE /\ service' = [service EXCEPT !.next_file = next]
                     /\ UNCHANGED pc
    IN /\ pc = "choose"
       /\ random \/ f = service.next_file
       /\ IF file[f].done
          THEN GoOn /\ UNCHANGED <<file, count, td_error>>
          ELSE IF file[f].open
          THEN /\ IF file[f].closing THEN GoOn ELSE Found(f)
               /\ UNCHANGED <<file, count, td_error>>
          ELSE \E s \in {Opened(State, f, fd) : fd \in BOOLEAN}
                        \cup {OpenFailed(State, f), State}, err \in {0, 1} :
                 /\ td_io_open_file(f, s, err)
                 /\ Becomes(s)
                 /\ IF err = 0 THEN Found(f) ELSE GoOn
       /\ td' = IF file'[f].open \/ file[f].done THEN td
                ELSE [td EXCEPT !.refused = @ \cup {f}]
       /\ UNCHANGED <<left, iofile, old_next_file>>

\* A file on which there is nothing left to do is closed, and done.
FileDone(s, f) ==
    [td_io_close_file(put_file(get_file(s, f), f), f)
        EXCEPT !.file[f].done = TRUE, !.count.nr_done_files = @ + 1]

\* set_io_u_file: the io_u takes a reference.
set_io_u_file ==
    LET f == service.file_service_file IN
    /\ pc = "fill"
    /\ IF left[f] > 0
       THEN /\ \E u \in Free :
                 /\ \A v \in Free : u <= v
                 /\ iofile' = [iofile EXCEPT ![u] = f]
            /\ left' = [left EXCEPT ![f] = @ - 1]
            /\ Becomes(get_file(State, f))
            /\ pc' = IF td_error THEN "drain" ELSE "next"
       ELSE /\ Becomes(FileDone(State, f))
            /\ pc' = "next"
            /\ UNCHANGED <<iofile, left>>
    /\ UNCHANGED <<td, service, old_next_file, td_error>>

----------------------------------------------------------------------------
(* Completions and the loops of the job *)

\* reset_io_counters, with the loops that are left: the count of done files
\* starts over only if another loop is still to come.
reset_io_counters(c, loops) ==
    [c EXCEPT !.this_io = 0, !.nr_done_files = IF loops > 0 THEN 0 ELSE @]

\* What has been done is forgotten, not which files are done.
reset_all_stats(c, loops) == [reset_io_counters(c, loops) EXCEPT !.io = 0]

\* io_completed and put_io_u, at any time while the job is not choosing a file:
\* a transfer without an error is counted, and then the ramp time may be over.
io_completed(u) ==
    LET f == iofile[u]
        c == [count EXCEPT !.this_io = @ + 1, !.io = @ + 1]
    IN /\ pc \in {"next", "drain"} /\ f # NoFile
       /\ iofile' = [iofile EXCEPT ![u] = NoFile]
       /\ IF ~file[f].fd THEN Becomes(put_file(State, f)) /\ UNCHANGED td
          ELSE \E over \in {FALSE, td.ramp} :
                 /\ td' = [td EXCEPT !.ramp = @ /\ ~over]
                 /\ Becomes(put_file(
                       [State EXCEPT !.count = IF over THEN reset_all_stats(c, td.loops) ELSE c],
                       f))
       /\ UNCHANGED <<service, left, pc, old_next_file, td_error>>

close_files(s) ==
    MapThenFoldSet(LAMBDA f, t : IF t.file[f].open THEN td_io_close_file(t, f) ELSE t,
                   s, LAMBDA f : f, LAMBDA S : CHOOSE f \in S : TRUE, Files)

\* keep_running: the loops that are left, and then until as much as the size
\* of the job was done.
keep_running(done) == ~done /\ (td.loops > 0 \/ count.io < o_size)

\* do_io is over and all it issued has completed.  The next loop begins with
\* clear_io_state; the job ends with close_and_free_files.
NextLoop ==
    LET s == close_files(State)
        done == td.done \/ count.this_io = 0
        again == ~td_error /\ keep_running(done)
        loops == IF again /\ td.loops > 0 THEN td.loops - 1 ELSE td.loops
    IN /\ pc = "drain" /\ Idle
       /\ file' = IF again THEN [f \in Files |-> [s.file[f] EXCEPT !.done = FALSE]]
                           ELSE s.file
       /\ count' = IF again THEN reset_io_counters(s.count, loops) ELSE s.count
       /\ left' = IF again THEN [f \in Files |-> Size] ELSE left
       /\ td' = [td EXCEPT !.done = done, !.loops = loops, !.refused = {},
                           !.extra = again /\ td.loops = 0]
       /\ pc' = IF again THEN "next" ELSE "ended"
       /\ UNCHANGED <<service, iofile, old_next_file, td_error>>

Init ==
    /\ td \in Jobs
    /\ file = [f \in Files |-> [open |-> FALSE, closing |-> FALSE, done |-> FALSE,
                                references |-> 0, fd |-> FALSE]]
    /\ count = [nr_open_files |-> 0, nr_done_files |-> 0, du_users |-> 0,
                this_io |-> 0, io |-> 0]
    /\ service = [next_file |-> 0, file_service_file |-> NoFile,
                  file_service_left |-> 0]
    /\ left = [f \in Files |-> Size]
    /\ iofile = [u \in IoUs |-> NoFile]
    /\ pc = "next" /\ old_next_file = 0 /\ td_error = FALSE

JobStep == \/ __get_next_file \/ set_io_u_file \/ NextLoop
           \/ \E f \in Files : TryFile(f)

Complete == \E u \in IoUs : io_completed(u)

Ended == pc = "ended" /\ UNCHANGED vars

Next == JobStep \/ Complete \/ Ended

\* The job goes on, and so do completions.  Drawing at random, every file
\* is drawn again and again.
Spec == Init /\ [][Next]_vars /\ WF_vars(JobStep) /\ WF_vars(Complete)
        /\ \A f \in Files : SF_vars(TryFile(f))

----------------------------------------------------------------------------
(* Properties *)

Held(f) == Cardinality({u \in IoUs : iofile[u] = f})

\* Every reference to an open file is the file's own, as long as it is not
\* being closed, or that of an io_u: put_file never closes a file under an
\* io_u, and closes it with the last one.
RefsExact ==
    \A f \in Files :
        IF file[f].open
        THEN /\ file[f].references = Held(f) + (IF file[f].closing THEN 0 ELSE 1)
             /\ file[f].references > 0
        ELSE file[f].references = 0 /\ Held(f) = 0 /\ ~file[f].fd

\* An io_u is given a file without a descriptor only after the error of the
\* open has been recorded in td->error.
DescriptorOrError ==
    \A u \in IoUs : iofile[u] # NoFile /\ ~file[iofile[u]].fd => td_error

\* nr_open_files counts the open files and, as long as nothing went wrong,
\* the users of the disk are those not yet being closed.
OpenCounted ==
    /\ count.nr_open_files = Cardinality({f \in Files : file[f].open})
    /\ ~td_error => count.du_users =
            Cardinality({f \in Files : file[f].open /\ ~file[f].closing})

\* A loop the job was asked for and that meets no error issues all the transfers
\* of every file, but for those it was refused, and a job leaves no file open.
\* (The loop that keep_running adds because of the ramp time may do nothing.)
AllServed ==
    /\ pc = "drain" /\ ~td_error /\ ~td.extra =>
           \A f \in Files : left[f] = 0 \/ f \in td.refused
    /\ pc = "ended" => \A f \in Files : ~file[f].open
=============================================================================
